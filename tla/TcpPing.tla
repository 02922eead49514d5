------------------------------ MODULE TcpPing ------------------------------
(***************************************************************************)
(* TCP ping (src/src/util/tcp_ping.rs): the status loop's probes of a port,*)
(* one connection attempt after the other, and what is counted of them.    *)
(* It runs outside of dispatch(), so that nothing drops it.                *)
(***************************************************************************)
EXTENDS Mtr

\* Nothing is rounded: the average is the sum of the times over their number, the
\* loss the lost ones over all.  The deviation, which nothing uses, is left out.
compute_tcp_stats(probes, total) ==
  LET rtts == Received(probes)
      rcv == Len(rtts)
  IN  IF rtts = <<>> THEN [status |-> "stats", total |-> total, rcv |-> 0, drop |-> total]
      ELSE [ status |-> "stats", total |-> total, rcv |-> rcv, drop |-> total - rcv,
             min |-> Lowest(rtts), max |-> Highest(rtts), sum |-> Total(rtts) ]

\* A connection within the timeout, one that fails or takes too long, or, for
\* every probe, an address that does not parse.
tcp_ping_single ==
  /\ Is("tcp") /\ pc \in {"new", "probing"} /\ Len(read) < job.packets
  /\ \E t \in IF job.target.ip = NoIp THEN {NoTime} ELSE {NoTime, 10, 25} : read' = Append(read, t)
  /\ pc' = "probing"
  /\ UNCHANGED <<job, clock, tool, local, files, told, result>>

tcp_ping ==
  /\ Is("tcp") /\ pc \in {"new", "probing"} /\ Len(read) = job.packets
  /\ Return(compute_tcp_stats(read, job.packets))
  /\ UNCHANGED <<job, clock, tool, read, local, files, told>>

TcpNext == tcp_ping_single \/ tcp_ping
============================================================================
