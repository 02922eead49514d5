------------------------------- MODULE AltIps -------------------------------
(***************************************************************************)
(* Alternative addresses (src/src/probe/alt_ips.rs): on api:connect:ip the *)
(* handler spawns a task that asks the API for a token through each of the *)
(* probe's other addresses and tells them all with probe:alt-ips.  Nothing *)
(* orders these tasks or ends them with their connection.                  *)
(***************************************************************************)
EXTENDS Integers, FiniteSets

CONSTANTS
  Ips,            \* addresses of the probe's interfaces
  MaxRefreshes    \* bound on api:connect:ip events

Refreshes == 1..MaxRefreshes

VARIABLES
  begun,      \* number of refreshes begun; a refresh is its number
  conn,       \* number of the connection
  refresh,    \* what each refresh works with
  heard       \* history: what the API heard last in this connection

addressVars == <<begun, conn, refresh, heard>>

Idle == [pc |-> "idle", conn |-> 0, main |-> "?", answers |-> <<>>, late |-> FALSE]
Silence == [from |-> 0, ips |-> {}]

AltIpsInit ==
  /\ begun = 0 /\ conn = 1
  /\ refresh = [r \in Refreshes |-> Idle]
  /\ heard = Silence

\* A refresh that asks for the addresses alt; without any there is nothing to
\* do, and nothing is emitted.
Begin(main, alt) ==
  /\ begun < MaxRefreshes
  /\ LET r == begun + 1
         overlaps == \E q \in 1..begun : refresh[q].pc = "fetching" /\ refresh[q].conn = conn
     IN  /\ begun' = r
         /\ refresh' = [refresh EXCEPT ![r] =
              [ pc |-> IF alt = {} THEN "ended" ELSE "fetching", conn |-> conn, main |-> main,
                answers |-> [ip \in alt |-> "none"], late |-> overlaps ]]
  /\ UNCHANGED <<conn, heard>>

\* api:connect:ip tells the main address ("?" if it has none); the others are
\* those of the interfaces, but for that one.
OnConnectIp(main, local) == Begin(main, local \ {main})

\* fetch_alt_ip_token(), all of them at once: a token for the address the API
\* saw the request come from; a refusal, which is a 400; or anything else that
\* fails, the timeout of 15 s included.
Fetch(r, ip, answer) ==
  /\ refresh[r].pc = "fetching" /\ ip \in DOMAIN refresh[r].answers
  /\ refresh[r].answers[ip] = "none"
  /\ refresh' = [refresh EXCEPT ![r].answers[ip] = answer]
  /\ UNCHANGED <<begun, conn, heard>>

Confirmed(f) == {f.answers[ip] : ip \in DOMAIN f.answers} \cap Ips

Fetched(r) ==
  /\ refresh[r].pc = "fetching"
  /\ \A ip \in DOMAIN refresh[r].answers : refresh[r].answers[ip] # "none"

EmitOver(c, r) ==
  /\ Fetched(r)
  /\ refresh' = [refresh EXCEPT ![r].pc = "ended"]
  /\ heard' = IF c = conn THEN [from |-> r, ips |-> Confirmed(refresh[r])] ELSE heard
  /\ UNCHANGED <<begun, conn>>

\* Mutant of Emit: over the connection there is by now.
EmitNow(r) == EmitOver(conn, r)

\* join_all has them all: the tokens are emitted, even if there are none, on
\* the connection the event came from; if that is gone the emit fails.
Emit(r) == EmitOver(refresh[r].conn, r)

\* The emit fails though the connection is still there: it is not tried again.
EmitFails(r) ==
  /\ Fetched(r)
  /\ refresh' = [refresh EXCEPT ![r].pc = "lost"]
  /\ UNCHANGED <<begun, conn, heard>>

\* The connection is replaced; the API begins with nothing.
Reconnect ==
  /\ conn <= begun          \* one without any refresh says nothing new
  /\ conn' = conn + 1
  /\ heard' = Silence
  /\ UNCHANGED <<begun, refresh>>

AltIpsNext ==
  \/ \E main \in Ips \cup {"?"}, local \in SUBSET Ips : OnConnectIp(main, local)
  \/ \E r \in Refreshes, ip \in Ips, answer \in Ips \cup {"rejected", "failed"} : Fetch(r, ip, answer)
  \/ \E r \in Refreshes : Emit(r) \/ EmitFails(r)
  \/ Reconnect

AltIpsSpec == AltIpsInit /\ [][AltIpsNext]_addressVars

\* What the API has heard is of this connection and of its newest refresh that
\* has told anything, unless that began while another one was under way: then
\* the older may have come last.  It has all addresses, and only those, that the
\* API has confirmed to that refresh, which asked by none that was known before.
AltIpsFresh ==
  heard.from > 0 =>
    LET f == refresh[heard.from]
        newer == {r \in Refreshes : r > heard.from /\ refresh[r].pc = "ended"
                                    /\ refresh[r].conn = conn /\ refresh[r].answers # <<>>}
    IN  /\ f.conn = conn
        /\ heard.ips = Confirmed(f)
        /\ f.main \notin DOMAIN f.answers
        /\ \A r \in newer : refresh[r].late
=============================================================================
