------------------------------ MODULE Registry ------------------------------
(***************************************************************************)
(* What the completion bridge promises a connection's reader, with the     *)
(* mechanism (connection ids, the shared RX_BUFFER stacks, tx_buffer       *)
(* slots, tokens) left out.  Each connection is opened and later closed;   *)
(* while open it sends requests under distinct handles; the backend        *)
(* completes each sent request once, successfully or not; the reader is   *)
(* given each successful completion of its own connection once, in any     *)
(* order ("insertion order irrelevant for correctness", spec section 3),   *)
(* and sees end-of-stream only when the connection is closed and nothing   *)
(* completed is left to read.                                              *)
(***************************************************************************)
EXTENDS FiniteSets

CONSTANTS Conn, Handles

VARIABLES
    life,     \* "idle", "open" or "closed", per connection
    sent,     \* handles a connection has sent
    pending,  \* sent handles the backend has not completed
    done,     \* handles completed successfully and not yet read
    got,      \* handles the reader has been given
    lost,     \* handles the backend failed
    reader    \* "reading" or "eof"

avars == <<life, sent, pending, done, got, lost, reader>>

Init ==
    /\ life = [c \in Conn |-> "idle"]
    /\ sent = [c \in Conn |-> {}]
    /\ pending = [c \in Conn |-> {}]
    /\ done = [c \in Conn |-> {}]
    /\ got = [c \in Conn |-> {}]
    /\ lost = [c \in Conn |-> {}]
    /\ reader = [c \in Conn |-> "reading"]

Open(c) ==
    /\ life[c] = "idle"
    /\ life' = [life EXCEPT ![c] = "open"]
    /\ UNCHANGED <<sent, pending, done, got, lost, reader>>

Send(c, h) ==
    /\ life[c] = "open"
    /\ h \notin sent[c]
    /\ sent' = [sent EXCEPT ![c] = @ \cup {h}]
    /\ pending' = [pending EXCEPT ![c] = @ \cup {h}]
    /\ UNCHANGED <<life, done, got, lost, reader>>

Complete(c, h) ==
    /\ h \in pending[c]
    /\ pending' = [pending EXCEPT ![c] = @ \ {h}]
    /\ done' = [done EXCEPT ![c] = @ \cup {h}]
    /\ UNCHANGED <<life, sent, got, lost, reader>>

Fail(c, h) ==
    /\ h \in pending[c]
    /\ pending' = [pending EXCEPT ![c] = @ \ {h}]
    /\ lost' = [lost EXCEPT ![c] = @ \cup {h}]
    /\ UNCHANGED <<life, sent, done, got, reader>>

Deliver(c, h) ==
    /\ life[c] /= "idle"
    /\ reader[c] = "reading"
    /\ h \in done[c]
    /\ done' = [done EXCEPT ![c] = @ \ {h}]
    /\ got' = [got EXCEPT ![c] = @ \cup {h}]
    /\ UNCHANGED <<life, sent, pending, lost, reader>>

Close(c) ==
    /\ life[c] = "open"
    /\ life' = [life EXCEPT ![c] = "closed"]
    /\ UNCHANGED <<sent, pending, done, got, lost, reader>>

EndOfStream(c) ==
    /\ life[c] = "closed"
    /\ reader[c] = "reading"
    /\ done[c] = {}
    /\ reader' = [reader EXCEPT ![c] = "eof"]
    /\ UNCHANGED <<life, sent, pending, done, got, lost>>

Next ==
    \E c \in Conn :
        \/ Open(c) \/ Close(c) \/ EndOfStream(c)
        \/ \E h \in Handles : Send(c, h) \/ Complete(c, h) \/ Fail(c, h)
                             \/ Deliver(c, h)

(***************************************************************************)
(* The backend finishes every operation, and a reader with a completion    *)
(* waiting, or a closed and drained connection, does not stall.            *)
(***************************************************************************)
Fairness ==
    /\ \A c \in Conn, h \in Handles : WF_avars(Complete(c, h) \/ Fail(c, h))
    /\ \A c \in Conn : WF_avars(\E h \in Handles : Deliver(c, h))
    /\ \A c \in Conn : WF_avars(EndOfStream(c))

Spec == Init /\ [][Next]_avars /\ Fairness

=============================================================================
