---------------------------- MODULE FakeConnSPDK ----------------------------
(***************************************************************************)
(* FakeConnection built with the "spdk" feature (loadgen/src/              *)
(* fakeconn_spdk.rs): the backend is FakeConnectionSPDK, which runs every  *)
(* submission on a detached thread that does wg.add(1), the storage        *)
(* operation, the completion callback and wg.done().  It composes the      *)
(* bridge of FakeConn with those threads and with the end of a             *)
(* connection's life: the drop glue of FakeConnection drops its fields in  *)
(* declaration order, tx_buffer first and the spdk adapter (whose Drop     *)
(* waits on the WaitGroup) last.                                           *)
(***************************************************************************)
EXTENDS Naturals, FiniteSets, TLC

CONSTANTS Conn, MAX_CONNS, MaxPackets, DialAfterShutdown

VARIABLES CONNECTION_ID, RX_BUFFER, cstate, conn_id, wait, tx_buffer, next,
          inflight, rd, responses, failed

FC == INSTANCE FakeConn

VARIABLES
    thread,   \* token -> step of the spawned submit_spdk_op thread
    wg,       \* the adapter's WaitGroup count, per connection
    drop      \* progress of the connection's drop glue

fcVars == <<CONNECTION_ID, RX_BUFFER, cstate, conn_id, wait, tx_buffer, next,
            inflight, rd, responses, failed>>
spdkVars == <<thread, wg, drop>>
vars == <<fcVars, spdkVars>>

Init ==
    /\ FC!Init
    /\ thread = [t \in {} |-> "spawned"]
    /\ wg = [c \in Conn |-> 0]
    /\ drop = [c \in Conn |-> "live"]

\* Connection operations that do not touch the adapter.
Bridge(c) ==
    /\ drop[c] = "live"
    /\ \/ FC!NewCheck(c) \/ FC!NewAssign(c) \/ FC!ReadPoll(c)
       \/ FC!ReadPop(c) \/ FC!Shutdown(c)
    /\ UNCHANGED spdkVars

(* write: submit_spdk_op spawns a detached thread for the token.          *)
Write(c) ==
    /\ drop[c] = "live"
    /\ FC!Write(c)
    /\ thread' = thread @@ ([conn |-> c, idx |-> next[c] + 1] :> "spawned")
    /\ UNCHANGED <<wg, drop>>

(* The spawned thread starts: wg.add(1).                                  *)
ThreadAdd(t) ==
    /\ thread[t] = "spawned"
    /\ thread' = [thread EXCEPT ![t] = "added"]
    /\ wg' = [wg EXCEPT ![t.conn] = @ + 1]
    /\ UNCHANGED <<fcVars, drop>>

(* storage_read/storage_write, then the callback with kOk or kFailed.     *)
ThreadCallback(t) ==
    /\ thread[t] = "added"
    /\ FC!CallbackOk(t) \/ FC!CallbackFailed(t)
    /\ thread' = [thread EXCEPT ![t] = "called"]
    /\ UNCHANGED <<wg, drop>>

(* wg.done(): the thread ends.                                            *)
ThreadDone(t) ==
    /\ thread[t] = "called"
    /\ thread' = [s \in DOMAIN thread \ {t} |-> thread[s]]
    /\ wg' = [wg EXCEPT ![t.conn] = @ - 1]
    /\ UNCHANGED <<fcVars, drop>>

(***************************************************************************)
(* The last reference to the connection goes once its receiver has seen    *)
(* end-of-stream after shutdown.  Drop glue, first field: tx_buffer is     *)
(* freed.                                                                  *)
(***************************************************************************)
DropTxBuffer(c) ==
    /\ drop[c] = "live"
    /\ cstate[c] = "shut"
    /\ rd[c] = "eof"
    /\ drop' = [drop EXCEPT ![c] = "freed"]
    /\ UNCHANGED <<fcVars, thread, wg>>

(* Last field: FakeConnectionSPDK::drop returns once wg.wait() sees zero. *)
DropWait(c) ==
    /\ drop[c] = "freed"
    /\ wg[c] = 0
    /\ drop' = [drop EXCEPT ![c] = "gone"]
    /\ UNCHANGED <<fcVars, thread, wg>>

Next ==
    \/ \E c \in Conn : Bridge(c) \/ Write(c) \/ DropTxBuffer(c) \/ DropWait(c)
    \/ \E t \in DOMAIN thread : ThreadAdd(t) \/ ThreadCallback(t) \/ ThreadDone(t)

Spec == Init /\ [][Next]_vars

-----------------------------------------------------------------------------
(* No submission thread still has to call back into a connection whose    *)
(* tx_buffer is freed: callback dereferences the slot address it was      *)
(* given, so such a thread writes rx_tsc into freed memory.                *)
NoCallbackIntoFreedBuffer ==
    \A t \in DOMAIN thread :
        thread[t] \in {"spawned", "added"} => drop[t.conn] = "live"

(* When FakeConnectionSPDK::drop returns, every operation the connection  *)
(* submitted has finished: the WaitGroup tracks the spawned threads.      *)
DropWaitsForSubmissions ==
    \A c \in Conn : drop[c] = "gone" => \A t \in DOMAIN thread : t.conn /= c

=============================================================================
