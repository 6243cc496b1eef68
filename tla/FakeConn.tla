------------------------------ MODULE FakeConn ------------------------------
(***************************************************************************)
(* The completion bridge of loadgen/src/fakeconn.rs: FakeConnection turns  *)
(* a fire-and-forget storage backend that calls `callback` on an arbitrary *)
(* thread into a blocking read/write "socket".                             *)
(*                                                                         *)
(*   - CONNECTION_ID is the process-wide id counter (fetch_add on new,     *)
(*     fetch_sub on shutdown);                                             *)
(*   - RX_BUFFER[i] is the RwLock<Vec<usize>> of completed handles of the  *)
(*     connection whose conn_id is i;                                      *)
(*   - each connection owns tx_buffer, a slot per request handle holding   *)
(*     the PacketHeader of the request in flight;                          *)
(*   - the backend holds a token (the address of a tx_buffer slot) per     *)
(*     submitted operation and later calls `callback` with Ok or Failed.   *)
(*                                                                         *)
(* The backend is the sandook/vdisk engine: it completes operations in any *)
(* order and with any status, so it is the nondeterministic Callback       *)
(* action.  The load generator around the connection (outside src/) dials, *)
(* writes requests with handles i+1 for i = 0, 1, ..., runs one receiver   *)
(* thread that reads until end-of-stream, and shuts the connection down.   *)
(* A header is abstracted to the fields the bridge routes by: req_handle,  *)
(* conn_id, and whether rx_tsc has been stamped; lba, opcode and the       *)
(* timestamps' values do not influence any control decision here.          *)
(***************************************************************************)
EXTENDS Naturals, Sequences, SequencesExt, FiniteSets, Codec

CONSTANTS
    Conn,              \* FakeConnection objects the load generator creates
    MAX_CONNS,         \* number of RX_BUFFER slots (100 in the code)
    MaxPackets,        \* max_packets given to FakeConnection::new
    DialAfterShutdown  \* may a connection be created after another was shut down?

ASSUME MAX_CONNS \in Nat \ {0}
ASSUME MaxPackets \in Nat \ {0}
ASSUME DialAfterShutdown \in BOOLEAN

\* tx_buffer has max_packets + 1 cells, indexed by req_handle.
Slots == 0..MaxPackets
Handles == 1..MaxPackets
ConnIds == 0..(MAX_CONNS - 1)

\* PacketHeader::default(), what Cell::take leaves in a slot.
DefaultHeader == [req_handle |-> 0, conn_id |-> 0, rx_tsc |-> FALSE]

VARIABLES
    CONNECTION_ID,  \* static AtomicU16 id counter
    RX_BUFFER,      \* RX_BUFFER[i]: Vec of completed handles, used as a stack
    cstate,         \* lifecycle of each FakeConnection object
    conn_id,        \* FakeConnection::conn_id
    wait,           \* FakeConnection::wait, cleared by shutdown
    tx_buffer,      \* FakeConnection::tx_buffer, slot -> header
    next,           \* the writer's next request index i (handle i+1)
    inflight,       \* tokens the backend holds: the slot it will call back on
    rd,             \* program counter of the receiver thread's read loop
    responses,      \* history: headers returned by read, in order
    failed          \* history: handles whose operation the backend failed

vars == <<CONNECTION_ID, RX_BUFFER, cstate, conn_id, wait, tx_buffer, next,
          inflight, rd, responses, failed>>

Token == [conn : Conn, idx : Slots]

-----------------------------------------------------------------------------
Init ==
    /\ CONNECTION_ID = 0
    /\ RX_BUFFER = [i \in ConnIds |-> <<>>]
    /\ cstate = [c \in Conn |-> "none"]
    /\ conn_id = [c \in Conn |-> 0]
    /\ wait = [c \in Conn |-> FALSE]
    /\ tx_buffer = [c \in Conn |-> [s \in Slots |-> DefaultHeader]]
    /\ next = [c \in Conn |-> 0]
    /\ inflight = {}
    /\ rd = [c \in Conn |-> "idle"]
    /\ responses = [c \in Conn |-> <<>>]
    /\ failed = [c \in Conn |-> {}]

(***************************************************************************)
(* FakeConnection::new, first half: assert!(CONNECTION_ID < MAX_CONNS).    *)
(* A failing assert aborts the process, so the step is only taken when it  *)
(* holds.  Unless DialAfterShutdown, the load generator creates all the   *)
(* connections of a run before it shuts any of them down.                  *)
(***************************************************************************)
NewCheck(c) ==
    /\ cstate[c] = "none"
    /\ DialAfterShutdown \/ \A d \in Conn : cstate[d] /= "shut"
    /\ CONNECTION_ID < MAX_CONNS
    /\ cstate' = [cstate EXCEPT ![c] = "checked"]
    /\ UNCHANGED <<CONNECTION_ID, RX_BUFFER, conn_id, wait, tx_buffer, next,
                   inflight, rd, responses, failed>>

(* FakeConnection::new, second half: conn_id = CONNECTION_ID.fetch_add(1), *)
(* a fresh tx_buffer of default headers, wait = true.                      *)
NewAssign(c) ==
    /\ cstate[c] = "checked"
    /\ cstate' = [cstate EXCEPT ![c] = "open"]
    /\ conn_id' = [conn_id EXCEPT ![c] = CONNECTION_ID]
    /\ CONNECTION_ID' = CONNECTION_ID + 1
    /\ wait' = [wait EXCEPT ![c] = TRUE]
    /\ rd' = [rd EXCEPT ![c] = "poll"]
    /\ UNCHANGED <<RX_BUFFER, tx_buffer, next, inflight, responses, failed>>

\* Variants of Write used to test the properties: a bound off by one, and
\* the conn_id stamp left at the 0 that gen_req writes.
WriteOffByOne(c) ==
    LET idx == next[c] + 1
    IN  /\ cstate[c] = "open"
        /\ next[c] <= MaxPackets
        /\ tx_buffer' = [tx_buffer EXCEPT ![c][idx] =
                            [req_handle |-> idx, conn_id |-> conn_id[c],
                             rx_tsc |-> FALSE]]
        /\ inflight' = inflight \cup {[conn |-> c, idx |-> idx]}
        /\ next' = [next EXCEPT ![c] = idx]
        /\ UNCHANGED <<CONNECTION_ID, RX_BUFFER, cstate, conn_id, wait, rd,
                       responses, failed>>

WriteNoConnId(c) ==
    LET idx == next[c] + 1
    IN  /\ cstate[c] = "open"
        /\ next[c] < MaxPackets
        /\ tx_buffer' = [tx_buffer EXCEPT ![c][idx] =
                            [req_handle |-> idx, conn_id |-> 0, rx_tsc |-> FALSE]]
        /\ inflight' = inflight \cup {[conn |-> c, idx |-> idx]}
        /\ next' = [next EXCEPT ![c] = idx]
        /\ UNCHANGED <<CONNECTION_ID, RX_BUFFER, cstate, conn_id, wait, rd,
                       responses, failed>>

(***************************************************************************)
(* Write for &FakeConnection: decode the header, stamp conn_id and tx_tsc, *)
(* replace tx_buffer[req_handle] and submit the operation with the slot's  *)
(* address as token.  The writer sends handles 1, 2, ... in order.         *)
(***************************************************************************)
Write(c) ==
    LET idx == next[c] + 1
    IN  /\ cstate[c] = "open"
        /\ next[c] < MaxPackets
        /\ tx_buffer' = [tx_buffer EXCEPT ![c][idx] =
                            [req_handle |-> idx, conn_id |-> conn_id[c],
                             rx_tsc |-> FALSE]]
        /\ inflight' = inflight \cup {[conn |-> c, idx |-> idx]}
        /\ next' = [next EXCEPT ![c] = idx]
        /\ UNCHANGED <<CONNECTION_ID, RX_BUFFER, cstate, conn_id, wait, rd,
                       responses, failed>>

(***************************************************************************)
(* extern "C" fn callback(idx, status), run by the backend on its own      *)
(* thread, one action per status.  It dereferences the token as a          *)
(* PacketHeader: on kOk it stamps rx_tsc and pushes the header's           *)
(* req_handle onto RX_BUFFER[header's conn_id] under the write lock; on    *)
(* kFailed it does nothing (the backend's token is simply dropped).  The   *)
(* is read when the callback runs, not when the request was submitted.     *)
(* RX_BUFFER[i] with i >= MAX_CONNS panics: that step is never taken (the  *)
(* id that causes it is what ConnIdInRange reports).                       *)
(***************************************************************************)
CallbackOk(t) ==
    LET pkt == tx_buffer[t.conn][t.idx]
    IN  /\ t \in inflight
        /\ pkt.conn_id \in ConnIds
        /\ inflight' = inflight \ {t}
        /\ tx_buffer' = [tx_buffer EXCEPT ![t.conn][t.idx].rx_tsc = TRUE]
        /\ RX_BUFFER' = [RX_BUFFER EXCEPT ![pkt.conn_id] = Append(@, pkt.req_handle)]
        /\ UNCHANGED <<CONNECTION_ID, cstate, conn_id, wait, next, rd,
                       responses, failed>>

CallbackFailed(t) ==
    /\ t \in inflight
    /\ inflight' = inflight \ {t}
    /\ failed' = [failed EXCEPT ![t.conn] = @ \cup {t.idx}]
    /\ UNCHANGED <<CONNECTION_ID, RX_BUFFER, cstate, conn_id, wait, tx_buffer,
                   next, rd, responses>>

ReadPoll(c) ==
    /\ rd[c] = "poll"
    /\ conn_id[c] \in ConnIds
    /\ \/ /\ RX_BUFFER[conn_id[c]] /= <<>>
          /\ rd' = [rd EXCEPT ![c] = "pop"]
       \/ /\ RX_BUFFER[conn_id[c]] = <<>>
          /\ ~wait[c]
          /\ rd' = [rd EXCEPT ![c] = "eof"]
    /\ UNCHANGED <<CONNECTION_ID, RX_BUFFER, cstate, conn_id, wait, tx_buffer,
                   next, inflight, responses, failed>>

(***************************************************************************)
(* The wire form of a stored header.  Write stamps tx_tsc with rdtsc() and *)
(* callback later stamps rx_tsc, so a stamped rx_tsc is the larger; gen_req *)
(* sends lba_count 1; a slot written by no request has zero fields, though *)
(* a late callback may still stamp its rx_tsc.                             *)
(***************************************************************************)
ToWire(pkt) ==
    LET sent == pkt.req_handle /= 0
    IN  [ZeroHeader EXCEPT !.req_handle = pkt.req_handle, !.conn_id = pkt.conn_id,
                           !.lba_count = IF sent THEN 1 ELSE 0,
                           !.tx_tsc = IF sent THEN 1 ELSE 0,
                           !.rx_tsc = IF pkt.rx_tsc THEN 2 ELSE 0]

FromWire(h) ==
    [req_handle |-> h.req_handle, conn_id |-> h.conn_id, rx_tsc |-> h.rx_tsc > h.tx_tsc]

(***************************************************************************)
(* Read, after its pop: take() the slot, packet.write into a Vec, and      *)
(* buf.copy_from_slice; the receiver's read_response then parses it.  For  *)
(* every header a slot holds that pipeline gives back the header taken  *)
(* (ReadPathFaithful checks it against Codec), so the receiver is given    *)
(* the header itself.  read_response's subtractions wrap (release) or      *)
(* panic (debug) on a taken slot or an unstamped rx_tsc; ResponsesGenuine  *)
(* is violated exactly when a returned header would make them do so.       *)
(***************************************************************************)
TakeAndRespond(c, index) ==
    /\ tx_buffer' = [tx_buffer EXCEPT ![c][index] = DefaultHeader]
    /\ responses' = [responses EXCEPT ![c] = Append(@, tx_buffer[c][index])]
    /\ rd' = [rd EXCEPT ![c] = "poll"]

\* Variants of ReadPop used to test the properties: the handle is read with
\* last() and left queued, or the slot is indexed as in read_response's
\* req_handle - 1.
ReadPeek(c) ==
    LET q == RX_BUFFER[conn_id[c]]
    IN  /\ rd[c] = "pop"
        /\ IF q = <<>>
             THEN /\ rd' = [rd EXCEPT ![c] = "panic"]
                  /\ UNCHANGED <<RX_BUFFER, tx_buffer, responses>>
             ELSE /\ UNCHANGED RX_BUFFER
                  /\ TakeAndRespond(c, Last(q))
        /\ UNCHANGED <<CONNECTION_ID, cstate, conn_id, wait, next, inflight,
                       failed>>

ReadPopOffByOne(c) ==
    LET q == RX_BUFFER[conn_id[c]]
    IN  /\ rd[c] = "pop"
        /\ IF q = <<>>
             THEN /\ rd' = [rd EXCEPT ![c] = "panic"]
                  /\ UNCHANGED <<RX_BUFFER, tx_buffer, responses>>
             ELSE /\ RX_BUFFER' = [RX_BUFFER EXCEPT ![conn_id[c]] = Front(q)]
                  /\ TakeAndRespond(c, Last(q) - 1)
        /\ UNCHANGED <<CONNECTION_ID, cstate, conn_id, wait, next, inflight,
                       failed>>

(***************************************************************************)
(* Read, after the loop: take the write lock and pop().unwrap() the most   *)
(* recent handle (a panic if the queue was emptied since the check), then  *)
(* take the slot of this connection's tx_buffer at that handle and return  *)
(* it serialised.  The receiver thread then issues its next read.          *)
(***************************************************************************)
ReadPop(c) ==
    LET q == RX_BUFFER[conn_id[c]]
    IN  /\ rd[c] = "pop"
        /\ IF q = <<>>
             THEN /\ rd' = [rd EXCEPT ![c] = "panic"]
                  /\ UNCHANGED <<RX_BUFFER, tx_buffer, responses>>
             ELSE /\ RX_BUFFER' = [RX_BUFFER EXCEPT ![conn_id[c]] = Front(q)]
                  /\ TakeAndRespond(c, Last(q))
        /\ UNCHANGED <<CONNECTION_ID, cstate, conn_id, wait, next, inflight,
                       failed>>

(* FakeConnection::shutdown: wait = false, CONNECTION_ID.fetch_sub(1).  *)
(* Unless DialAfterShutdown, the load generator shuts connections down    *)
(* only once every connection it is creating has its id.                  *)
Shutdown(c) ==
    /\ cstate[c] = "open"
    /\ DialAfterShutdown \/ \A d \in Conn : cstate[d] /= "checked"
    /\ cstate' = [cstate EXCEPT ![c] = "shut"]
    /\ wait' = [wait EXCEPT ![c] = FALSE]
    /\ CONNECTION_ID' = CONNECTION_ID - 1
    /\ UNCHANGED <<RX_BUFFER, conn_id, tx_buffer, next, inflight, rd,
                   responses, failed>>

Next ==
    \/ \E c \in Conn : NewCheck(c) \/ NewAssign(c) \/ Write(c)
                       \/ ReadPoll(c) \/ ReadPop(c) \/ Shutdown(c)
    \/ \E t \in Token : CallbackOk(t) \/ CallbackFailed(t)

(***************************************************************************)
(* Fairness.  The backend runs every submitted operation to completion or  *)
(* failure (spec section 5), and the receiver thread is a runnable         *)
(* Caladan thread that keeps polling, so both are weakly fair.  Dialing,   *)
(* writing and shutting down are the load generator's choices: no fairness.*)
(***************************************************************************)
Fairness ==
    /\ \A t \in Token : WF_vars(CallbackOk(t) \/ CallbackFailed(t))
    /\ \A c \in Conn : WF_vars(ReadPoll(c)) /\ WF_vars(ReadPop(c))

Spec == Init /\ [][Next]_vars /\ Fairness

-----------------------------------------------------------------------------
Header == [req_handle : Slots, conn_id : Nat, rx_tsc : BOOLEAN]

TypeOK ==
    /\ CONNECTION_ID \in Nat
    /\ RX_BUFFER \in [ConnIds -> Seq(Slots)]
    /\ cstate \in [Conn -> {"none", "checked", "open", "shut"}]
    /\ conn_id \in [Conn -> Nat]
    /\ wait \in [Conn -> BOOLEAN]
    /\ tx_buffer \in [Conn -> [Slots -> Header]]
    /\ next \in [Conn -> 0..MaxPackets]
    /\ inflight \subseteq Token
    /\ rd \in [Conn -> {"idle", "poll", "pop", "eof", "panic"}]
    /\ responses \in [Conn -> Seq(Header)]
    /\ failed \in [Conn -> SUBSET Handles]

Live(c) == cstate[c] \in {"open", "shut"}
Written(c, h) == h <= next[c]
Answered(c, h) == \E i \in DOMAIN responses[c] : responses[c][i].req_handle = h

(***************************************************************************)
(* Every header a read returns is a genuine completion of this connection: *)
(* a request it wrote (req_handle /= 0, so read_response's handle - 1 does *)
(* not underflow), stamped with its own conn_id, whose backend operation   *)
(* completed (rx_tsc stamped, so rx_tsc - tx_tsc is a real latency).  This *)
(* is what callback's routing by conn_id and read's pop/take must ensure.  *)
(***************************************************************************)
ResponsesGenuine ==
    \A c \in Conn : \A i \in DOMAIN responses[c] :
        LET r == responses[c][i]
        IN  /\ r.req_handle \in Handles
            /\ r.conn_id = conn_id[c]
            /\ r.rx_tsc

(***************************************************************************)
(* The bytes read would copy out of any slot, in any state, are exactly    *)
(* SANDOOK_HDR_SZ long (copy_from_slice panics otherwise), and             *)
(* read_response parses them back to the header in the slot, flagging the *)
(* wrapping subtraction exactly for a taken slot or an unstamped rx_tsc:   *)
(* the path through PacketHeader::write and ::read is what ReadPop assumes.*)
(***************************************************************************)
ReadPathFaithful ==
    \A c \in Conn, s \in Slots :
        LET pkt == tx_buffer[c][s]
            bytes == Encode(ToWire(pkt))
            r == ReadResponse(bytes)
        IN  /\ Len(bytes) = SANDOOK_HDR_SZ
            /\ r.status \in {"ok", "underflow"}
            /\ FromWire(r.hdr) = pkt
            /\ (r.status = "underflow") = (pkt.req_handle = 0 \/ ~pkt.rx_tsc)

(* Each request is returned by read at most once: pop removes the handle  *)
(* and take() clears the slot (spec section 8, "no duplicates").           *)
AnsweredAtMostOnce ==
    \A c \in Conn : \A i, j \in DOMAIN responses[c] :
        i /= j => responses[c][i].req_handle /= responses[c][j].req_handle

(* Two open connections never share an id, hence an RX_BUFFER queue: the  *)
(* id counter is "free-list-like" and shutdown "releases its id for reuse" *)
(* (spec section 3), so only a released id may be handed out again.        *)
ConnIdsDistinct ==
    \A c, d \in Conn :
        c /= d /\ cstate[c] = "open" /\ cstate[d] = "open" => conn_id[c] /= conn_id[d]

(* Every connection's id indexes RX_BUFFER: the assert in new() bounds it. *)
ConnIdInRange == \A c \in Conn : Live(c) => conn_id[c] \in ConnIds

(* The receiver returns completions in the order the backend completed    *)
(* them (spec sections 4.3 and 5): a pop takes the oldest queued handle.   *)
CompletionOrder ==
    [][\A c \in Conn :
          rd[c] = "pop" /\ rd'[c] = "poll" =>
              RX_BUFFER'[conn_id[c]] = Tail(RX_BUFFER[conn_id[c]])]_vars

(***************************************************************************)
(* Every request written is eventually answered by read, unless the        *)
(* backend failed it or the receiver has already seen end-of-stream: the   *)
(* callback must route the completion to the queue this connection's       *)
(* reader polls, and the read loop must not give up while it is queued.    *)
(***************************************************************************)
WrittenEventuallyAnswered ==
    \A c \in Conn : \A h \in Handles :
        Written(c, h) ~> (Answered(c, h) \/ h \in failed[c] \/ rd[c] = "eof")

-----------------------------------------------------------------------------
(***************************************************************************)
(* Refinement.  A connection's life is idle until new() has assigned its  *)
(* id; the completions waiting for it are the handles on the RX_BUFFER     *)
(* stack its id selects; those it was given are the handles of the headers *)
(* read returned.                                                          *)
(***************************************************************************)
LifeOf(c) ==
    CASE cstate[c] = "open" -> "open"
      [] cstate[c] = "shut" -> "closed"
      [] OTHER -> "idle"

Queued(c) ==
    IF Live(c) THEN {RX_BUFFER[conn_id[c]][i] : i \in DOMAIN RX_BUFFER[conn_id[c]]}
               ELSE {}

Reg == INSTANCE Registry WITH
    life <- [c \in Conn |-> LifeOf(c)],
    sent <- [c \in Conn |-> 1..next[c]],
    pending <- [c \in Conn |-> {t.idx : t \in {u \in inflight : u.conn = c}}],
    done <- [c \in Conn |-> Queued(c)],
    got <- [c \in Conn |-> {responses[c][i].req_handle : i \in DOMAIN responses[c]}],
    lost <- failed,
    reader <- [c \in Conn |-> IF rd[c] = "eof" THEN "eof" ELSE "reading"]

=============================================================================
