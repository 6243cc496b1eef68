------------------------------ MODULE Protocol ------------------------------
(***************************************************************************)
(* The one-time backend initialisation of SandookProtocol (loadgen/src/    *)
(* sandook.rs).  The load generator's sender threads share one protocol    *)
(* object and call gen_req concurrently.  gen_req first loads              *)
(* runtime_intialized; if it is false it calls init_sandook, which flips   *)
(* the flag with compare_exchange_weak and, if it won, runs sandook_init   *)
(* and, in interactive mode, asks the user to confirm (declining panics    *)
(* the process).  Then it builds the request.  Dropping the protocol       *)
(* flips the flag back with a CAS and tears the backend down.              *)
(*                                                                         *)
(* Caladan runs on x86, where compare_exchange_weak is a lock cmpxchg and  *)
(* never fails spuriously, so the CAS is modelled as a strong one.        *)
(* gen_req's Mt64 draws are chosen from small sets, and the header it      *)
(* builds is written out through Codec, byte for byte.                     *)
(***************************************************************************)
EXTENDS Naturals, Sequences, Codec

CONSTANTS
    Threads,      \* sender threads calling gen_req
    Requests,     \* gen_req calls per thread
    Interactive,  \* SandookProtocol::interactive
    NSectors,     \* SandookProtocol::nsectors (--sandook_nsectors)
    PctWrites,    \* SandookProtocol::pct_writes (--sandook_set_rate)
    Draws         \* values rng.gen::<u64>() may return

(* A zero nsectors makes every gen_req panic in the % below; the model     *)
(* takes the count to be positive, as the default 2097152 is.              *)
ASSUME /\ Requests \in Nat /\ Interactive \in BOOLEAN
       /\ NSectors \in Nat \ {0} /\ PctWrites \in Nat /\ Draws \subseteq Nat

\* Samples of Uniform::new(0, 1000) on each side of the write threshold.
PermilleDraws == {0, 999} \cup ({PctWrites - 1, PctWrites} \cap 0..999)

\* Opcode::Read and Opcode::Write.
OpRead == 0
OpWrite == 1

\* The PacketHeader literal gen_req builds for request index i.
Request(i, lba, opcode) ==
    [ZeroHeader EXCEPT !.opcode = opcode, !.req_handle = i + 1, !.lba = lba,
                       !.lba_count = 1]

VARIABLES
    runtime_intialized,  \* the AtomicBool (the code's spelling)
    backend,             \* "uninit", "ready" after sandook_init, "torn" after teardown
    confirmed,           \* the user answered the prompt with yes
    inits,               \* history: sandook_init calls
    pc,                  \* each thread's place in gen_req
    nreq,                \* gen_req calls each thread has completed
    aborted,             \* panic!("User aborted")
    dropped,             \* the protocol object has been dropped
    buf                  \* bytes each thread's last gen_req wrote

vars == <<runtime_intialized, backend, confirmed, inits, pc, nreq, aborted,
          dropped, buf>>

(* SandookProtocol::with_args: runtime_intialized = false.                *)
Init ==
    /\ runtime_intialized = FALSE
    /\ backend = "uninit"
    /\ confirmed = FALSE
    /\ inits = 0
    /\ pc = [t \in Threads |-> "idle"]
    /\ nreq = [t \in Threads |-> 0]
    /\ aborted = FALSE
    /\ dropped = FALSE
    /\ buf = [t \in Threads |-> <<>>]

(* gen_req: if !runtime_intialized.load() { self.init_sandook() }.        *)
GenReqLoad(t) ==
    /\ ~aborted /\ ~dropped
    /\ pc[t] = "idle"
    /\ nreq[t] < Requests
    /\ pc' = [pc EXCEPT ![t] = IF runtime_intialized THEN "gen" ELSE "cas"]
    /\ UNCHANGED <<runtime_intialized, backend, confirmed, inits, nreq,
                   aborted, dropped, buf>>

\* Variant of InitCAS used to test the properties: the flag is stored
\* without comparing, as a separate load-then-store would.
InitStore(t) ==
    /\ ~aborted
    /\ pc[t] = "cas"
    /\ runtime_intialized' = TRUE
    /\ pc' = [pc EXCEPT ![t] = "init"]
    /\ UNCHANGED <<backend, confirmed, inits, nreq, aborted, dropped, buf>>

(* init_sandook: compare_exchange_weak(false, true); the winner goes on   *)
(* to initialise, a loser returns and gen_req carries on.                  *)
InitCAS(t) ==
    /\ ~aborted
    /\ pc[t] = "cas"
    /\ \/ /\ ~runtime_intialized
          /\ runtime_intialized' = TRUE
          /\ pc' = [pc EXCEPT ![t] = "init"]
       \/ /\ runtime_intialized
          /\ pc' = [pc EXCEPT ![t] = "gen"]
          /\ UNCHANGED runtime_intialized
    /\ UNCHANGED <<backend, confirmed, inits, nreq, aborted, dropped, buf>>

(* init_sandook, after winning: sandook_init(nsectors); then user_input() *)
(* in interactive mode.                                                    *)
SandookInit(t) ==
    /\ ~aborted
    /\ pc[t] = "init"
    /\ backend' = "ready"
    /\ inits' = inits + 1
    /\ pc' = [pc EXCEPT ![t] = IF Interactive THEN "prompt" ELSE "gen"]
    /\ UNCHANGED <<runtime_intialized, confirmed, nreq, aborted, dropped, buf>>

(* user_input: Confirm ... interact(); yes returns, no panics.            *)
UserInput(t) ==
    /\ ~aborted
    /\ pc[t] = "prompt"
    /\ \/ /\ confirmed' = TRUE
          /\ pc' = [pc EXCEPT ![t] = "gen"]
          /\ UNCHANGED aborted
       \/ /\ aborted' = TRUE
          /\ UNCHANGED <<confirmed, pc>>
    /\ UNCHANGED <<runtime_intialized, backend, inits, nreq, dropped, buf>>

(***************************************************************************)
(* gen_req, rest: seed Mt64 with the packet's randomness, take             *)
(* lba = rng.gen::<u64>() % nsectors, make the request a write if a        *)
(* Uniform(0, 1000) sample is below pct_writes, and write the header with  *)
(* req_handle i + 1 into the packet's buffer.  i is the thread's count of  *)
(* requests so far.                                                        *)
(***************************************************************************)
Generate(t) ==
    /\ ~aborted
    /\ pc[t] = "gen"
    /\ \E r \in Draws, u \in PermilleDraws :
          LET opcode == IF u < PctWrites THEN OpWrite ELSE OpRead
          IN  buf' = [buf EXCEPT ![t] = Encode(Request(nreq[t], r % NSectors, opcode))]
    /\ pc' = [pc EXCEPT ![t] = "idle"]
    /\ nreq' = [nreq EXCEPT ![t] = @ + 1]
    /\ UNCHANGED <<runtime_intialized, backend, confirmed, inits, aborted,
                   dropped>>

\* Variant of Drop used to test the properties: the flag is stored false
\* and the backend torn down without comparing first.
DropUnconditional ==
    /\ ~aborted /\ ~dropped
    /\ \A t \in Threads : pc[t] = "idle"
    /\ dropped' = TRUE
    /\ runtime_intialized' = FALSE
    /\ backend' = "torn"
    /\ UNCHANGED <<confirmed, inits, pc, nreq, aborted, buf>>

(* Drop for SandookProtocol, once no gen_req is running (drop takes &mut):*)
(* compare_exchange_weak(true, false) and, if it succeeds, sandook_teardown.*)
Drop ==
    /\ ~aborted /\ ~dropped
    /\ \A t \in Threads : pc[t] = "idle"
    /\ dropped' = TRUE
    /\ \/ /\ runtime_intialized
          /\ runtime_intialized' = FALSE
          /\ backend' = "torn"
       \/ /\ ~runtime_intialized
          /\ UNCHANGED <<runtime_intialized, backend>>
    /\ UNCHANGED <<confirmed, inits, pc, nreq, aborted, buf>>

Next ==
    \/ \E t \in Threads : \/ GenReqLoad(t) \/ InitCAS(t) \/ SandookInit(t)
                          \/ UserInput(t) \/ Generate(t)
    \/ Drop

Spec == Init /\ [][Next]_vars

-----------------------------------------------------------------------------
TypeOK ==
    /\ runtime_intialized \in BOOLEAN
    /\ backend \in {"uninit", "ready", "torn"}
    /\ confirmed \in BOOLEAN
    /\ inits \in Nat
    /\ pc \in [Threads -> {"idle", "cas", "init", "prompt", "gen"}]
    /\ nreq \in [Threads -> 0..Requests]
    /\ aborted \in BOOLEAN
    /\ dropped \in BOOLEAN
    /\ buf \in [Threads -> Seq(0..(ByteBase - 1))]

(* However the sender threads interleave, sandook_init runs at most once  *)
(* per protocol object: the CAS admits a single winner.                    *)
InitAtMostOnce == inits <= 1

(***************************************************************************)
(* No request is built before the backend is initialised and, in          *)
(* interactive mode, the user has confirmed: the initialisation "must run  *)
(* before the first generate call" and declining aborts "before any        *)
(* operation is generated" (spec sections 4.4 and 7).                      *)
(***************************************************************************)
GenOnlyWhenReady ==
    \A t \in Threads :
        pc[t] = "gen" => backend = "ready" /\ (Interactive => confirmed)

(***************************************************************************)
(* What each sender thread wrote parses, as FakeConnection::write parses   *)
(* it with PacketHeader::read(..).unwrap(), into the request of that call: *)
(* req_handle i + 1 for its index, lba_count 1, zero timestamps and        *)
(* conn_id, an lba in [0, nsectors), and a read whenever pct_writes is 0   *)
(* (spec section 8, round-trip and the end-to-end scenario).               *)
(***************************************************************************)
RequestWellFormed ==
    \A t \in Threads : buf[t] /= <<>> =>
        LET d == Decode(buf[t])
        IN  /\ d.status = "ok"
            /\ d.hdr.lba < NSectors
            /\ d.hdr.opcode \in {OpRead, OpWrite}
            /\ PctWrites = 0 => d.hdr.opcode = OpRead
            /\ d.hdr = Request(nreq[t] - 1, d.hdr.lba, d.hdr.opcode)

(***************************************************************************)
(* Dropping the protocol tears the backend down exactly when some gen_req  *)
(* initialised it: never a sandook_teardown of a backend no thread set up, *)
(* and no initialised backend left running after the drop, whichever      *)
(* sender threads won or lost the CAS before it.                          *)
(***************************************************************************)
TeardownMatchesInit ==
    dropped => ((backend = "torn") = (inits = 1))

=============================================================================
