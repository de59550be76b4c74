------------------------------ MODULE WebSocket -----------------------------
(***************************************************************************)
(* One end of a WebSocket connection (fibjs/src/websocket/WebSocket.cpp    *)
(* and fibjs/include/WebSocket.h) against an arbitrary peer.               *)
(*                                                                         *)
(* Four kinds of activity share the object: the JavaScript thread, which    *)
(* calls send(), close() and stop() and dispatches events; the handshake    *)
(* (asyncConnect); the reader (asyncRead), started by whichever of the      *)
(* handshake and a listener comes first; and one asyncSend per frame.       *)
(* asyncSends encode into one buffer under m_lockEncode and m_lockBuffer    *)
(* and whoever holds m_lockSend flushes all of it.                         *)
(***************************************************************************)
EXTENDS Integers, Sequences, FiniteSets

CONSTANTS
    Incoming,   \* the frames the peer may send: "text", "ping", "close", "bad"
    MaxCalls,   \* bound, for each role: calls of send() and close() by script
    MaxFrames   \* bound: frames sent by the peer

Roles == {"client", "server"}

ASSUME IncomingAssumption == Incoming \subseteq {"text", "ping", "close", "bad"}
ASSUME BoundAssumption == MaxCalls \in [Roles -> Nat] /\ MaxFrames \in Nat

VARIABLES
    role,
    m_readyState, m_closeState,  \* CONNECTING, OPEN, CLOSING, CLOSED
    m_ioState,                   \* the reader and the asyncSends still to end
    releasing,                   \* those that counted to zero and release the memory
    m_stream,                    \* "none" before the handshake, "open", "closed"
    m_holder,                    \* the JavaScript wrapper is pinned
    holding,                     \* isolate_ref() is in force
    terminating,                 \* the isolate is being terminated
    stopping,                    \* the job that calls stopHoldingObjects() is posted
    conn,                        \* asyncConnect
    reader,                      \* asyncRead
    sends,                       \* what each asyncSend carries, in call order
    pc,                          \* how far each asyncSend has come
    m_lockEncode, m_lockBuffer, m_lockSend,  \* Lockers: the owner, then the waiters
    m_buffer,                    \* encoded parts of frames, not yet flushed
    batch,                       \* what the holder of m_lockSend is writing
    wire,                        \* history: the parts of frames written
    inbox, sent, gone,           \* the peer: frames in flight, sent, connection dropped
    jobs,                        \* emitted events the JavaScript thread has not run
    log,                         \* history: the final events it has run
    late,                        \* history: asyncSends made after the last user
    stopped                      \* history: stop() came before the stream

(* Every asyncSend, in the order of construction.                          *)
Sends == 1..(MaxCalls[role] + MaxFrames)

(* The reader, as one of those that release the memory.                    *)
Reader == 0

state == <<m_readyState, m_closeState, m_stream, holding>>
memory == <<m_ioState, releasing, m_holder, m_buffer, late>>
sending == <<sends, pc, m_lockEncode, m_lockBuffer, m_lockSend, batch, wire>>
peer == <<inbox, sent, gone>>
ending == <<terminating, stopping, stopped>>
vars == <<role, state, memory, ending, conn, reader, sending, peer, jobs, log>>

Origin(i) == sends[i].from
Type(i) == sends[i].type

-----------------------------------------------------------------------------
(* _emit(): posts an event to the isolate unless that is terminating.      *)
Emit(q, events) == IF terminating THEN q ELSE q \o events

(* Mutant: endConnect() tests m_closeState and does not claim it.          *)
EndConnectAgain(events) ==
    /\ m_closeState' = "CLOSED"
    /\ m_stream' = IF m_stream = "open" THEN "closed" ELSE m_stream
    /\ jobs' = Emit(jobs, events)

(* endConnect(): the first caller closes the stream and reports.           *)
EndConnect(events) ==
    /\ m_closeState' = "CLOSED"
    /\ IF m_closeState = "CLOSED"
         THEN UNCHANGED <<m_stream, jobs>>
         ELSE /\ m_stream' = IF m_stream = "open" THEN "closed" ELSE m_stream
              /\ jobs' = Emit(jobs, events)

Failure == <<"error", "close">>   \* a code between 1000 and 3000
Normal == <<"close">>

(* endConnect(body): a CLOSE of the peer whose code is not allowed is a      *)
(* failure.                                                                *)
EndByBody == EndConnect(Normal) \/ EndConnect(Failure)

Final(event) == event \in {"error", "close"}

(* free_mem(): u was a user, and the last one goes on to release.          *)
free_mem(u) ==
    /\ m_ioState' = m_ioState - 1
    /\ releasing' = IF m_ioState' = 0 THEN releasing \cup {u} ELSE releasing
    /\ UNCHANGED <<m_holder, m_buffer, late>>

(* A new asyncSend is in line for m_lockEncode.                            *)
Posted(from, type) ==
    /\ sends' = Append(sends, [from |-> from, type |-> type])
    /\ pc' = [pc EXCEPT ![Len(sends')] = "encode"]
    /\ m_lockEncode' = Append(m_lockEncode, Len(sends'))
    /\ late' = IF m_ioState = 0 \/ releasing # {} THEN late \cup {Len(sends')} ELSE late
    /\ UNCHANGED <<releasing, m_holder, m_buffer>>

(* Mutant: a new asyncSend is not counted.                                 *)
NewSendUncounted(from, type) == Posted(from, type) /\ UNCHANGED m_ioState

(* new asyncSend, whose post() runs up to lock(m_lockEncode) on the spot.  *)
NewSend(from, type) == Posted(from, type) /\ m_ioState' = m_ioState + 1

(* startRecv(): m_readState.xchg lets one caller start the reader.         *)
startRecv ==
    IF m_stream # "none" /\ reader = "none"
      THEN reader' = "recv" /\ m_holder' = TRUE
      ELSE UNCHANGED <<reader, m_holder>>

-----------------------------------------------------------------------------
(* The JavaScript thread.                                                  *)

Calls == Cardinality({i \in 1..Len(sends) : Origin(i) = "js"})

(* Script calls while it runs, which it may for a while in an isolate that  *)
(* terminates.                                                             *)
send ==
    /\ m_readyState = "OPEN" /\ Calls < MaxCalls[role]
    /\ NewSend("js", "text")
    /\ UNCHANGED <<role, state, ending, conn, reader, m_lockBuffer, m_lockSend, batch, wire,
                   peer, jobs, log>>

close ==
    /\ m_readyState = "OPEN" /\ Calls < MaxCalls[role]
    /\ m_readyState' = "CLOSING"
    /\ NewSend("js", "close")
    /\ UNCHANGED <<role, m_closeState, m_stream, holding, ending, conn, reader, m_lockBuffer,
                   m_lockSend, batch, wire, peer, jobs, log>>

(* onEventChange(): a listener is added or removed.                        *)
onEventChange ==
    /\ m_stream # "none" /\ reader = "none"
    /\ startRecv
    /\ UNCHANGED <<role, state, m_ioState, releasing, m_buffer, late, ending, conn, sending,
                   peer, jobs, log>>

(* An event is dispatched: onEventEmit(), then the listeners.              *)
onEventEmit ==
    /\ jobs # << >>
    /\ jobs' = Tail(jobs)
    /\ log' = IF terminating \/ ~Final(Head(jobs)) THEN log ELSE Append(log, Head(jobs))
    /\ m_readyState' = IF m_closeState = "CLOSED" THEN "CLOSED" ELSE m_readyState
    /\ UNCHANGED <<role, m_closeState, m_stream, holding, memory, ending, conn, reader,
                   sending, peer>>

(* requestTerminate(), on the thread of the parent: the flag is set and the *)
(* job posted.                                                             *)
requestTerminate ==
    /\ ~terminating
    /\ terminating' = TRUE /\ stopping' = TRUE
    /\ UNCHANGED <<role, state, memory, conn, reader, sending, peer, jobs, log, stopped>>

(* The job: stopHoldingObjects() calls stop() on an object that holds the   *)
(* isolate.                                                                *)
stop ==
    /\ stopping
    /\ stopping' = FALSE
    /\ IF holding
         THEN /\ m_readyState' = "CLOSED"
              /\ m_closeState' = "CLOSED"
              /\ m_stream' = IF m_closeState # "CLOSED" /\ m_stream = "open" THEN "closed"
                                                                         ELSE m_stream
              /\ stopped' = (m_stream = "none")
         ELSE UNCHANGED <<m_readyState, m_closeState, m_stream, stopped>>
    /\ UNCHANGED <<role, holding, memory, terminating, conn, reader, sending, peer, jobs, log>>

-----------------------------------------------------------------------------
(* asyncConnect.                                                           *)

(* error(): the wrapper is released, the failure reported, the isolate      *)
(* let go.                                                                 *)
ConnectFails ==
    /\ conn = "handshake"
    /\ conn' = "done"
    /\ EndConnect(Failure)
    /\ m_holder' = FALSE
    /\ holding' = FALSE
    /\ UNCHANGED <<role, m_readyState, m_ioState, releasing, m_buffer, late, ending, reader,
                   sending, peer, log>>

(* response: the stream is taken over,                                     *)
ConnectStream ==
    /\ conn = "handshake"
    /\ conn' = "gotStream"
    /\ m_stream' = "open"
    /\ UNCHANGED <<role, m_readyState, m_closeState, holding, memory, ending, reader,
                   sending, peer, jobs, log>>

(* then the state is set and "open" emitted,                               *)
ConnectOpen ==
    /\ conn = "gotStream"
    /\ conn' = "opened"
    /\ m_readyState' = "OPEN"
    /\ jobs' = Emit(jobs, <<"open">>)
    /\ UNCHANGED <<role, m_closeState, m_stream, holding, memory, ending, reader, sending,
                   peer, log>>

(* then the reader is started.                                             *)
ConnectRecv ==
    /\ conn = "opened"
    /\ conn' = "done"
    /\ startRecv
    /\ UNCHANGED <<role, state, m_ioState, releasing, m_buffer, late, ending, sending, peer,
                   jobs, log>>

Connect == ConnectStream \/ ConnectFails \/ ConnectOpen \/ ConnectRecv

-----------------------------------------------------------------------------
(* asyncRead.                                                              *)

(* recv, event: a frame that has arrived is read even when the stream is    *)
(* closed by then, for the stream buffers.                                 *)
Receives(f) ==
    /\ reader = "recv" /\ inbox # << >> /\ Head(inbox) = f
    /\ inbox' = Tail(inbox)
    /\ UNCHANGED <<sent, gone>>

(* readFrom() fails: end of stream, a reset, or closed by this end.        *)
RecvFails ==
    /\ reader = "recv"
    /\ m_stream = "closed" \/ (gone /\ inbox = << >>)
    /\ reader' = "end"
    /\ EndConnect(Failure)
    /\ UNCHANGED <<role, m_readyState, holding, memory, ending, conn, sending, peer, log>>

(* A terminating isolate and a bad frame end the reader.                   *)
EventFails ==
    /\ \E f \in Incoming : Receives(f) /\ (terminating \/ f = "bad")
    /\ reader' = "end"
    /\ EndConnect(Failure)
    /\ UNCHANGED <<role, m_readyState, holding, memory, ending, conn, sending, log>>

EventText ==
    /\ Receives("text") /\ ~terminating
    /\ jobs' = Emit(jobs, <<"message">>)
    /\ UNCHANGED <<role, state, memory, ending, conn, reader, sending, log>>

EventPing ==
    /\ Receives("ping") /\ ~terminating
    /\ NewSend("peer", "pong")
    /\ UNCHANGED <<role, state, ending, conn, reader, m_lockBuffer, m_lockSend, batch, wire,
                   jobs, log>>

(* The peer's CLOSE is answered once, and the answer ends the connection.  *)
EventClose ==
    /\ Receives("close") /\ ~terminating
    /\ reader' = "end"
    /\ IF m_closeState = "OPEN"
         THEN /\ m_closeState' = "CLOSING"
              /\ NewSend("peer", "close")
              /\ UNCHANGED <<m_stream, jobs>>
         ELSE /\ EndByBody
              /\ UNCHANGED <<memory, sends, pc, m_lockEncode>>
    /\ UNCHANGED <<role, m_readyState, holding, ending, conn, m_lockBuffer, m_lockSend, batch,
                   wire, log>>

(* ~asyncRead counts itself out,                                           *)
ReaderEnds ==
    /\ reader = "end"
    /\ reader' = "freed"
    /\ free_mem(Reader)
    /\ UNCHANGED <<role, state, ending, conn, sending, peer, jobs, log>>

(* Mutant: the isolate is not let go.                                      *)
ReaderUnrefHeld ==
    /\ reader = "freed" /\ Reader \notin releasing
    /\ reader' = "ended"
    /\ UNCHANGED <<role, state, memory, ending, conn, sending, peer, jobs, log>>

(* releases the memory if it was the last, and lets go of the isolate.     *)
ReaderUnref ==
    /\ reader = "freed" /\ Reader \notin releasing
    /\ reader' = "ended"
    /\ holding' = FALSE
    /\ UNCHANGED <<role, m_readyState, m_closeState, m_stream, memory, ending, conn, sending,
                   peer, jobs, log>>

Read ==
    RecvFails \/ EventFails \/ EventText \/ EventPing \/ EventClose \/ ReaderEnds \/ ReaderUnref

(* The rest of free_mem(), on the thread of a user that counted to zero.    *)
Release(u) ==
    /\ u \in releasing
    /\ releasing' = releasing \ {u}
    /\ m_buffer' = << >>
    /\ m_holder' = FALSE
    /\ UNCHANGED <<role, state, m_ioState, late, ending, conn, reader, sending, peer, jobs, log>>

-----------------------------------------------------------------------------
(* asyncSend.  A lock is its owner followed by its waiters.                *)

Owns(q, i) == q # << >> /\ Head(q) = i

Goto(i, label) == pc' = [pc EXCEPT ![i] = label]

others == <<role, state, ending, conn, reader, sends, peer, log>>
users == <<m_ioState, releasing, m_holder, late>>

(* lock_buffer_for_encode                                                  *)
LockForEncode(i) ==
    /\ pc[i] = "encode" /\ Owns(m_lockEncode, i)
    /\ m_lockBuffer' = Append(m_lockBuffer, i)
    /\ Goto(i, "head")
    /\ UNCHANGED <<others, memory, m_lockEncode, m_lockSend, batch, wire, jobs>>

(* encode: sendTo() writes the head of the frame and then its data.        *)
EncodeHead(i) ==
    /\ pc[i] = "head" /\ Owns(m_lockBuffer, i)
    /\ m_buffer' = Append(m_buffer, <<i, "head">>)
    /\ Goto(i, "data")
    /\ UNCHANGED <<others, users, m_lockEncode, m_lockBuffer, m_lockSend, batch,
                   wire, jobs>>

(* sendTo() fails: error() ends the asyncSend, which leaves m_lockEncode    *)
(* and m_lockBuffer with a dead owner.  m_lockSend is not its to unlock.    *)
EncodeFails(i) ==
    /\ pc[i] \in {"head", "data"} /\ Owns(m_lockBuffer, i)
    /\ EndConnect(Failure)
    /\ free_mem(i)
    /\ Goto(i, "failed")
    /\ UNCHANGED <<role, m_readyState, holding, ending, conn, reader, sends, m_lockEncode,
                   m_lockBuffer, m_lockSend, batch, wire, peer, log>>

(* encode_ok.  A buffer that was released under way is finished, and lost.  *)
EncodeOk(i) ==
    /\ pc[i] = "data"
    /\ m_buffer' = IF m_buffer = << >> THEN << >> ELSE Append(m_buffer, <<i, "data">>)
    /\ m_lockBuffer' = Tail(m_lockBuffer)
    /\ m_lockEncode' = Tail(m_lockEncode)
    /\ m_lockSend' = Append(m_lockSend, i)
    /\ Goto(i, "flush")
    /\ UNCHANGED <<others, users, batch, wire, jobs>>

(* lock_buffer_for_send                                                    *)
LockForSend(i) ==
    /\ pc[i] = "flush" /\ Owns(m_lockSend, i)
    /\ m_lockBuffer' = Append(m_lockBuffer, i)
    /\ Goto(i, "take")
    /\ UNCHANGED <<others, memory, m_lockEncode, m_lockSend, batch, wire, jobs>>

(* Mutant: the buffer is taken over without waiting for its lock.          *)
TakeUnlocked(i) ==
    /\ pc[i] = "take"
    /\ batch' = m_buffer
    /\ m_buffer' = << >>
    /\ m_lockBuffer' = SelectSeq(m_lockBuffer, LAMBDA j : j # i)
    /\ Goto(i, IF m_buffer = << >> THEN "ok" ELSE "write")
    /\ UNCHANGED <<others, users, m_lockEncode, m_lockSend, wire, jobs>>

(* send: takes over all that is encoded, perhaps nothing.                  *)
Take(i) ==
    /\ pc[i] = "take" /\ Owns(m_lockBuffer, i)
    /\ batch' = m_buffer
    /\ m_buffer' = << >>
    /\ m_lockBuffer' = Tail(m_lockBuffer)
    /\ Goto(i, IF m_buffer = << >> THEN "ok" ELSE "write")
    /\ UNCHANGED <<others, users, m_lockEncode, m_lockSend, wire, jobs>>

(* copyTo(m_stream)                                                        *)
Write(i) ==
    /\ pc[i] = "write" /\ m_stream = "open" /\ ~gone
    /\ wire' = wire \o batch
    /\ batch' = << >>
    /\ Goto(i, "ok")
    /\ UNCHANGED <<others, memory, m_lockEncode, m_lockBuffer, m_lockSend, jobs>>

(* ~asyncSend                                                              *)
SendEnds(i) ==
    /\ m_lockSend' = Tail(m_lockSend)
    /\ free_mem(i)
    /\ Goto(i, "none")
    /\ batch' = << >>
    /\ UNCHANGED <<role, m_readyState, holding, ending, conn, reader, sends, m_lockEncode,
                   m_lockBuffer, wire, peer, log>>

(* error(): the stream is closed or the peer has gone.                     *)
WriteFails(i) ==
    /\ pc[i] = "write" /\ (m_stream = "closed" \/ gone)
    /\ EndConnect(Failure)
    /\ SendEnds(i)

(* Mutant: the CLOSE frame has been sent and the connection stays.         *)
OkStays(i) ==
    /\ pc[i] = "ok"
    /\ UNCHANGED <<m_closeState, m_stream, jobs>>
    /\ SendEnds(i)

(* ok: after its CLOSE frame this end closes, without waiting for another. *)
Ok(i) ==
    /\ pc[i] = "ok"
    /\ CASE Type(i) = "close" /\ Origin(i) = "js" -> EndConnect(Normal)
         [] Type(i) = "close" /\ Origin(i) = "peer" -> EndByBody
         [] OTHER -> UNCHANGED <<m_closeState, m_stream, jobs>>
    /\ SendEnds(i)

AsyncSend(i) ==
    \/ LockForEncode(i) \/ EncodeHead(i) \/ EncodeFails(i) \/ EncodeOk(i) \/ LockForSend(i)
    \/ Take(i) \/ Write(i) \/ WriteFails(i) \/ Ok(i)

-----------------------------------------------------------------------------
(* The peer, of any make: frames while the stream is open, then perhaps    *)
(* the loss of the connection.                                             *)
PeerSends ==
    /\ m_stream = "open" /\ ~gone /\ sent < MaxFrames
    /\ \E f \in Incoming : inbox' = Append(inbox, f)
    /\ sent' = sent + 1
    /\ UNCHANGED <<role, state, memory, ending, conn, reader, sending, gone, jobs, log>>

PeerDrops ==
    /\ m_stream = "open" /\ ~gone
    /\ gone' = TRUE
    /\ UNCHANGED <<role, state, memory, ending, conn, reader, sending, inbox, sent, jobs, log>>

Init ==
    /\ role \in Roles
    /\ LET client == role = "client"
       IN  /\ m_readyState = IF client THEN "CONNECTING" ELSE "OPEN"
           /\ m_stream = IF client THEN "none" ELSE "open"
           /\ m_holder = client /\ holding = client
           /\ conn = IF client THEN "handshake" ELSE "done"
    /\ m_closeState = "OPEN" /\ m_ioState = 1 /\ releasing = {} /\ late = {}
    /\ terminating = FALSE /\ stopping = FALSE /\ stopped = FALSE
    /\ reader = "none" /\ sends = << >> /\ pc = [i \in Sends |-> "none"]
    /\ m_lockEncode = << >> /\ m_lockBuffer = << >> /\ m_lockSend = << >>
    /\ m_buffer = << >> /\ batch = << >> /\ wire = << >>
    /\ inbox = << >> /\ sent = 0 /\ gone = FALSE /\ jobs = << >> /\ log = << >>

(* What the pool and the isolate run without being asked again.            *)
System ==
    \/ onEventEmit \/ Connect \/ Read
    \/ \E u \in Sends \cup {Reader} : Release(u)
    \/ \E i \in Sends : AsyncSend(i)

Next ==
    \/ send \/ close \/ onEventChange \/ requestTerminate \/ stop
    \/ PeerSends \/ PeerDrops \/ System

Spec == Init /\ [][Next]_vars

(* The pool runs the state machines, the isolate its jobs, and a write      *)
(* succeeds or fails in the end.  Each of them ends after a few steps, so   *)
(* that fairness of all together is enough.                                *)
FairSpec == Spec /\ WF_vars(System)

-----------------------------------------------------------------------------
States == {"CONNECTING", "OPEN", "CLOSING", "CLOSED"}
Parts == Sends \X {"head", "data"}

TypeOK ==
    /\ role \in Roles /\ m_readyState \in States /\ m_closeState \in States \ {"CONNECTING"}
    /\ m_ioState \in 0..(1 + Len(sends)) /\ m_stream \in {"none", "open", "closed"}
    /\ releasing \subseteq Sends \cup {Reader} /\ late \subseteq Sends
    /\ m_holder \in BOOLEAN /\ holding \in BOOLEAN
    /\ terminating \in BOOLEAN /\ stopping \in BOOLEAN
    /\ conn \in {"handshake", "gotStream", "opened", "done"}
    /\ reader \in {"none", "recv", "end", "freed", "ended"}
    /\ inbox \in Seq(Incoming) /\ sent \in 0..MaxFrames
    /\ sends \in Seq([from : {"js", "peer"}, type : {"text", "pong", "close"}])
    /\ pc \in [Sends -> {"none", "encode", "head", "data", "flush", "take", "write", "ok",
                      "failed"}]
    /\ {m_lockEncode, m_lockBuffer, m_lockSend} \subseteq Seq(Sends)
    /\ {m_buffer, batch, wire} \subseteq Seq(Parts)
    /\ gone \in BOOLEAN /\ stopped \in BOOLEAN
    /\ {jobs, log} \subseteq Seq({"open", "message", "error", "close"})

(* "Frames are queued and sent in call order": the frames of send() and     *)
(* close() reach the stream in the order of the calls and without a gap,    *)
(* and none is cut in two by another, however the asyncSends share the      *)
(* buffer (m_lockBuffer around encode, m_lockSend around send), unless      *)
(* stop() came before the stream and left it open.                         *)
FramesInOrder ==
    stopped \/
    /\ \A n \in 1..Len(wire) : \A i \in 1..Len(sends) :
          wire[n][2] = "head" /\ Origin(wire[n][1]) = "js" /\ Origin(i) = "js" /\ i < wire[n][1]
              => \E k \in 1..(n - 1) : wire[k] = <<i, "head">>
    /\ Len(wire) % 2 = 0
    /\ \A n \in 1..Len(wire) : n % 2 = 1 =>
          wire[n] = <<wire[n][1], "head">> /\ wire[n + 1] = <<wire[n][1], "data">>

(* The events run and still to run.                                        *)
Events == log \o jobs

(* Reader, asyncSends, handshake and stop() may all end the connection: it  *)
(* is reported once, with at most one error, and that before the close.    *)
ReportedOnce ==
    /\ \A m, n \in 1..Len(Events) : Final(Events[m]) /\ Events[m] = Events[n] => m = n
    /\ \A n \in 1..Len(Events) : Events[n] = "error" =>
          terminating \/ \E m \in (n + 1)..Len(Events) : Events[m] = "close"

(* An asyncSend that has not ended.                                        *)
AtWork(i) == pc[i] \notin {"none", "failed"}

(* The last user that releases the memory is the last: the connection is    *)
(* closed, the reader has ended, and who encodes or sends was made by       *)
(* script after it had counted to zero.  The wrapper stays pinned while the *)
(* reader may still emit to it.                                            *)
ReleasedLast ==
    /\ TypeOK
    /\ m_ioState = 0 \/ releasing # {} =>
          /\ m_closeState = "CLOSED"
          /\ reader \in {"freed", "ended"}
          /\ \A i \in Sends : AtWork(i) => i \in late
    /\ \A i \in late : Origin(i) = "js"
    /\ reader = "recv" => m_holder

(* close() is followed by the close event, whatever the peer does, unless    *)
(* the isolate terminates first.                                           *)
CloseReported ==
    (m_readyState = "CLOSING") ~>
        ((\E n \in 1..Len(log) : log[n] = "close") /\ jobs = << >>) \/ terminating

(* A closed connection lets go of the isolate, and of its memory unless an  *)
(* asyncSend died with its locks; unless no reader was ever started or      *)
(* stop() came before the stream.                                          *)
ClosedReleases ==
    (m_closeState = "CLOSED") ~>
        \/ ~holding /\ m_ioState = 0 /\ ~m_holder
        \/ ~holding /\ \E i \in Sends : pc[i] = "failed"
        \/ reader = "none" /\ conn = "done"
        \/ stopped

=============================================================================
