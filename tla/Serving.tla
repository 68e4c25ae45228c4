------------------------------- MODULE Serving -------------------------------
(***************************************************************************)
(* A client of the meter behind a proxy and a mount point: it follows the  *)
(* links it is given and opens streams, while runs come, finish and are    *)
(* forgotten, and while it may go away at any moment.  HttpApi says what a *)
(* request is answered; here are the adapters that carry the answer: the   *)
(* ASGI task with the watcher of its client (ASGIApp._stream, aiter_frames,*)
(* watch_disconnect), and the generator a WSGI server drives (iter_frames).*)
(*                                                                         *)
(* What the frames of a stream hold is the subject of EventStream: here a  *)
(* poll returns some number of them.                                       *)
(*                                                                         *)
(* The specification has names of its own (ServingSpec), since the proofs  *)
(* about it and those about OsloDelivery share a module, TransportProofs.  *)
(***************************************************************************)
EXTENDS HttpApi

CONSTANTS Mounts,     \* where the application may be mounted
          Forwarded,  \* what a proxy in front of it may strip
          Hosts,      \* the adapters, see Lands
          MaxFrames,  \* BOUND: frames of one poll
          Beats       \* heartbeat, in stream_intervals

ASSUME ServingAssumption ==
    /\ Hosts \subseteq {"whole", "stripped", "wsgi", "pecan"} \cup RouterHosts
    /\ Mounts \subseteq Seq(STRING) /\ Forwarded \subseteq Seq(STRING)
    /\ MaxFrames \in Nat /\ Beats \in Nat \ {0}

VARIABLES
    dep,       \* the deployment: host, mount, forwarded; it never changes
    supports,  \* does the datasource keep a history?  Nor does this.
    kept,      \* the runs the datasource has
    finished,  \* those whose flow has finished
    asked,     \* the client's last request
    answer,    \* the answer to it
    at,        \* the exchange: idle, asked, answered, or a step of the stream
    todo,      \* frames of the last poll that are still to be sent
    complete,  \* EventCursor.complete
    quiet,     \* intervals without a frame
    gone,      \* the client has closed the connection
    noticed,   \* the disconnected Event: the watcher saw it
    watching,  \* the watcher task runs
    wire       \* what the server has been sent of the response

webVars == <<dep, supports>>
storeVars == <<kept, finished>>
askVars == <<asked, answer>>
streamVars == <<todo, complete, quiet, gone, noticed, watching>>
servingVars == <<webVars, storeVars, askVars, at, streamVars, wire>>

Nothing == [url |-> <<>>, method |-> "GET", of |-> "none", run |-> "none", bad |-> FALSE]

ServingInit ==
    /\ dep \in {d \in [host : Hosts, mount : Mounts, forwarded : Forwarded] : Unambiguous(d)}
    /\ supports \in BOOLEAN
    /\ kept = {} /\ finished = {}
    /\ asked = Nothing /\ answer = NoAnswer /\ at = "idle"
    /\ todo = 0 /\ complete = FALSE /\ quiet = 0
    /\ gone = FALSE /\ noticed = FALSE /\ watching = FALSE
    /\ wire = "nothing"

Async == dep.host \in {"whole", "stripped"}
Streaming == at \in {"open", "check", "poll", "send", "rest", "close"}

-----------------------------------------------------------------------------
(* Requests and their answers.                                             *)

\* The links of the last answer, and the two paths a client knows by itself.
Known ==
    answer.links \cup
    {[to |-> dep.forwarded \o dep.mount \o PathOf(name, "none"), of |-> name, run |-> "none"] :
        name \in {"flows", "health"}}

\* What reaches us: FastAPI and Flask are told the method of each route, and
\* answer the others themselves, all but HEAD under Flask; a URL pattern of
\* Django has no method.
Verbs ==
    CASE dep.host = "fastapi" -> {"GET"}
      [] dep.host = "flask"   -> {"GET", "HEAD"}
      [] OTHER                -> Methods

Ask(link, method, bad) ==
    /\ at = "idle"
    /\ asked' = [url |-> link.to, method |-> method, of |-> link.of, run |-> link.run, bad |-> bad]
    /\ at' = "asked"
    /\ UNCHANGED <<webVars, storeVars, answer, streamVars, wire>>

Answered(method, url) ==
    LET where == Lands(dep, url)
        req   == [path |-> where.path, prefix |-> where.prefix, badQuery |-> asked.bad]
    IN  IF dep.host \in RouterHosts THEN RunRoute(method, req, kept, supports)
                                     ELSE Dispatch(method, req, kept, supports)

\* ASGIApp._http(), WSGIApp.__call__(): send the response, or its start and
\* then drive the stream; the ASGI task spawns the watcher of its client.
Answer ==
    /\ at = "asked"
    /\ answer' = Answered(asked.method, asked.url)
    /\ IF answer'.stream
       THEN at' = "open" /\ wire' = "started" /\ watching' = Async
       ELSE at' = "answered" /\ UNCHANGED <<wire, watching>>
    /\ UNCHANGED <<webVars, storeVars, asked, todo, complete, quiet, gone, noticed>>

\* The exchange is over; the client goes on from what it was given.
Proceed ==
    /\ at \in {"answered", "over"}
    /\ at' = "idle" /\ asked' = Nothing
    /\ answer' = [NoAnswer EXCEPT !.links = answer.links]
    /\ todo' = 0 /\ complete' = FALSE /\ quiet' = 0
    /\ gone' = FALSE /\ noticed' = FALSE /\ wire' = "nothing"
    /\ UNCHANGED <<webVars, storeVars, watching>>

-----------------------------------------------------------------------------
(* The datasource changes meanwhile.                                       *)

Observe(r) ==
    /\ r \notin kept
    /\ kept' = kept \cup {r}
    /\ UNCHANGED <<webVars, finished, askVars, at, streamVars, wire>>

Complete(r) ==
    /\ r \in kept \ finished
    /\ finished' = finished \cup {r}
    /\ UNCHANGED <<webVars, kept, askVars, at, streamVars, wire>>

Forget(r) ==
    /\ r \in kept
    /\ kept' = kept \ {r} /\ finished' = finished \ {r}
    /\ UNCHANGED <<webVars, askVars, at, streamVars, wire>>

-----------------------------------------------------------------------------
(* The stream.                                                             *)

\* A message to the server, if the client is there, or as long as the
\* server takes it: after the final chunk there is nothing left to say.
Put(message) ==
    wire' = CASE wire = "started" /\ message = "chunk" -> "started"
              [] wire = "started" /\ message = "final" -> "ended"
              [] OTHER                                 -> "garbled"

\* To a client that is gone a write goes nowhere, or fails: an ASGI server
\* drops or raises, a WSGI server closes the generator.
Sends(next) ==
    \/ Put("chunk") /\ at' = next
    \/ gone /\ UNCHANGED wire /\ at' = "close"

\* The first bytes, before anything is read.
Open ==
    /\ at = "open"
    /\ Sends("check")
    /\ UNCHANGED <<webVars, storeVars, askVars, streamVars>>

\* while not stop.is_set(); the generator has no such flag.
Check ==
    /\ at = "check"
    /\ at' = IF noticed THEN "close" ELSE "poll"
    /\ UNCHANGED <<webVars, storeVars, askVars, streamVars, wire>>

\* EventCursor.poll(), in a thread: some frames, or the end frame if there
\* are none and the flow has finished; or the datasource raises.
Poll ==
    /\ at = "poll"
    /\ \/ \E k \in 0..MaxFrames :
            LET ends == k = 0 /\ asked.run \in finished
            IN  /\ todo' = IF ends THEN 1 ELSE k
                /\ complete' = ends
                /\ quiet' = IF todo' > 0 THEN 0 ELSE quiet + 1
                /\ at' = "send"
       \/ at' = "close" /\ UNCHANGED <<todo, complete, quiet>>
    /\ UNCHANGED <<webVars, storeVars, askVars, gone, noticed, watching, wire>>

\* One frame of the page, unless the client was seen to leave.
SendFrame ==
    /\ at = "send" /\ todo > 0
    /\ \/ noticed /\ at' = "close" /\ UNCHANGED <<todo, wire>>
       \/ ~noticed /\ todo' = todo - 1 /\ Sends("send")
    /\ UNCHANGED <<webVars, storeVars, askVars, complete, quiet, gone, noticed, watching>>

\* A stream without heartbeats.
BeatNever ==
    /\ at = "send" /\ todo = 0
    /\ at' = IF complete THEN "close" ELSE "rest"
    /\ quiet' = 0
    /\ UNCHANGED <<webVars, storeVars, askVars, todo, complete, gone, noticed, watching, wire>>

\* The page is sent: return if it was the last, else say something if
\* nothing was said for the length of a heartbeat, and rest.
Beat ==
    /\ at = "send" /\ todo = 0
    /\ \/ complete /\ at' = "close" /\ UNCHANGED <<quiet, wire>>
       \/ ~complete /\ quiet < Beats /\ at' = "rest" /\ UNCHANGED <<quiet, wire>>
       \/ ~complete /\ quiet >= Beats /\ quiet' = 0 /\ Sends("rest")
    /\ UNCHANGED <<webVars, storeVars, askVars, todo, complete, gone, noticed, watching>>

\* The interval has passed, or the client has left.
Rest ==
    /\ at = "rest"
    /\ at' = "check"
    /\ UNCHANGED <<webVars, storeVars, askVars, streamVars, wire>>

\* The server shuts down and cancels the task at an await (under FastAPI it
\* is Starlette that does so, when it sees the client leave); a WSGI server
\* closes the iterable between two frames.
Cancel ==
    /\ at \in {"open", "poll", "send", "rest"}
    /\ Async \/ dep.host = "fastapi" \/ at = "send"
    /\ at' = "close"
    /\ UNCHANGED <<webVars, storeVars, askVars, streamVars, wire>>

\* A final chunk only for a stream that came to its end.
CloseOnlyComplete ==
    /\ at = "close"
    /\ at' = "over" /\ watching' = FALSE
    /\ IF complete THEN Put("final") ELSE UNCHANGED wire
    /\ UNCHANGED <<webVars, storeVars, askVars, todo, complete, quiet, gone, noticed>>

\* finally: cancel the watcher, and if the client was not seen to leave,
\* tell the server that the response is over.  A WSGI server knows that
\* itself when the generator returns.
Close ==
    /\ at = "close"
    /\ at' = "over" /\ watching' = FALSE
    /\ \/ ~noticed /\ Put("final")
       \/ (noticed \/ gone) /\ UNCHANGED wire
    /\ UNCHANGED <<webVars, storeVars, askVars, todo, complete, quiet, gone, noticed>>

StreamStep == Open \/ Check \/ Poll \/ SendFrame \/ Beat \/ Rest \/ Close

\* The client closes the connection.
Disconnect ==
    /\ Streaming /\ ~gone
    /\ gone' = TRUE
    /\ UNCHANGED <<webVars, storeVars, askVars, at, todo, complete, quiet, noticed, watching, wire>>

\* watch_disconnect(): receive() returns http.disconnect.
Notice ==
    /\ watching /\ gone /\ ~noticed
    /\ noticed' = TRUE
    /\ UNCHANGED <<webVars, storeVars, askVars, at, todo, complete, quiet, gone, watching, wire>>

-----------------------------------------------------------------------------
ServingNext ==
    \/ \E link \in Known, method \in Verbs, bad \in BOOLEAN : Ask(link, method, bad)
    \/ Answer \/ Proceed
    \/ \E r \in Runs : Observe(r) \/ Complete(r) \/ Forget(r)
    \/ Open \/ Check \/ Poll \/ SendFrame \/ Beat \/ Rest \/ Cancel \/ Close
    \/ Disconnect \/ Notice

ServingSpec == ServingInit /\ [][ServingNext]_servingVars

\* The task and the generator go on; the datasource answers; an ASGI server
\* tells the watcher, and Starlette cancels.  A WSGI server learns that the
\* client is gone when a write fails: one may still be buffered, not all.
WriteFails == gone /\ (Open \/ SendFrame \/ Beat) /\ at' = "close"
HostCancels == gone /\ dep.host = "fastapi" /\ Cancel
FairServingSpec ==
    /\ ServingSpec
    /\ WF_servingVars(StreamStep) /\ WF_servingVars(Notice)
    /\ SF_servingVars(WriteFails) /\ SF_servingVars(HostCancels)

-----------------------------------------------------------------------------
(* Properties.                                                             *)

\* Every variable has its type.
ServingTypeOK ==
    /\ dep.host \in Hosts /\ dep.mount \in Mounts /\ dep.forwarded \in Forwarded
    /\ supports \in BOOLEAN /\ kept \subseteq Runs /\ finished \subseteq kept
    /\ at \in {"idle", "asked", "answered", "over"} \/ Streaming
    /\ asked.method \in Methods /\ asked.run \in Runs \cup {"none"}
    /\ answer.status \in {0, 200, 204, 400, 404, 405, 501}
    /\ todo \in 0..Max({MaxFrames, 1}) /\ quiet \in 0..Beats
    /\ complete \in BOOLEAN /\ gone \in BOOLEAN /\ noticed \in BOOLEAN /\ watching \in BOOLEAN
    /\ wire \in {"nothing", "started", "ended"}

\* "The same handler is correct at / and at /deep/prefix" (serializers): a
\* link the meter gave out, followed through the proxy and the mount point
\* it came from, is answered by the endpoint and for the run it stands for,
\* never "no such endpoint" and never 501; it may be answered 404 only
\* because the run was forgotten meanwhile, and 400 only for a bad query.
LinksLead ==
    [][ at = "asked" /\ at' # "asked" /\ asked.method \in {"GET", "HEAD"} =>
          \/ answer'.status = 200 /\ answer'.of = asked.of /\ answer'.run = asked.run
          \/ answer'.status = 404 /\ asked.run \notin kept /\ asked.run # "none"
          \/ answer'.status = 400 /\ asked.bad ]_servingVars

\* "An empty final chunk is what tells the server the response is over;
\* without it the client waits forever" (ASGIApp._stream): it was sent to
\* every client that has not left, whether the stream came to its end, the
\* datasource failed under it or the server shut down; and no task is left
\* to watch for a client whose stream is over.
ClientIsReleased ==
    at \in {"over", "idle"} => ~watching /\ (at = "over" /\ ~gone => wire = "ended")

\* A stream whose client has left comes to its end: nothing polls "a
\* datasource nobody is listening to" (iter_frames) for ever, not even
\* under a WSGI server, which only learns of it by writing.
StreamIsOver == Streaming /\ gone ~> at = "over"
=============================================================================
