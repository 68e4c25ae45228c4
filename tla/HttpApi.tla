------------------------------- MODULE HttpApi -------------------------------
(***************************************************************************)
(* The HTTP surface as functions: where a request lands once its server,   *)
(* its proxy and its host have handed it over, what the dispatcher and the *)
(* service answer, and the links that answer carries.                      *)
(*                                                                         *)
(* A path is a sequence of pieces of text, "/" one of them.  "api" is two  *)
(* pieces, so that a mount point can share half a segment with a route.    *)
(***************************************************************************)
EXTENDS Sequences, SequencesExt, FiniteSetsExt, Integers

CONSTANT Runs  \* run ids: pieces of text

\* What a parameter of a route can stand for; "none" is no run.
ASSUME RunsAreSegments ==
    Runs \subseteq STRING /\ "/" \notin Runs /\ "none" \notin Runs

Methods == {"GET", "HEAD", "OPTIONS", "DELETE"}

\* The hosts whose own router has our routes.
RouterHosts == {"flask", "django", "fastapi"}

\* build_routes(): each route answers GET.  A template with a parameter has
\* text before and after it; one without has only the text before it.
FLOWS == <<"/", "a", "pi", "/", "v1", "/", "flows">>
Plain(name, text) == [name |-> name, param |-> FALSE, pre |-> text, post |-> <<>>]
PerRun(name, text) == [name |-> name, param |-> TRUE, pre |-> FLOWS \o <<"/">>, post |-> text]
Routes ==
    {Plain("health", <<"/", "healthz">>), Plain("flows", FLOWS),
     PerRun("flow", <<>>), PerRun("atoms", <<"/", "atoms">>),
     PerRun("events", <<"/", "events">>), PerRun("stream", <<"/", "stream">>)}

RouteNamed(name) == CHOOSE t \in Routes : t.name = name

\* template.format(run_id=...)
PathOf(name, run) ==
    LET t == RouteNamed(name)
    IN  IF t.param THEN t.pre \o <<run>> \o t.post ELSE t.pre

-----------------------------------------------------------------------------
(* Router.match().                                                         *)

\* What the parameter stands for: "[^/]+".
Middle(t, path) == SubSeq(path, Len(t.pre) + 1, Len(path) - Len(t.post))
Matches(t, path) ==
    IF ~t.param THEN path = t.pre
    ELSE /\ IsPrefix(t.pre, path) /\ IsSuffix(t.post, path)
         /\ Len(path) > Len(t.pre) + Len(t.post)
         /\ "/" \notin ToSet(Middle(t, path))

Found(path) == {t \in Routes : Matches(t, path)}

-----------------------------------------------------------------------------
(* Responses.  Headers count as far as they say what may be asked next.    *)

NoAnswer == [status |-> 0, of |-> "none", run |-> "none", links |-> {},
             body |-> FALSE, allow |-> {}, stream |-> FALSE]

\* MeterResponse.from_error() of an ApiError.
Error(status) == [NoAnswer EXCEPT !.status = status, !.body = TRUE]

Json(name, run, links) ==
    [NoAnswer EXCEPT !.status = 200, !.of = name, !.run = run,
                     !.links = links, !.body = TRUE]

\* MeterRequest.url(): a link starts at the mount prefix.
Link(req, name, run) == [to |-> req.prefix \o PathOf(name, run), of |-> name, run |-> run]

\* serializers.flow(): without a history there is nothing to link to.
FlowLinks(req, run, supports) ==
    {Link(req, name, run) :
        name \in {"flow", "atoms"} \cup (IF supports THEN {"events", "stream"} ELSE {})}

-----------------------------------------------------------------------------
(* MeterService.  Each handler's checks are in the order of the code.      *)

health(req) == Json("health", "none", {})

list_flows(req, kept, supports) ==
    IF req.badQuery THEN Error(400)
    ELSE Json("flows", "none",
              {Link(req, "flows", "none")} \cup UNION {FlowLinks(req, r, supports) : r \in kept})

get_flow(req, run, kept, supports) ==
    IF run \notin kept THEN Error(404) ELSE Json("flow", run, FlowLinks(req, run, supports))

get_atoms(req, run, kept) ==
    IF run \notin kept THEN Error(404)
    ELSE Json("atoms", run, {[to |-> req.prefix \o req.path, of |-> "atoms", run |-> run]})

get_events(req, run, kept, supports) ==
    IF ~supports THEN Error(501)
    ELSE IF run \notin kept THEN Error(404)
    ELSE IF req.badQuery THEN Error(400)
    ELSE Json("events", run, {Link(req, "events", run)})

stream(req, run, kept, supports) ==
    IF ~supports THEN Error(501)
    ELSE IF run \notin kept THEN Error(404)
    ELSE IF req.badQuery THEN Error(400)
    ELSE [Json("stream", run, {}) EXCEPT !.stream = TRUE]

Handle(name, run, req, kept, supports) ==
    CASE name = "health" -> health(req)
      [] name = "flows"  -> list_flows(req, kept, supports)
      [] name = "flow"   -> get_flow(req, run, kept, supports)
      [] name = "atoms"  -> get_atoms(req, run, kept)
      [] name = "events" -> get_events(req, run, kept, supports)
      [] name = "stream" -> stream(req, run, kept, supports)

-----------------------------------------------------------------------------
(* Dispatcher.                                                             *)

\* _invoke(): HEAD has everything of GET but the body; a stream is handed
\* to the adapter as it is.
Invoke(t, method, req, kept, supports) ==
    LET run    == IF t.param THEN Middle(t, req.path)[1] ELSE "none"
        result == Handle(t.name, run, req, kept, supports)
    IN  IF method = "HEAD" /\ result.status = 200 /\ ~result.stream
        THEN [result EXCEPT !.body = FALSE] ELSE result

\* _allow(): HEAD and OPTIONS are the dispatcher's own.
Allow(methods) == methods \cup {"HEAD", "OPTIONS"}

\* _dispatch() and _options().
Dispatch(method, req, kept, supports) ==
    LET found  == Found(req.path)
        wanted == IF method = "HEAD" THEN "GET" ELSE method
    IN  IF found = {} THEN Error(404)
        ELSE IF method = "OPTIONS"
             THEN [NoAnswer EXCEPT !.status = 204, !.allow = Allow({"GET"})]
        ELSE IF wanted # "GET"
             THEN [Error(405) EXCEPT !.allow = Allow({"GET"})]
        ELSE Invoke(CHOOSE t \in found : TRUE, method, req, kept, supports)

\* run(): the host's router has matched the path, and let the method pass.
RunRoute(method, req, kept, supports) ==
    LET found == Found(req.path)
    IN  IF found = {} THEN Error(404)
        ELSE Invoke(CHOOSE t \in found : TRUE, method, req, kept, supports)

-----------------------------------------------------------------------------
(* Where a request lands.                                                  *)

\* A mount point that is stripped whether it is there or not.
StripAlways(path, root) == SubSeq(path, Len(root) + 1, Len(path))

\* http.split_path(): strip the mount point only if the path begins with it.
SplitPath(path, root) ==
    IF root = <<>> \/ ~IsPrefix(root, path) THEN path
    ELSE IF Len(path) = Len(root) THEN <<"/">>
    ELSE SubSeq(path, Len(root) + 1, Len(path))

\* http.mount_prefix(): what precedes our own part of the path.
MountPrefix(full, sub) ==
    IF sub \in {<<>>, <<"/">>} THEN (IF full # <<>> /\ Last(full) = "/" THEN Front(full) ELSE full)
    ELSE IF ~IsSuffix(sub, full) THEN <<>>
    ELSE SubSeq(full, 1, Len(full) - Len(sub))

\* build_request() of ASGIApp and of WSGIApp; the proxy has announced what
\* it stripped as X-Forwarded-Prefix.
AsgiRequest(root, path, forwarded) ==
    [path |-> SplitPath(path, root), prefix |-> forwarded \o root]
WsgiRequest(script, info, forwarded) ==
    [path |-> IF info = <<>> THEN <<"/">> ELSE info, prefix |-> forwarded \o script]

\* MeterController._delegate(): Pecan leaves PATH_INFO whole; the mount point
\* is what precedes the remainder, and the WSGI callable goes on from there.
PecanRequest(info, remainder, forwarded) ==
    WsgiRequest(MountPrefix(info, remainder), remainder, forwarded)

\* _build_request() of the Flask, Django and FastAPI adapters: the host's
\* router has matched the end of the path, what precedes it is the prefix.
RouterRequest(path, sub) == [path |-> sub, prefix |-> MountPrefix(path, sub)]

\* The public path is what the proxy strips, the mount point, and ours.  An
\* ASGI host has the mount point in root_path and in path ("whole"), or in
\* root_path only ("stripped"); a WSGI host and paste's urlmap split it off.
Lands(dep, url) ==
    LET inner == SubSeq(url, Len(dep.forwarded) + 1, Len(url))
        own   == SubSeq(inner, Len(dep.mount) + 1, Len(inner))
        sub   == IF own = <<>> THEN <<"/">> ELSE own
    IN  CASE dep.host = "whole"       -> AsgiRequest(dep.mount, inner, dep.forwarded)
          [] dep.host = "stripped"    -> AsgiRequest(dep.mount, sub, dep.forwarded)
          [] dep.host = "wsgi"        -> WsgiRequest(dep.mount, own, dep.forwarded)
          [] dep.host = "pecan"       -> PecanRequest(inner, sub, dep.forwarded)
          [] dep.host \in RouterHosts -> RouterRequest(inner, sub)

\* How a deployment may be put together.  A mount point that is itself the
\* beginning of one of our paths is told from them only if the path has it;
\* and the native adapters do not read X-Forwarded-Prefix.
Unambiguous(dep) ==
    /\ dep.host = "stripped" =>
          \A t \in Routes, run \in Runs \cup {"none"} :
              dep.mount = <<>> \/ ~IsPrefix(dep.mount, PathOf(t.name, run))
    /\ dep.host \in RouterHosts => dep.forwarded = <<>>
=============================================================================
