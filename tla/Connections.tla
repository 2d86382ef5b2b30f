----------------------------- MODULE Connections -----------------------------
(***************************************************************************)
(* How the controller finds a connection for every job: resolving, dialing *)
(* and racing addresses, probing, redirects, cooldowns, credential         *)
(* refreshes, replacement of lost connections, retry timers and the trial  *)
(* connections of the adaptive loop.                                       *)
(*                                                                         *)
(* A job has one source and its plan is a number of pieces; Transfer and   *)
(* SegmentPlan model the plan.  A connection carries one request, the      *)
(* default of initial_streams_per_connection, and an origin starts with    *)
(* one connection, the default of initial_physical_connections.  Rates,    *)
(* sizes and the H3 backoff are inputs.                                    *)
(*                                                                         *)
(* A handler of the controller is one step that leaves the rest of its     *)
(* work in `agenda`; until that is empty nothing else happens.  What a     *)
(* shard does with a command takes a task of its own, whose report is      *)
(* handled in the step that ends it.  A report or a timer that names only  *)
(* things the controller has forgotten changes nothing and is left out.    *)
(***************************************************************************)
EXTENDS Naturals, FiniteSets, SequencesExt

CONSTANTS
  Jobs,          \* jobs in the order of their admission, all for the first origin
  Origins,       \* 1 .. n; a redirect can lead from one to another
  ConnIds,       \* connection keys, at least as many as are ever in use at once
  Pieces,        \* pieces of a job
  MaxTries,      \* resolve attempts of a job
  RefreshBudget, \* credential refreshes of a job
  MaxRedirects,  \* redirects of a job
  MaxLive,       \* max_physical_connections
  H3,            \* origins that advertise HTTP/3
  MaxUpsets,     \* bound: failures, connections the server closes, redirects,
                 \* cancellations, deadlines and connections opened on trial;
                 \* a second job stands for as many
  MaxProbes      \* bound: probes of a job on one connection at a time

ASSUME ConnectionsAssumption ==
  /\ IsFiniteSet(Jobs) /\ 1 \in Origins /\ H3 \subseteq Origins
  /\ Jobs \cup Origins \cup ConnIds \subseteq Nat \ {0}
  /\ {Pieces, MaxProbes} \subseteq Nat \ {0}
  /\ {MaxTries, RefreshBudget, MaxRedirects, MaxLive, MaxUpsets} \subseteq Nat

VARIABLES
  job,    \* JobNode, with the retry timers that name the job
  site,   \* OriginNode, with the resolver requests and timers that name it
  conns,  \* ConnectionNode by key, and whether the dial has been answered
  probes, \* probes on the shards
  work,   \* range requests on the shards; `live` while the plan knows them
  agenda, \* what the current handler still has to do
  upsets  \* how much of the bound MaxUpsets is used

vars == <<job, site, conns, probes, work, agenda, upsets>>

None == 0
Pool == 0
Live == {"created", "probing", "transferring", "committing", "draining"}

\* "draining" is Cancelling and Failing; `left` are the pieces nobody has
\* claimed, `deferred` those that wait for their backoff.
Job ==
  [phase : Live \cup {"new", "gone"}, origin : Origins, tries : Nat, hops : Nat,
   refreshes : Nat, planned : BOOLEAN, left : Nat, deferred : Nat, retries : Nat]

\* `h3` says whether HTTP/3 is advertised, and whether it has failed since;
\* `cooldown`, `resolve` and `stagger` count the timers that are set.
Site ==
  [known : BOOLEAN, h3 : {"no", "yes", "backoff"}, cooling : BOOLEAN, trial : ConnIds \cup {None},
   resolving : Nat, cooldown : Nat, resolve : Nat, stagger : Nat]

Connection ==
  [origin : Origins, status : {"connecting", "ready", "retired"}, up : BOOLEAN,
   intent : Jobs \cup {Pool}, h3 : BOOLEAN, load : {0, 1}]

NewJob ==
  [phase |-> "new", origin |-> 1, tries |-> 0, hops |-> 0, refreshes |-> 0,
   planned |-> FALSE, left |-> 0, deferred |-> 0, retries |-> 0]

NewSite ==
  [known |-> FALSE, h3 |-> "no", cooling |-> FALSE, trial |-> None,
   resolving |-> 0, cooldown |-> 0, resolve |-> 0, stagger |-> 0]

\* `on` is an origin, or the job of a step that names one.
Do(op, x) == [do |-> op, on |-> x]
Quiet == agenda = <<>>

-----------------------------------------------------------------------------
(***************************************************************************)
(* Queries, on the connections cs of a handler's moment.                   *)
(***************************************************************************)
At(cs, o) == {c \in DOMAIN cs : cs[c].origin = o}
Ready(cs, o) == {c \in At(cs, o) : cs[c].status = "ready"}
LiveAt(cs, o) == {c \in At(cs, o) : cs[c].status # "retired"}

\* job_has_inflight_probe: dialed, or once asked to probe, for this job.
HasProbe(cs, j) ==
  \E c \in DOMAIN cs : cs[c].intent = j /\ cs[c].status \in {"connecting", "ready"}

\* waiting_probe_job: a job that was never probed comes first.
WaitingJob(cs, o) ==
  LET idle == {j \in Jobs : job[j].origin = o /\ ~HasProbe(cs, j)}
      In(ph) == {j \in idle : job[j].phase = ph}
  IN  CASE In("created") # {} -> Min(In("created"))
        [] In("created") = {} /\ In("probing") # {} -> Min(In("probing"))
        [] OTHER -> None

InFlight(wk, j) == {w \in wk : w.job = j /\ w.live}

\* pick_wfq_job; virtual service is an input.
Wanting(o) ==
  {j \in Jobs : job[j].phase = "transferring" /\ job[j].origin = o /\ job[j].left > 0}

\* Mutant of WithRoom: a connection without room is picked.
WithoutRoom(o) == Ready(conns, o)

\* pump and stream_capacity: a connection carries one request.
WithRoom(o) == {c \in Ready(conns, o) : conns[c].load = 0}

\* Mutant of Drained: a retired connection is closed under the worker that still uses it.
DrainedEarly(cs, c) == c \in DOMAIN cs /\ cs[c].status = "retired"

Drained(cs, c) == c \in DOMAIN cs /\ cs[c].status = "retired" /\ cs[c].load = 0

-----------------------------------------------------------------------------
(***************************************************************************)
(* Parts of handlers.                                                      *)
(***************************************************************************)
\* drop_connection, and CloseConnection at the shard.
Drop(cs, S) == Restrict(cs, DOMAIN cs \ S)

\* A key is not used again while anything still names it.
Unused ==
  ConnIds \ (DOMAIN conns \cup {site[o].trial : o \in Origins}
             \cup {p.conn : p \in probes} \cup {w.conn : w \in work})

\* prefer_h3_for: the backoff after a failure is a minute or more.
PreferH3(s) ==
  CASE s.h3 = "no" -> {FALSE} [] s.h3 = "yes" -> {TRUE} [] OTHER -> BOOLEAN

\* The origin advertises HTTP/3, in an HTTPS or SVCB record or an Alt-Svc header.
Advertised(s) == [s EXCEPT !.h3 = IF @ = "no" THEN "yes" ELSE @]

\* dial_connection, as connection Min(Unused) and for the waiting probe if any.
Dial(o, prefer) ==
  /\ Unused # {}
  /\ \E h \in prefer :
       conns' = [c \in DOMAIN conns \cup {Min(Unused)} |->
                   IF c \in DOMAIN conns THEN conns[c]
                   ELSE [origin |-> o, status |-> "connecting", up |-> FALSE,
                         intent |-> WaitingJob(conns, o), h3 |-> h, load |-> 0]]

\* Action::Probe.  A job can be probed more than once on one connection; the
\* bound MaxProbes leaves out any probe beyond that.
ProbeOn(ps, j, c, up) ==
  LET used == {p.n : p \in {q \in ps : q.job = j /\ q.conn = c}}
      free == (1 .. MaxProbes) \ used
  IN  IF free = {} THEN ps
      ELSE ps \cup {[job |-> j, conn |-> c, n |-> Min(free), up |-> up]}

Upset == upsets < MaxUpsets /\ upsets' = upsets + 1

\* finish_job: the node goes, and the origin's other jobs may now be probed.
Finish(j, rest) ==
  /\ job' = [job EXCEPT ![j] = [NewJob EXCEPT !.phase = "gone"]]
  /\ agenda' = <<Do("ensure", job[j].origin)>> \o rest

\* JobCancelled, begin_fail and try_complete_drain: workers report first.
Drain(j, wk, rest) ==
  IF InFlight(wk, j) = {}
  THEN Finish(j, rest)
  ELSE job' = [job EXCEPT ![j].phase = "draining"] /\ agenda' = rest

\* retry_resolve
RetryResolve(j, sites) ==
  IF job[j].tries >= MaxTries
  THEN Finish(j, <<>>) /\ site' = sites
  ELSE /\ job' = [job EXCEPT ![j].tries = @ + 1]
       /\ site' = [sites EXCEPT ![job[j].origin].resolve = @ + 1]
       /\ UNCHANGED agenda

\* The origin's cooldown, with the timer of its end.
CoolDown(o) == [site EXCEPT ![o].cooling = TRUE, ![o].cooldown = @ + 1]

\* The plan is made anew: what workers still fetch belongs to the old one.
Orphan(j) == {[w EXCEPT !.live = w.live /\ w.job # j] : w \in work}

\* Mutant of Released: only the slot of a job that is still there is given back.
ReleasedIfKnown(c) ==
  IF c \in DOMAIN conns /\ \A w \in work : w.conn = c => job[w.job].phase # "gone"
  THEN [conns EXCEPT ![c].load = @ - 1] ELSE conns

\* release_assignment_slot
Released(c) == IF c \in DOMAIN conns THEN [conns EXCEPT ![c].load = @ - 1] ELSE conns

-----------------------------------------------------------------------------
(***************************************************************************)
(* The steps a handler leaves in the agenda.                               *)
(***************************************************************************)
Step(op) == agenda # <<>> /\ Head(agenda).do = op
Here == Head(agenda).on
Rest == Tail(agenda)

\* ensure_probes: one turn of its loop.
EnsureProbes ==
  /\ Step("ensure")
  /\ LET j == WaitingJob(conns, Here)
         stop == site[Here].cooling \/ ~site[Here].known \/ j = None
     IN  \/ stop /\ agenda' = Rest /\ UNCHANGED <<job, conns, probes>>
         \/ /\ ~stop
            /\ \/ /\ WithRoom(Here) # {}
                  /\ conns' = [conns EXCEPT ![Min(WithRoom(Here))].intent = j]
                  /\ probes' = ProbeOn(probes, j, Min(WithRoom(Here)), TRUE)
               \/ WithRoom(Here) = {} /\ Dial(Here, PreferH3(site[Here])) /\ UNCHANGED probes
            /\ job' = [job EXCEPT ![j].phase = "probing"]
            /\ UNCHANGED agenda
  /\ UNCHANGED <<site, work, upsets>>

\* scale_connections up to initial_physical_connections, and open_one_connection
\* with the conditions its callers put before it.  An origin found to speak
\* HTTP/3 is dialed ("dial") whether it is in a cooldown or not.
OpenConnection ==
  /\ ~Quiet /\ Head(agenda).do \in {"scale", "open", "opentcp", "opennone", "openwaiting", "dial"}
  /\ LET op == Head(agenda).do
         wanted ==
           CASE op = "scale" -> /\ LiveAt(conns, Here) = {}
                                /\ \E j \in Jobs : /\ job[j].origin = Here
                                                   /\ job[j].phase \in {"created", "probing", "transferring"}
             [] op = "opennone" -> Ready(conns, Here) = {}
             [] op = "openwaiting" -> Ready(conns, Here) = {} /\ WaitingJob(conns, Here) # None
             [] op = "dial" -> \A c \in At(conns, Here) : ~conns[c].h3
             [] OTHER -> TRUE
     IN  IF wanted /\ site[Here].known /\ (op = "dial" \/ ~site[Here].cooling)
         THEN Dial(Here, IF op = "opentcp" THEN {FALSE} ELSE PreferH3(site[Here]))
         ELSE UNCHANGED conns
  /\ agenda' = Rest
  /\ UNCHANGED <<job, site, probes, work, upsets>>

\* pump and claim_one: one turn of the loop.
Pump ==
  /\ Step("pump")
  /\ \/ /\ {} \in {Wanting(Here), WithRoom(Here)}
        /\ agenda' = Rest
        /\ UNCHANGED <<job, conns, work>>
     \/ /\ \E j \in Wanting(Here), c \in WithRoom(Here) :
             /\ job' = [job EXCEPT ![j].left = @ - 1]
             /\ conns' = [conns EXCEPT ![c].load = @ + 1]
             /\ work' = work \cup {[job |-> j, conn |-> c, live |-> TRUE]}
        /\ UNCHANGED agenda
  /\ UNCHANGED <<site, probes, upsets>>

\* begin_fail
BeginFail ==
  /\ Step("fail")
  /\ IF job[Here].phase \in {"gone", "draining"}
     THEN agenda' = Rest /\ UNCHANGED job
     ELSE Drain(Here, work, Rest)
  /\ UNCHANGED <<site, conns, probes, work, upsets>>

\* CommitDestination at the end of a probe that found nothing left to fetch.
CommitAtOnce ==
  /\ Step("commit")
  /\ job' = [job EXCEPT ![Here].phase = "committing"]
  /\ agenda' = Rest
  /\ UNCHANGED <<site, conns, probes, work, upsets>>

\* RequestCredentialRefresh calls the refresher, and the controller takes its
\* answer, before the control loop goes on.
SourceRefreshed ==
  /\ Step("refresh")
  /\ \/ /\ job' = [job EXCEPT ![Here].phase = "probing", ![Here].refreshes = @ + 1]
        /\ agenda' = <<Do("open", job[Here].origin)>> \o Rest
        /\ UNCHANGED upsets
     \/ /\ Upset
        /\ Finish(Here, Rest)
  /\ UNCHANGED <<site, conns, probes, work>>

-----------------------------------------------------------------------------
(***************************************************************************)
(* Jobs come and go.                                                       *)
(***************************************************************************)
JobAdmitted(j) ==
  /\ Quiet /\ job[j].phase = "new"
  /\ \A k \in Jobs : k < j => job[k].phase # "new"
  /\ IF \E k \in Jobs : k < j THEN upsets = 0 /\ upsets' = MaxUpsets ELSE UNCHANGED upsets
  /\ job' = [job EXCEPT ![j].phase = "created"]
  /\ LET o == job[j].origin
     IN  IF site[o].known
         THEN agenda' = <<Do("ensure", o)>> /\ UNCHANGED site
         ELSE site' = [site EXCEPT ![o].resolving = @ + 1] /\ UNCHANGED agenda
  /\ UNCHANGED <<conns, probes, work>>

JobCancelled(j) ==
  /\ Quiet /\ job[j].phase \in Live \ {"draining"}
  /\ Upset
  /\ Drain(j, work, <<>>)
  /\ UNCHANGED <<site, conns, probes, work>>

JobDeadline(j) ==
  /\ Quiet /\ job[j].phase \in Live
  /\ Upset
  /\ Finish(j, <<>>)
  /\ UNCHANGED <<site, conns, probes, work>>

\* DestinationCommitted and DestinationFailed.
DestinationAnswered(j) ==
  /\ Quiet /\ job[j].phase = "committing"
  /\ Finish(j, <<>>)
  /\ UNCHANGED <<site, conns, probes, work, upsets>>

-----------------------------------------------------------------------------
(***************************************************************************)
(* Resolving and dialing.                                                  *)
(***************************************************************************)
Resolved(o) ==
  /\ Quiet /\ site[o].resolving > 0
  /\ LET j == WaitingJob(conns, o)
         answered == [site EXCEPT ![o].resolving = @ - 1]
         found == [answered EXCEPT ![o].known = TRUE, ![o].stagger = @ + (IF j = None THEN 0 ELSE 1)]
     IN  \/ /\ \E h3 \in {FALSE, (o \in H3)} :
                 site' = IF h3 THEN [found EXCEPT ![o] = Advertised(@)] ELSE found
            /\ IF j = None
               THEN UNCHANGED <<job, conns, agenda>>
               ELSE /\ Dial(o, PreferH3(site'[o]))
                    /\ job' = [job EXCEPT ![j].phase = "probing", ![j].tries = 0]
                    /\ agenda' = <<Do("ensure", o)>>
            /\ UNCHANGED upsets
         \/ /\ Upset
            /\ IF j = None
               THEN site' = answered /\ UNCHANGED <<job, agenda>>
               ELSE RetryResolve(j, answered)
            /\ UNCHANGED conns
  /\ UNCHANGED <<probes, work>>

\* The winner of a cold race closes the dials it beat, except those of other
\* jobs' probes when it was itself dialed for a probe.
Losers(c) ==
  LET rivals == At(conns, conns[c].origin) \ {c}
  IN  {d \in rivals :
         /\ \A r \in rivals : conns[r].status # "ready"
         /\ conns[d].status = "connecting"
         /\ Pool \in {conns[c].intent, conns[d].intent} \/ conns[c].intent = conns[d].intent}

\* ConnectionReady; a retired trial whose dial is answered late is ready again.
ConnectionReady(c) ==
  /\ Quiet /\ c \in DOMAIN conns /\ ~conns[c].up
  /\ LET o == conns[c].origin
         i == conns[c].intent
         cs == Drop([conns EXCEPT ![c].status = "ready", ![c].up = TRUE], Losers(c))
         meant == i # Pool /\ job[i].origin = o /\ job[i].phase \in {"created", "probing"}
         j == IF meant THEN i ELSE WaitingJob(cs, o)
     IN  /\ conns' = cs
         /\ IF j # None
            THEN /\ job' = [job EXCEPT ![j].phase = "probing"]
                 /\ probes' = ProbeOn(probes, j, c, TRUE)
                 /\ UNCHANGED agenda
            ELSE /\ agenda' = <<Do("ensure", o), Do("pump", o)>>
                 /\ UNCHANGED <<job, probes>>
  /\ UNCHANGED <<site, work, upsets>>

\* ConnectionFailed and on_intent_connect_failed, of a job with one source.
ConnectionFailed(c) ==
  /\ Quiet /\ c \in DOMAIN conns /\ ~conns[c].up
  /\ Upset
  /\ conns' = Drop(conns, {c})
  /\ \E tls \in BOOLEAN :
       LET o == conns[c].origin
           i == conns[c].intent
           fallback == conns[c].h3 /\ Ready(conns, o) = {}
           tcp == IF fallback THEN <<Do("opentcp", o)>> ELSE <<>>
           known == IF conns[c].h3 THEN [site EXCEPT ![o].h3 = "backoff"] ELSE site
           probing == SetToSeqs({j \in Jobs : job[j].origin = o /\ job[j].phase = "probing"})
       IN  \/ /\ i # Pool /\ ~fallback /\ ~tls /\ job[i].phase # "gone"
              /\ RetryResolve(i, known)
           \/ /\ i # Pool /\ (fallback \/ tls \/ job[i].phase = "gone")
              /\ agenda' = IF fallback \/ ~tls THEN tcp ELSE <<Do("fail", i)>>
              /\ site' = known /\ UNCHANGED job
           \/ /\ i = Pool
              /\ \E s \in probing :
                   agenda' = tcp \o IF tls THEN [n \in DOMAIN s |-> Do("fail", s[n])] ELSE <<Do("open", o)>>
              /\ site' = known /\ UNCHANGED job
  /\ UNCHANGED <<probes, work>>

-----------------------------------------------------------------------------
(***************************************************************************)
(* Probing.                                                                *)
(***************************************************************************)
\* Probed, of a job in whatever phase it is by now.  A resumed or an empty
\* file may have nothing left to fetch.
Probed(p) ==
  /\ Quiet /\ p \in probes /\ p.up
  /\ probes' = probes \ {p}
  /\ LET j == p.job
         o == job[j].origin
     IN  \/ /\ job[j].phase = "gone"
            /\ UNCHANGED <<job, site, conns, work, agenda, upsets>>
         \/ /\ job[j].phase # "gone"
            /\ \E reusable \in BOOLEAN, todo \in {0, Pieces}, h3 \in {FALSE, (o \in H3)} :
                 /\ IF reusable THEN UNCHANGED upsets ELSE Upset
                 /\ conns' = IF reusable THEN conns ELSE Drop(conns, {p.conn})
                 /\ job' = [job EXCEPT ![j].phase = "transferring", ![j].planned = TRUE,
                                       ![j].left = todo, ![j].deferred = 0]
                 /\ site' = IF h3 THEN [site EXCEPT ![o] = Advertised(@)] ELSE site
                 /\ agenda' = (IF h3 THEN <<Do("dial", o)>> ELSE <<>>) \o
                      <<Do("scale", o), Do("ensure", o),
                        IF todo = 0 THEN Do("commit", j) ELSE Do("pump", o)>>
            /\ work' = Orphan(j)

\* handle_probe_redirect.  The chain of a job starts with its own address; a
\* loop, an address that cannot be used and a downgrade are refused.
ProbeRedirected(p) ==
  /\ Quiet /\ p \in probes /\ p.up
  /\ Upset
  /\ LET j == p.job
         answered == probes \ {p}
     IN  \/ /\ job[j].phase = "gone"
            /\ probes' = answered
            /\ UNCHANGED <<job, site, conns, agenda>>
         \/ /\ job[j].phase # "gone"
            /\ Finish(j, <<>>)
            /\ probes' = answered
            /\ UNCHANGED <<site, conns>>
         \/ /\ job[j].phase # "gone" /\ job[j].hops + 1 < MaxRedirects
            /\ probes' = ProbeOn(answered, j, p.conn, p.conn \in DOMAIN conns)
            /\ job' = [job EXCEPT ![j].hops = @ + 1]
            /\ UNCHANGED <<site, conns, agenda>>
         \/ /\ job[j].phase # "gone" /\ job[j].hops + 1 < MaxRedirects
            /\ \E o \in Origins \ {job[j].origin} :
                 /\ job' = [job EXCEPT ![j].phase = "created", ![j].origin = o,
                                       ![j].tries = 0, ![j].hops = @ + 1]
                 /\ site' = [site EXCEPT ![o].resolving = @ + 1]
            /\ probes' = answered
            /\ conns' = Drop(conns, {p.conn})
            /\ UNCHANGED agenda
  /\ UNCHANGED work

\* ProbeFailed: the connection goes, a drain with nothing in flight is complete, and
\* otherwise the job waits out a cooldown of its origin or for new credentials.
ProbeFailed(p) ==
  /\ Quiet /\ p \in probes
  /\ IF p.up THEN Upset ELSE UNCHANGED upsets
  /\ probes' = probes \ {p}
  /\ conns' = Drop(conns, {p.conn})
  /\ LET j == p.job
         over == job[j].phase = "draining" /\ InFlight(work, j) = {}
     IN  \/ /\ job[j].phase = "gone"
            /\ UNCHANGED <<job, site, agenda>>
         \/ /\ job[j].phase # "gone" /\ ~over
            /\ site' = CoolDown(job[j].origin)
            /\ UNCHANGED <<job, agenda>>
         \/ /\ job[j].phase # "gone" /\ (p.up \/ over)
            /\ IF over \/ job[j].refreshes >= RefreshBudget
               THEN Finish(j, <<>>)
               ELSE agenda' = <<Do("refresh", j)>> /\ UNCHANGED job
            /\ UNCHANGED site
  /\ UNCHANGED work

-----------------------------------------------------------------------------
(***************************************************************************)
(* Reports of the workers.                                                 *)
(***************************************************************************)
\* AssignmentVerified.  A plan that is complete is committed, whatever the
\* phase; `trial` stands for consider_early_connection_scale.
AssignmentVerified(w) ==
  /\ Quiet /\ w \in work
  /\ work' = work \ {w}
  /\ \E reusable \in BOOLEAN :
       LET cs == Released(w.conn)
       IN  /\ IF reusable THEN UNCHANGED upsets ELSE Upset
           /\ conns' = IF ~reusable \/ Drained(cs, w.conn) THEN Drop(cs, {w.conn}) ELSE cs
  /\ LET j == w.job
         o == job[j].origin
         complete == job[j].left + job[j].deferred = 0 /\ InFlight(work', j) = {}
     IN  \/ /\ job[j].phase = "gone"
            /\ UNCHANGED <<job, agenda>>
         \/ /\ job[j].phase # "gone" /\ complete
            /\ job' = [job EXCEPT ![j].phase = "committing"]
            /\ agenda' = <<Do("trial", o)>>
         \/ /\ job[j].phase = "draining" /\ ~complete
            /\ Drain(j, work', <<>>)
         \/ /\ job[j].phase \notin {"gone", "draining"} /\ ~complete
            /\ agenda' = <<Do("trial", o)>> \o
                 IF job[j].left > 0 THEN <<Do("scale", o), Do("pump", o)>> ELSE <<>>
            /\ UNCHANGED job
  /\ UNCHANGED <<site, probes>>

\* What a report of failure asks for:
\*   retry    RetrySameRange within its budget    exhausted  and past it
\*   backoff  BackOffOrigin                        refresh    RefreshCredentials
\*   recheck  RecheckLength                        fullbody   FullBodyForRangeRequest
\*   lost     RangeCapabilityLost
\*   fatal    InvalidateArtifact, Fatal, and QuarantineSource of the only source
Dispositions ==
  {"retry", "exhausted", "backoff", "refresh", "recheck", "fullbody", "lost", "fatal"}

\* How the plan of job r takes the report: the piece waits for its backoff or
\* is free again; a downgrade to the full body starts from what is verified.
Replanned(r, how, piece, others) ==
  CASE how = "fullbody" -> [r EXCEPT !.left = @ + r.deferred + piece + others, !.deferred = 0]
    [] how = "retry" -> [r EXCEPT !.deferred = @ + piece, !.retries = @ + 1]
    [] OTHER -> [r EXCEPT !.left = @ + piece]

\* AssignmentFailed and handle_assignment_disposition.
AssignmentFailed(w, how) ==
  /\ Quiet /\ w \in work
  /\ Upset
  /\ \E poisoned \in BOOLEAN : conns' = Drop(Released(w.conn), IF poisoned THEN {w.conn} ELSE {})
  /\ LET j == w.job
         o == job[j].origin
         others == InFlight(work \ {w}, j)
         over == \/ how = "fatal"
                 \/ how = "refresh" /\ job[j].refreshes >= RefreshBudget
                 \/ job[j].phase = "draining" /\ others = {}
         r == Replanned(job[j], how, IF w.live THEN 1 ELSE 0, Cardinality(others))
         next == <<Do("scale", o), Do("pump", o)>>
     IN  /\ work' = (IF how = "fullbody" THEN Orphan(j) ELSE work) \ {w, [w EXCEPT !.live = FALSE]}
         /\ \/ job[j].phase = "gone" /\ UNCHANGED <<job, site, agenda>>
            \/ job[j].phase # "gone" /\ over /\ Finish(j, <<>>) /\ UNCHANGED site
            \/ /\ job[j].phase # "gone" /\ ~over
               /\ job' = [job EXCEPT ![j] = IF how = "recheck" THEN [r EXCEPT !.phase = "probing"] ELSE r]
               /\ site' = IF how = "backoff" THEN CoolDown(o) ELSE site
               /\ agenda' = CASE how = "exhausted" -> <<Do("fail", j)>> \o next
                              [] how = "refresh" -> Append(next, Do("refresh", j))
                              [] how \in {"recheck", "fullbody"} -> <<Do("open", o)>> \o next
                              [] OTHER -> next
  /\ UNCHANGED probes

-----------------------------------------------------------------------------
(***************************************************************************)
(* Timers.                                                                 *)
(***************************************************************************)
\* RetryReady: release_due frees at least the pieces whose timers have fired.
RetryReady(j) ==
  /\ Quiet /\ job[j].retries > 0
  /\ \E due \in 0 .. job[j].deferred :
       /\ job[j].deferred - due < job[j].retries
       /\ job' = [job EXCEPT ![j].retries = @ - 1, ![j].left = @ + due, ![j].deferred = @ - due]
  /\ agenda' = <<Do("opennone", job[j].origin), Do("pump", job[j].origin)>>
  /\ UNCHANGED <<site, conns, probes, work, upsets>>

ResolveRetry(o) ==
  /\ Quiet /\ site[o].resolve > 0
  /\ site' = [site EXCEPT ![o].resolve = @ - 1, ![o].resolving = @ + 1]
  /\ UNCHANGED <<job, conns, probes, work, agenda, upsets>>

\* Mutant of OriginCooldownExpired: the end of a cooldown wakes nobody.
OriginCooldownExpiredSilently(o) ==
  /\ Quiet /\ site[o].cooldown > 0
  /\ site' = [site EXCEPT ![o].cooldown = @ - 1, ![o].cooling = FALSE]
  /\ UNCHANGED <<job, conns, probes, work, agenda, upsets>>

\* OriginCooldownExpired clears whatever cooldown the origin has by now.
OriginCooldownExpired(o) ==
  /\ Quiet /\ site[o].cooldown > 0
  /\ site' = [site EXCEPT ![o].cooldown = @ - 1, ![o].cooling = FALSE]
  /\ agenda' = <<Do("ensure", o), Do("openwaiting", o), Do("pump", o)>>
  /\ UNCHANGED <<job, conns, probes, work, upsets>>

\* is_cooled_down looks at the clock: a cooldown can be over before its timer
\* is handled.
CooldownElapses(o) ==
  /\ Quiet /\ site[o].cooling
  /\ site' = [site EXCEPT ![o].cooling = FALSE]
  /\ UNCHANGED <<job, conns, probes, work, agenda, upsets>>

\* EndpointStagger: the second address, if there is one, joins the race.
EndpointStagger(o) ==
  /\ Quiet /\ site[o].stagger > 0
  /\ site' = [site EXCEPT ![o].stagger = @ - 1]
  /\ \/ UNCHANGED conns
     \/ Ready(conns, o) = {} /\ ~site[o].cooling /\ Dial(o, {FALSE})
  /\ UNCHANGED <<job, probes, work, agenda, upsets>>

\* RebalanceTick, which is set as long as the origin has a transferring job.  A
\* tick that finds nothing to claim changes nothing here: the plan it rebalances
\* is SegmentPlan's.
RebalanceTick(o) ==
  /\ Quiet /\ {} \notin {Wanting(o), WithRoom(o)}
  /\ agenda' = <<Do("pump", o)>>
  /\ UNCHANGED <<job, site, conns, probes, work, upsets>>

\* DrainConnection, which is set again as long as the connection drains.
DrainConnection(c) ==
  /\ Quiet /\ Drained(conns, c)
  /\ conns' = Drop(conns, {c})
  /\ UNCHANGED <<job, site, probes, work, agenda, upsets>>

-----------------------------------------------------------------------------
(***************************************************************************)
(* The adaptive loop: what it opens and gives back.  Which trial it tries  *)
(* and how it judges one depends on rates, so either can happen.           *)
(***************************************************************************)
\* open_parallel_connection, and the idle half of evaluate_experiment, which count
\* different connections of the origin.
OpenTrial(o, counted) ==
  /\ ~site[o].cooling /\ site[o].trial = None
  /\ \E j \in Jobs : job[j].origin = o /\ job[j].phase = "transferring"
  /\ Cardinality(counted) \in 1 .. MaxLive - 1
  /\ Upset
  /\ Dial(o, PreferH3(site[o]))
  /\ site' = [site EXCEPT ![o].trial = Min(Unused)]

\* consider_early_connection_scale, after a verified piece.
EarlyTrial ==
  /\ Step("trial")
  /\ \/ agenda' = Rest /\ UNCHANGED <<site, conns, upsets>>
     \/ agenda' = <<Do("pump", Here)>> \o Rest /\ OpenTrial(Here, LiveAt(conns, Here))
  /\ UNCHANGED <<job, probes, work>>

\* revert: a trial that did not pay is retired, and closed once it is idle.
Reverted(cs, t) == IF t \in DOMAIN cs THEN [cs EXCEPT ![t].status = "retired"] ELSE cs

\* evaluate_experiment: the trial is over, and its connection is kept or given back.
JudgeTrial(o, cs) ==
  /\ site' = [site EXCEPT ![o].trial = None]
  /\ conns' \in {cs, Reverted(cs, site[o].trial)}
  /\ UNCHANGED upsets

\* adaptive_tick.  A tick during a cooldown sets no other, so that none is sure to
\* come; with nothing active the loop stops and forgets its trial.
AdaptiveTick(o) ==
  /\ Quiet /\ ~site[o].cooling
  /\ LET active == \E j \in Jobs : job[j].origin = o /\ job[j].phase \in {"probing", "transferring"}
         cs == Drop(conns, {c \in DOMAIN conns : Drained(conns, c)})
     IN  \/ /\ ~active /\ site[o].trial # None
            /\ site' = [site EXCEPT ![o].trial = None]
            /\ UNCHANGED <<conns, upsets>>
         \/ active /\ site[o].trial # None /\ JudgeTrial(o, cs)
         \/ active /\ OpenTrial(o, Ready(conns, o))
  /\ UNCHANGED <<job, probes, work, agenda>>

-----------------------------------------------------------------------------
Init ==
  /\ job = [j \in Jobs |-> NewJob] /\ site = [o \in Origins |-> NewSite]
  /\ conns = <<>> /\ probes = {} /\ work = {}
  /\ agenda = <<>> /\ upsets = 0

Handler ==
  \/ EnsureProbes \/ OpenConnection \/ Pump \/ EarlyTrial
  \/ BeginFail \/ CommitAtOnce \/ SourceRefreshed
Reports ==
  \/ \E p \in probes : Probed(p) \/ ProbeRedirected(p) \/ ProbeFailed(p)
  \/ \E w \in work : AssignmentVerified(w) \/ \E how \in Dispositions : AssignmentFailed(w, how)
Dials == \E c \in ConnIds : ConnectionReady(c) \/ ConnectionFailed(c)
Answers == (\E o \in Origins : Resolved(o)) \/ \E j \in Jobs : DestinationAnswered(j)
Timers ==
  \/ \E j \in Jobs : RetryReady(j)
  \/ \E o \in Origins : \/ ResolveRetry(o) \/ OriginCooldownExpired(o) \/ CooldownElapses(o)
                        \/ EndpointStagger(o) \/ RebalanceTick(o)
  \/ \E c \in ConnIds : DrainConnection(c)

Next ==
  \/ Handler \/ Reports \/ Dials \/ Answers \/ Timers
  \/ \E o \in Origins : AdaptiveTick(o)
  \/ \E j \in Jobs : JobAdmitted(j) \/ JobCancelled(j) \/ JobDeadline(j)

\* The control loop handles what it is sent; connects, requests, lookups and
\* commits end, by their timeouts at the latest; timers fire.
Fairness ==
  WF_vars(Handler) /\ WF_vars(Reports) /\ WF_vars(Dials) /\ WF_vars(Answers) /\ WF_vars(Timers)

Spec == Init /\ [][Next]_vars /\ Fairness

-----------------------------------------------------------------------------
(* Type invariant. *)
ConnectionsTypeOK ==
  /\ job \in [Jobs -> Job] /\ site \in [Origins -> Site]
  /\ DOMAIN conns \subseteq ConnIds /\ Range(conns) \subseteq Connection
  /\ probes \subseteq [job : Jobs, conn : ConnIds, n : Nat, up : BOOLEAN]
  /\ work \subseteq [job : Jobs, conn : ConnIds, live : BOOLEAN]

(* The in-flight count of a connection the controller knows is the number of *)
(* workers on it, whatever became of their jobs and their plans: a slot lost  *)
(* to a cancelled, replanned or finished job would never be claimed again.    *)
LoadExact ==
  \A c \in DOMAIN conns : conns[c].load = Cardinality({w \in work : w.conn = c})

(* Every handler comes to its end: the control thread always gets back to its *)
(* mailbox, whatever jobs, connections and probes an origin has.               *)
HandlerReturns == []<>Quiet

\* A connection keeps the intent of the probe it was dialed for, also once that
\* probe is done and when the job has been redirected elsewhere: a job that has
\* to be probed again is then taken for one whose probe is under way.
Hidden(j) ==
  /\ Quiet
  /\ job[j].phase \in {"created", "probing"}
  /\ HasProbe(conns, j)
  /\ \A p \in probes : p.job # j
  /\ \A c \in At(conns, job[j].origin) : conns[c].intent = j => conns[c].up

\* A lost connection is replaced when a worker of the job reports, a retry is due
\* or a probe waits, and never in a cooldown: with none of these ahead, the job
\* has pieces left and nothing to fetch them on.
Dry(j) ==
  /\ Quiet
  /\ job[j].phase = "transferring" /\ job[j].left > 0
  /\ LiveAt(conns, job[j].origin) = {}
  /\ InFlight(work, j) = {} /\ job[j].retries = 0

(* Every admitted job ends, through any order of failed lookups and dials,   *)
(* lost races, redirects, cooldowns, refreshed credentials, lost connections  *)
(* and retries, unless it gets into one of two states nobody wakes it from.   *)
EndsOrStranded ==
  HandlerReturns =>
    \A j \in Jobs :
      <>(job[j].phase # "new") => <>(job[j].phase = "gone" \/ Hidden(j) \/ Dry(j))

(* A connection is closed under a worker only when something else on it has   *)
(* just failed or ended it: neither reverting a trial nor the end of a race    *)
(* or of a job takes a connection away from a running request.                 *)
NoAbort ==
  [][\A c \in DOMAIN conns \ DOMAIN conns' :
       conns[c].load = 0 \/ \E t \in probes \cup work : t.conn = c /\ t \notin probes' \cup work']_vars

=============================================================================
