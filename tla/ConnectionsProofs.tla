-------------------------- MODULE ConnectionsProofs --------------------------
(***************************************************************************)
(* Proofs about Connections: a connection's load is the number of requests *)
(* on it, through every replan, redirect, trial and lost connection, and   *)
(* nothing but a request's own end takes a connection from under it.       *)
(***************************************************************************)
EXTENDS Connections, FiniteSetTheorems, WellFoundedInduction, TLAPS

Probe == [job : Jobs, conn : ConnIds, n : Nat, up : BOOLEAN]
Request == [job : Jobs, conn : ConnIds, live : BOOLEAN]

\* What a handler can leave to do, and for an origin or for a job.
Task ==
  [do : {"ensure", "scale", "open", "opentcp", "opennone", "openwaiting", "dial", "pump", "trial"},
   on : Origins]
  \cup [do : {"fail", "commit", "refresh"}, on : Jobs]

\* A connection has at most one request, which its load counts, and none until it is up.
Counted(cs, wk) ==
  \A c \in DOMAIN cs :
    /\ cs[c].load = 0 <=> \A w \in wk : w.conn # c
    /\ \A v, w \in wk : v.conn = c /\ w.conn = c => v = w
    /\ cs[c].status = "connecting" => ~cs[c].up
    /\ cs[c].status = "ready" => cs[c].up
    /\ ~cs[c].up => cs[c].load = 0

Typed(cs) == DOMAIN cs \subseteq ConnIds /\ cs \in [DOMAIN cs -> Connection]

JobsOK == job \in [Jobs -> Job]
SitesOK == site \in [Origins -> Site]
ProbesOK == probes \subseteq Probe
WorkOK == work \subseteq Request /\ IsFiniteSet(work)
AgendaOK == agenda \in Seq(Task)
ConnsOK == Typed(conns) /\ Counted(conns, work)

ConnectionsInv == JobsOK /\ SitesOK /\ ProbesOK /\ WorkOK /\ AgendaOK /\ ConnsOK

\* A connection that goes has no request, or one or a probe of its own goes with it.
Spared ==
  \A c \in DOMAIN conns \ DOMAIN conns' :
    conns[c].load = 0 \/ \E t \in probes \cup work : t.conn = c /\ t \notin probes' \cup work'

-----------------------------------------------------------------------------
(***************************************************************************)
(* The operators.                                                          *)
(***************************************************************************)
LEMMA Constants ==
  /\ Jobs \subseteq Nat \ {0} /\ Origins \subseteq Nat \ {0} /\ ConnIds \subseteq Nat \ {0}
  /\ 1 \in Origins /\ IsFiniteSet(Jobs) /\ Pieces \in Nat /\ MaxProbes \in Nat
BY ConnectionsAssumption

LEMMA MinIn ==
  ASSUME NEW S, S \subseteq Nat, S # {} PROVE Min(S) \in S
<1>0. OpToRel(<, Nat) = {ss \in Nat \X Nat : ss[1] < ss[2]} BY Zenon DEF OpToRel
<1>1. PICK x \in S : \A y \in S : ~(<<y, x>> \in {ss \in Nat \X Nat : ss[1] < ss[2]})
  BY <1>0, NatLessThanWellFounded, WFMin
<1>2. ASSUME NEW y \in S PROVE x =< y
  <2>1. <<y, x>> \in Nat \X Nat /\ <<y, x>>[1] = y /\ <<y, x>>[2] = x OBVIOUS
  <2>2. ~(y < x) BY <1>1, <2>1
  <2> QED BY <2>2
<1> QED BY <1>2 DEF Min

LEMMA WaitingType ==
  ASSUME NEW cs, NEW o PROVE WaitingJob(cs, o) \in Jobs \cup {None}
<1>1. PICK C : C = {j \in Jobs : job[j].origin = o /\ ~HasProbe(cs, j) /\ job[j].phase = "created"} OBVIOUS
<1>2. PICK P : P = {j \in Jobs : job[j].origin = o /\ ~HasProbe(cs, j) /\ job[j].phase = "probing"} OBVIOUS
<1>3. C \subseteq Jobs /\ P \subseteq Jobs /\ Jobs \subseteq Nat BY <1>1, <1>2, Constants
<1>4. /\ {j \in {k \in Jobs : job[k].origin = o /\ ~HasProbe(cs, k)} : job[j].phase = "created"} = C
      /\ {j \in {k \in Jobs : job[k].origin = o /\ ~HasProbe(cs, k)} : job[j].phase = "probing"} = P
  BY <1>1, <1>2
<1>5. WaitingJob(cs, o) = CASE C # {} -> Min(C)
                            [] C = {} /\ P # {} -> Min(P)
                            [] OTHER -> None
  BY <1>4, Zenon DEF WaitingJob
<1>6. CASE C # {} BY <1>3, <1>5, <1>6, MinIn
<1>7. CASE C = {} /\ P # {} BY <1>3, <1>5, <1>7, MinIn
<1>8. CASE C = {} /\ P = {} BY <1>5, <1>8
<1> QED BY <1>6, <1>7, <1>8

LEMMA PreferType ==
  ASSUME NEW s PROVE PreferH3(s) \subseteq BOOLEAN
<1>1. CASE s.h3 = "no" BY <1>1 DEF PreferH3
<1>2. CASE s.h3 = "yes" BY <1>2 DEF PreferH3
<1>3. CASE s.h3 # "no" /\ s.h3 # "yes" BY <1>3 DEF PreferH3
<1> QED BY <1>1, <1>2, <1>3

LEMMA ProbeOnType ==
  ASSUME NEW ps, ps \subseteq Probe, NEW j \in Jobs, NEW c \in ConnIds, NEW up \in BOOLEAN
  PROVE  ProbeOn(ps, j, c, up) \subseteq Probe
<1>1. PICK free : free = (1 .. MaxProbes) \ {p.n : p \in {q \in ps : q.job = j /\ q.conn = c}} OBVIOUS
<1>2. ProbeOn(ps, j, c, up) = IF free = {} THEN ps
                              ELSE ps \cup {[job |-> j, conn |-> c, n |-> Min(free), up |-> up]}
  BY <1>1 DEF ProbeOn
<1>3. CASE free = {} BY <1>2, <1>3
<1>4. CASE free # {}
  <2>1. free \subseteq Nat BY <1>1, Constants
  <2>2. Min(free) \in Nat BY <1>4, <2>1, MinIn
  <2> QED BY <1>2, <1>4, <2>2 DEF Probe
<1> QED BY <1>3, <1>4

\* A probe is not a request.
LEMMA Disjoint ==
  ASSUME NEW p \in Probe PROVE p \notin Request
<1> SUFFICES ASSUME p \in Request PROVE FALSE OBVIOUS
<1>1. DOMAIN p = {"job", "conn", "n", "up"} BY DEF Probe
<1>2. DOMAIN p = {"job", "conn", "live"} BY DEF Request
<1> QED BY <1>1, <1>2

LEMMA AgendaType ==
  /\ \A o \in Origins : /\ Do("ensure", o) \in Task /\ Do("scale", o) \in Task /\ Do("open", o) \in Task
                        /\ Do("opentcp", o) \in Task /\ Do("opennone", o) \in Task
                        /\ Do("openwaiting", o) \in Task /\ Do("dial", o) \in Task
                        /\ Do("pump", o) \in Task /\ Do("trial", o) \in Task
  /\ \A j \in Jobs : Do("fail", j) \in Task /\ Do("commit", j) \in Task /\ Do("refresh", j) \in Task
BY DEF Task, Do

LEMMA Seqs ==
  /\ <<>> \in Seq(Task)
  /\ \A a \in Task : <<a>> \in Seq(Task)
  /\ \A a, b \in Task : <<a, b>> \in Seq(Task)
  /\ \A a, b, c \in Task : <<a, b, c>> \in Seq(Task)
  /\ \A s, t \in Seq(Task) : s \o t \in Seq(Task)
  /\ \A s \in Seq(Task), a \in Task : Append(s, a) \in Seq(Task)
  /\ \A s \in Seq(Task) : s # <<>> => Head(s) \in Task /\ Tail(s) \in Seq(Task)
OBVIOUS

\* A task names what its operation is about.
LEMMA OnWhat ==
  ASSUME NEW t \in Task
  PROVE  /\ t.do \in {"fail", "commit", "refresh"} => t.on \in Jobs
         /\ t.do \notin {"fail", "commit", "refresh"} => t.on \in Origins
BY DEF Task

LEMMA DropCounted ==
  ASSUME NEW cs, NEW wk, Typed(cs), Counted(cs, wk), NEW S
  PROVE  /\ Typed(Drop(cs, S)) /\ Counted(Drop(cs, S), wk) /\ DOMAIN Drop(cs, S) = DOMAIN cs \ S
         /\ \A c \in DOMAIN cs \ S : Drop(cs, S)[c] = cs[c]
<1>1. Drop(cs, S) = [c \in DOMAIN cs \ S |-> cs[c]] BY DEF Drop, Restrict
<1>2. Typed(Drop(cs, S)) BY <1>1 DEF Typed
<1>3. Counted(Drop(cs, S), wk) BY <1>1 DEF Counted
<1> QED BY <1>1, <1>2, <1>3

LEMMA SameConns ==
  ASSUME ConnectionsInv, UNCHANGED <<conns, work>> PROVE WorkOK' /\ ConnsOK' /\ Spared
BY DEF ConnectionsInv, WorkOK, ConnsOK, Typed, Counted, Spared

LEMMA MoreConns ==
  ASSUME DOMAIN conns \subseteq DOMAIN conns' PROVE Spared
BY DEF Spared

LEMMA SameWork ==
  ASSUME ConnectionsInv, UNCHANGED work PROVE WorkOK'
BY DEF ConnectionsInv, WorkOK

LEMMA DialKeeps ==
  ASSUME ConnectionsInv, NEW o \in Origins, NEW prefer, prefer \subseteq BOOLEAN, Dial(o, prefer), UNCHANGED work
  PROVE  /\ ConnsOK' /\ Min(Unused) \in ConnIds /\ Spared
<1>1. PICK new : new = Min(Unused) OBVIOUS
<1>2. Unused \subseteq ConnIds /\ Unused \subseteq Nat BY Constants DEF Unused
<1>3. new \in Unused BY <1>1, <1>2, MinIn DEF Dial
<1>4. new \in ConnIds /\ new \notin DOMAIN conns /\ \A w \in work : w.conn # new BY <1>2, <1>3 DEF Unused
<1>5. PICK i : i = WaitingJob(conns, o) OBVIOUS
<1>6. i \in Jobs \cup {Pool} BY <1>5, WaitingType DEF None, Pool
<1>7. PICK h \in BOOLEAN :
        conns' = [c \in DOMAIN conns \cup {new} |->
                    IF c \in DOMAIN conns THEN conns[c]
                    ELSE [origin |-> o, status |-> "connecting", up |-> FALSE, intent |-> i, h3 |-> h, load |-> 0]]
  BY <1>1, <1>5 DEF Dial
<1>8. [origin |-> o, status |-> "connecting", up |-> FALSE, intent |-> i, h3 |-> h, load |-> 0] \in Connection
  BY <1>6 DEF Connection
<1>9. DOMAIN conns' = DOMAIN conns \cup {new} /\ \A c \in DOMAIN conns : conns'[c] = conns[c] BY <1>7
<1>10. conns'[new].status = "connecting" /\ conns'[new].up = FALSE /\ conns'[new].load = 0 BY <1>4, <1>7
<1>11. Typed(conns')
  <2>1. Typed(conns) BY DEF ConnectionsInv, ConnsOK
  <2> QED BY <1>4, <1>7, <1>8, <2>1 DEF Typed
<1>12. Counted(conns', work')
  <2>1. Counted(conns, work) BY DEF ConnectionsInv, ConnsOK
  <2>2. ASSUME NEW c \in DOMAIN conns'
        PROVE  /\ conns'[c].load = 0 <=> \A w \in work' : w.conn # c
               /\ \A v, w \in work' : v.conn = c /\ w.conn = c => v = w
               /\ conns'[c].status = "connecting" => ~conns'[c].up
               /\ conns'[c].status = "ready" => conns'[c].up
               /\ ~conns'[c].up => conns'[c].load = 0
    <3>1. CASE c = new BY <1>4, <1>10, <3>1
    <3>2. CASE c \in DOMAIN conns
      <4>1. conns'[c] = conns[c] BY <1>9, <3>2
      <4> QED BY <2>1, <3>2, <4>1 DEF Counted
    <3> QED BY <1>9, <3>1, <3>2
  <2> QED BY <2>2 DEF Counted
<1> QED BY <1>1, <1>4, <1>9, <1>11, <1>12, MoreConns DEF ConnsOK

LEMMA JobFields ==
  ASSUME NEW r \in Job
  PROVE  /\ r.origin \in Origins /\ r.tries \in Nat /\ r.hops \in Nat /\ r.refreshes \in Nat
         /\ r.left \in Nat /\ r.deferred \in Nat /\ r.retries \in Nat
         /\ \A x \in Live \cup {"new", "gone"} : [r EXCEPT !.phase = x] \in Job
         /\ \A x \in BOOLEAN : [r EXCEPT !.planned = x] \in Job
         /\ \A x \in Origins : [r EXCEPT !.origin = x] \in Job
         /\ \A x \in Nat : [r EXCEPT !.left = x] \in Job /\ [r EXCEPT !.tries = x] \in Job
BY DEF Job

LEMMA SiteFields ==
  ASSUME NEW s \in Site
  PROVE  /\ s.h3 \in {"no", "yes", "backoff"} /\ s.trial \in ConnIds \cup {None}
         /\ s.resolving \in Nat /\ s.cooldown \in Nat /\ s.resolve \in Nat /\ s.stagger \in Nat
         /\ Advertised(s) \in Site
BY DEF Site, Advertised

LEMMA PhaseKeeps ==
  ASSUME JobsOK, NEW j \in Jobs, NEW x \in Live \cup {"new", "gone"}, job' = [job EXCEPT ![j].phase = x]
  PROVE  JobsOK'
BY JobFields DEF JobsOK

LEMMA FinishKeeps ==
  ASSUME JobsOK, NEW j \in Jobs, NEW rest \in Seq(Task), Finish(j, rest)
  PROVE  JobsOK' /\ AgendaOK'
<1>1. [NewJob EXCEPT !.phase = "gone"] \in Job BY Constants DEF NewJob, Job
<1>2. JobsOK' BY <1>1 DEF JobsOK, Finish
<1>3. job[j].origin \in Origins BY JobFields DEF JobsOK
<1>4. <<Do("ensure", job[j].origin)>> \in Seq(Task) BY <1>3, AgendaType, Seqs
<1>5. AgendaOK' BY <1>4, Seqs DEF AgendaOK, Finish
<1> QED BY <1>2, <1>5

LEMMA DrainKeeps ==
  ASSUME JobsOK, NEW j \in Jobs, NEW wk, NEW rest \in Seq(Task), Drain(j, wk, rest)
  PROVE  JobsOK' /\ AgendaOK'
<1>1. CASE InFlight(wk, j) = {} BY <1>1, FinishKeeps DEF Drain
<1>2. CASE InFlight(wk, j) # {}
  <2>1. job' = [job EXCEPT ![j].phase = "draining"] /\ agenda' = rest BY <1>2 DEF Drain
  <2> QED BY <2>1, PhaseKeeps DEF AgendaOK, Live
<1> QED BY <1>1, <1>2

LEMMA RetryKeeps ==
  ASSUME JobsOK, AgendaOK, NEW j \in Jobs, NEW sites \in [Origins -> Site], RetryResolve(j, sites)
  PROVE  JobsOK' /\ SitesOK' /\ AgendaOK'
<1>1. CASE job[j].tries >= MaxTries
  <2>1. Finish(j, <<>>) /\ site' = sites BY <1>1 DEF RetryResolve
  <2> QED BY <2>1, FinishKeeps, Seqs DEF SitesOK
<1>2. CASE ~(job[j].tries >= MaxTries)
  <2>1. /\ job' = [job EXCEPT ![j].tries = @ + 1]
        /\ site' = [sites EXCEPT ![job[j].origin].resolve = @ + 1] /\ agenda' = agenda
    BY <1>2 DEF RetryResolve
  <2>2. JobsOK' BY <2>1 DEF JobsOK, Job
  <2>3. PICK o \in Origins : o = job[j].origin BY JobFields DEF JobsOK
  <2>4. [sites[o] EXCEPT !.resolve = @ + 1] \in Site BY DEF Site
  <2>5. SitesOK' BY <2>1, <2>3, <2>4 DEF SitesOK
  <2> QED BY <2>1, <2>2, <2>5 DEF AgendaOK
<1> QED BY <1>1, <1>2

LEMMA CoolKeeps ==
  ASSUME SitesOK, NEW o \in Origins PROVE CoolDown(o) \in [Origins -> Site]
<1>1. PICK s : s = [site EXCEPT ![o].cooling = TRUE] OBVIOUS
<1>2. s \in [Origins -> Site] BY <1>1 DEF SitesOK, Site
<1>3. [s EXCEPT ![o].cooldown = @ + 1] \in [Origins -> Site] BY <1>2 DEF Site
<1>4. CoolDown(o) = [s EXCEPT ![o].cooldown = @ + 1] BY <1>1, <1>2 DEF SitesOK, CoolDown
<1> QED BY <1>3, <1>4

LEMMA OrphanType ==
  ASSUME WorkOK, NEW j PROVE Orphan(j) \subseteq Request /\ IsFiniteSet(Orphan(j))
<1>1. Orphan(j) \subseteq Request BY DEF WorkOK, Orphan, Request
<1>2. PICK f : f = [w \in work |-> [w EXCEPT !.live = w.live /\ w.job # j]] OBVIOUS
<1>3. f \in [work -> Orphan(j)] BY <1>2 DEF Orphan
<1>4. \A t \in Orphan(j) : \E w \in work : f[w] = t BY <1>2 DEF Orphan
<1>5. f \in Surjection(work, Orphan(j)) BY <1>3, <1>4 DEF Surjection
<1> QED BY <1>1, <1>5, FS_Surjection DEF WorkOK

LEMMA OrphanMember ==
  ASSUME WorkOK, NEW j
  PROVE  /\ \A t \in Orphan(j) : \E w \in work :
              /\ t.conn = w.conn /\ t = [w EXCEPT !.live = w.live /\ w.job # j]
              /\ t = w \/ t = [w EXCEPT !.live = FALSE]
         /\ \A w \in work : \E t \in Orphan(j) : t.conn = w.conn
<1>1. ASSUME NEW w \in work, NEW t, t = [w EXCEPT !.live = w.live /\ w.job # j]
      PROVE  t.conn = w.conn /\ (t = w \/ t = [w EXCEPT !.live = FALSE])
  <2>1. w \in Request BY DEF WorkOK
  <2>2. CASE w.live /\ w.job # j
    <3>1. w = [w EXCEPT !.live = TRUE] BY <2>1, <2>2 DEF Request
    <3> QED BY <1>1, <2>1, <2>2, <3>1 DEF Request
  <2>3. CASE ~(w.live /\ w.job # j) BY <1>1, <2>1, <2>3 DEF Request
  <2> QED BY <2>2, <2>3
<1>2. ASSUME NEW t \in Orphan(j)
      PROVE  \E w \in work :
               /\ t.conn = w.conn /\ t = [w EXCEPT !.live = w.live /\ w.job # j]
               /\ t = w \/ t = [w EXCEPT !.live = FALSE]
  <2>1. PICK w \in work : t = [w EXCEPT !.live = w.live /\ w.job # j] BY DEF Orphan
  <2> QED BY <1>1, <2>1
<1>3. ASSUME NEW w \in work PROVE \E t \in Orphan(j) : t.conn = w.conn
  <2>1. PICK t : t = [w EXCEPT !.live = w.live /\ w.job # j] OBVIOUS
  <2>2. t \in Orphan(j) BY <2>1 DEF Orphan
  <2> QED BY <1>1, <2>1, <2>2
<1> QED BY <1>2, <1>3

LEMMA OrphanCounted ==
  ASSUME WorkOK, NEW j, NEW cs, Counted(cs, work) PROVE Counted(cs, Orphan(j))
<1> SUFFICES ASSUME NEW c \in DOMAIN cs
             PROVE  /\ (\A w \in Orphan(j) : w.conn # c) <=> \A w \in work : w.conn # c
                    /\ \A v, w \in Orphan(j) : v.conn = c /\ w.conn = c => v = w
  BY DEF Counted
<1>1. (\A w \in Orphan(j) : w.conn # c) <=> \A w \in work : w.conn # c BY OrphanMember
<1>2. ASSUME NEW v \in Orphan(j), NEW w \in Orphan(j), v.conn = c, w.conn = c PROVE v = w
  <2>1. PICK x \in work : v.conn = x.conn /\ v = [x EXCEPT !.live = x.live /\ x.job # j] BY OrphanMember
  <2>2. PICK y \in work : w.conn = y.conn /\ w = [y EXCEPT !.live = y.live /\ y.job # j] BY OrphanMember
  <2>3. x = y BY <1>2, <2>1, <2>2 DEF Counted
  <2> QED BY <2>1, <2>2, <2>3
<1> QED BY <1>1, <1>2

\* What a report gives back.
LEMMA ReleasedCounted ==
  ASSUME ConnectionsInv, NEW w \in work, NEW wk, Counted(conns, wk),
         NEW gone, gone \subseteq wk \/ gone \subseteq Request, \A x \in gone : x.conn = w.conn,
         w.conn \in DOMAIN conns => \A x \in wk : x.conn = w.conn => x \in gone
  PROVE  /\ Typed(Released(w.conn)) /\ Counted(Released(w.conn), wk \ gone)
         /\ DOMAIN Released(w.conn) = DOMAIN conns
<1>1. Typed(conns) /\ Counted(conns, work) BY DEF ConnectionsInv, ConnsOK
<1>2. CASE w.conn \notin DOMAIN conns
  <2>1. Released(w.conn) = conns BY <1>2 DEF Released
  <2>2. ASSUME NEW c \in DOMAIN conns PROVE \A x \in wk : x.conn = c => x \in wk \ gone BY <1>2
  <2>3. Counted(conns, wk \ gone) BY <2>2 DEF Counted
  <2> QED BY <1>1, <2>1, <2>3
<1>3. CASE w.conn \in DOMAIN conns
  <2>0. PICK c \in DOMAIN conns : c = w.conn BY <1>3
  <2>1. conns[c] \in Connection /\ conns[c].load # 0 BY <1>1, <2>0 DEF Typed, Counted
  <2>2. conns[c].load = 1 BY <2>1 DEF Connection
  <2>3. PICK cs : cs = [conns EXCEPT ![c].load = @ - 1] OBVIOUS
  <2>4. Released(w.conn) = cs BY <2>0, <2>3 DEF Released
  <2>5. /\ DOMAIN cs = DOMAIN conns /\ cs[c] = [conns[c] EXCEPT !.load = 0]
        /\ \A d \in DOMAIN conns : d # c => cs[d] = conns[d]
    BY <1>1, <2>2, <2>3 DEF Typed
  <2>6. [conns[c] EXCEPT !.load = 0] \in Connection BY <2>1 DEF Connection
  <2>7. Typed(cs) BY <1>1, <2>3, <2>5, <2>6 DEF Typed
  <2>8. /\ cs[c].load = 0 /\ cs[c].status = conns[c].status /\ cs[c].up = conns[c].up
    BY <2>1, <2>5 DEF Connection
  <2>9. ASSUME NEW d \in DOMAIN cs
        PROVE  /\ cs[d].load = 0 <=> \A x \in wk \ gone : x.conn # d
               /\ \A v, x \in wk \ gone : v.conn = d /\ x.conn = d => v = x
               /\ cs[d].status = "connecting" => ~cs[d].up
               /\ cs[d].status = "ready" => cs[d].up
               /\ ~cs[d].up => cs[d].load = 0
    <3>1. CASE d = c
      <4>1. \A x \in wk \ gone : x.conn # d BY <2>0, <3>1
      <4> QED BY <2>8, <3>1, <4>1 DEF Counted
    <3>2. CASE d # c
      <4>1. cs[d] = conns[d] /\ d \in DOMAIN conns BY <2>5, <3>2
      <4>2. \A x \in wk : x.conn = d => x \in wk \ gone BY <2>0, <3>2
      <4> QED BY <4>1, <4>2 DEF Counted
    <3> QED BY <3>1, <3>2
  <2>10. Counted(cs, wk \ gone) BY <2>9 DEF Counted
  <2> QED BY <2>4, <2>5, <2>7, <2>10
<1> QED BY <1>2, <1>3

LEMMA InFlightSize ==
  ASSUME WorkOK, NEW S, NEW j PROVE Cardinality(InFlight(work \ S, j)) \in Nat
<1>1. InFlight(work \ S, j) \in SUBSET work BY DEF InFlight
<1> QED BY <1>1, FS_Subset, FS_CardinalityType DEF WorkOK

LEMMA Parts ==
  ASSUME ConnectionsInv PROVE JobsOK /\ SitesOK /\ ProbesOK /\ WorkOK /\ AgendaOK /\ ConnsOK
BY DEF ConnectionsInv

LEMMA JobOrigin ==
  ASSUME ConnectionsInv, NEW j \in Jobs PROVE job[j] \in Job /\ job[j].origin \in Origins
BY JobFields DEF ConnectionsInv, JobsOK

LEMMA Keys ==
  ASSUME ConnectionsInv, NEW c \in DOMAIN conns
  PROVE  c \in ConnIds /\ c \in Nat /\ conns[c] \in Connection
BY Constants DEF ConnectionsInv, ConnsOK, Typed

LEMMA SameCounts ==
  ASSUME ConnectionsInv, UNCHANGED work, Typed(conns'), DOMAIN conns' = DOMAIN conns,
         \A c \in DOMAIN conns : /\ conns'[c].load = conns[c].load /\ conns'[c].status = conns[c].status
                                 /\ conns'[c].up = conns[c].up
  PROVE  ConnsOK' /\ Spared
<1>1. Counted(conns', work')
  <2>1. Counted(conns, work) BY DEF ConnectionsInv, ConnsOK
  <2> QED BY <2>1 DEF Counted
<1> QED BY <1>1, MoreConns DEF ConnsOK

LEMMA HandlerFacts ==
  ASSUME ConnectionsInv, agenda # <<>>
  PROVE  /\ Rest \in Seq(Task)
         /\ Head(agenda).do \in {"fail", "commit", "refresh"} => Here \in Jobs
         /\ Head(agenda).do \notin {"fail", "commit", "refresh"} => Here \in Origins
<1>1. Head(agenda) \in Task /\ Tail(agenda) \in Seq(Task) BY Seqs DEF ConnectionsInv, AgendaOK
<1> QED BY <1>1, OnWhat DEF Here, Rest

-----------------------------------------------------------------------------
(***************************************************************************)
(* The steps of a handler.                                                 *)
(***************************************************************************)
LEMMA EnsureProbesKeeps ==
  ASSUME ConnectionsInv, EnsureProbes PROVE ConnectionsInv' /\ Spared
<1>1. agenda # <<>> /\ Head(agenda).do = "ensure" BY DEF EnsureProbes, Step
<1>2. Rest \in Seq(Task) /\ Here \in Origins BY <1>1, HandlerFacts
<1>3. site' = site /\ work' = work BY DEF EnsureProbes
<1>4. SitesOK' /\ WorkOK' BY <1>3, Parts DEF SitesOK, WorkOK
<1>5. PICK j : j = WaitingJob(conns, Here) OBVIOUS
<1>6. j \in Jobs \cup {None} BY <1>5, WaitingType
<1>7. CASE agenda' = Rest /\ UNCHANGED <<job, conns, probes>>
  <2>1. AgendaOK' /\ JobsOK' /\ ProbesOK' BY <1>2, <1>7, Parts DEF AgendaOK, JobsOK, ProbesOK
  <2> QED BY <1>3, <1>4, <1>7, <2>1, SameConns DEF ConnectionsInv
<1>8. CASE /\ j # None /\ job' = [job EXCEPT ![j].phase = "probing"] /\ agenda' = agenda
           /\ \/ /\ WithRoom(Here) # {}
                 /\ conns' = [conns EXCEPT ![Min(WithRoom(Here))].intent = j]
                 /\ probes' = ProbeOn(probes, j, Min(WithRoom(Here)), TRUE)
              \/ Dial(Here, PreferH3(site[Here])) /\ UNCHANGED probes
  <2>1. j \in Jobs BY <1>6, <1>8
  <2>2. JobsOK' /\ AgendaOK' BY <1>8, <2>1, PhaseKeeps, Parts DEF AgendaOK, Live
  <2>3. CASE /\ WithRoom(Here) # {}
             /\ conns' = [conns EXCEPT ![Min(WithRoom(Here))].intent = j]
             /\ probes' = ProbeOn(probes, j, Min(WithRoom(Here)), TRUE)
    <3>1. WithRoom(Here) \subseteq DOMAIN conns BY DEF WithRoom, Ready, At
    <3>2. WithRoom(Here) \subseteq Nat BY <3>1, Keys
    <3>3. PICK m : m = Min(WithRoom(Here)) OBVIOUS
    <3>4. m \in DOMAIN conns BY <2>3, <3>1, <3>2, <3>3, MinIn
    <3>5. m \in ConnIds /\ conns[m] \in Connection BY <3>4, Keys
    <3>6. ProbesOK' BY <2>1, <2>3, <3>3, <3>5, ProbeOnType, Parts DEF ProbesOK
    <3>7. conns' = [conns EXCEPT ![m].intent = j] BY <2>3, <3>3
    <3>8. [conns[m] EXCEPT !.intent = j] \in Connection BY <2>1, <3>5 DEF Connection
    <3>9. Typed(conns') /\ DOMAIN conns' = DOMAIN conns BY <3>4, <3>7, <3>8, Parts DEF ConnsOK, Typed
    <3>10. \A c \in DOMAIN conns : /\ conns'[c].load = conns[c].load /\ conns'[c].status = conns[c].status
                                   /\ conns'[c].up = conns[c].up
      BY <3>7, Parts, Keys DEF Connection, ConnsOK, Typed
    <3> QED BY <1>3, <1>4, <2>2, <3>6, <3>9, <3>10, SameCounts DEF ConnectionsInv
  <2>4. CASE Dial(Here, PreferH3(site[Here])) /\ UNCHANGED probes
    <3>1. ConnsOK' /\ Spared BY <1>2, <1>3, <2>4, DialKeeps, PreferType
    <3>2. ProbesOK' BY <2>4, Parts DEF ProbesOK
    <3> QED BY <1>4, <2>2, <3>1, <3>2 DEF ConnectionsInv
  <2> QED BY <1>8, <2>3, <2>4
<1> QED BY <1>5, <1>7, <1>8 DEF EnsureProbes

LEMMA OpenConnectionKeeps ==
  ASSUME ConnectionsInv, OpenConnection PROVE ConnectionsInv' /\ Spared
<1>1. /\ agenda # <<>> /\ Head(agenda).do \notin {"fail", "commit", "refresh"} /\ agenda' = Rest
      /\ UNCHANGED <<job, site, probes, work>>
  BY DEF OpenConnection, Quiet
<1>2. Rest \in Seq(Task) /\ Here \in Origins BY <1>1, HandlerFacts
<1>3. SitesOK' /\ WorkOK' /\ JobsOK' /\ ProbesOK' /\ AgendaOK'
  BY <1>1, <1>2, Parts DEF SitesOK, WorkOK, JobsOK, ProbesOK, AgendaOK
<1>4. Dial(Here, {FALSE}) \/ Dial(Here, PreferH3(site[Here])) \/ UNCHANGED conns BY DEF OpenConnection
<1>5. CASE UNCHANGED conns BY <1>1, <1>3, <1>5, SameConns DEF ConnectionsInv
<1>6. CASE Dial(Here, {FALSE})
  <2>1. ConnsOK' /\ Spared BY <1>1, <1>2, <1>6, DialKeeps
  <2> QED BY <1>3, <2>1 DEF ConnectionsInv
<1>7. CASE Dial(Here, PreferH3(site[Here]))
  <2>1. ConnsOK' /\ Spared BY <1>1, <1>2, <1>7, DialKeeps, PreferType
  <2> QED BY <1>3, <2>1 DEF ConnectionsInv
<1> QED BY <1>4, <1>5, <1>6, <1>7

LEMMA PumpKeeps ==
  ASSUME ConnectionsInv, Pump PROVE ConnectionsInv' /\ Spared
<1>1. agenda # <<>> /\ Head(agenda).do = "pump" /\ UNCHANGED <<site, probes>> BY DEF Pump, Step
<1>2. Rest \in Seq(Task) BY <1>1, HandlerFacts
<1>3. SitesOK' /\ ProbesOK' BY <1>1, Parts DEF SitesOK, ProbesOK
<1>4. CASE agenda' = Rest /\ UNCHANGED <<job, conns, work>>
  <2>1. JobsOK' /\ AgendaOK' BY <1>2, <1>4, Parts DEF JobsOK, AgendaOK
  <2> QED BY <1>3, <1>4, <2>1, SameConns DEF ConnectionsInv
<1>5. ASSUME NEW j \in Wanting(Here), NEW c \in WithRoom(Here), agenda' = agenda,
             job' = [job EXCEPT ![j].left = @ - 1], conns' = [conns EXCEPT ![c].load = @ + 1],
             work' = work \cup {[job |-> j, conn |-> c, live |-> TRUE]}
      PROVE  ConnectionsInv' /\ Spared
  <2>1. j \in Jobs /\ job[j].left > 0 BY DEF Wanting
  <2>2. c \in DOMAIN conns /\ conns[c].status = "ready" /\ conns[c].load = 0 BY DEF WithRoom, Ready, At
  <2>3. c \in ConnIds /\ conns[c] \in Connection BY <2>2, Keys
  <2>4. job[j] \in Job BY <2>1, JobOrigin
  <2>5. [job[j] EXCEPT !.left = @ - 1] \in Job BY <2>1, <2>4 DEF Job
  <2>6. JobsOK' BY <1>5, <2>1, <2>5, Parts DEF JobsOK
  <2>7. AgendaOK' BY <1>5, Parts DEF AgendaOK
  <2>8. PICK r : r = [job |-> j, conn |-> c, live |-> TRUE] OBVIOUS
  <2>9. r \in Request /\ r.conn = c BY <2>1, <2>3, <2>8 DEF Request
  <2>10. work' = work \cup {r} BY <1>5, <2>8
  <2>11. WorkOK' BY <2>9, <2>10, FS_AddElement, Parts DEF WorkOK
  <2>12. Typed(conns) /\ Counted(conns, work) BY Parts DEF ConnsOK
  <2>13. /\ [conns[c] EXCEPT !.load = @ + 1] \in Connection
         /\ [conns[c] EXCEPT !.load = @ + 1] = [conns[c] EXCEPT !.load = 1]
    BY <2>2, <2>3 DEF Connection
  <2>14. /\ DOMAIN conns' = DOMAIN conns /\ conns'[c] = [conns[c] EXCEPT !.load = 1]
         /\ \A d \in DOMAIN conns : d # c => conns'[d] = conns[d]
    BY <1>5, <2>2, <2>12, <2>13 DEF Typed
  <2>15. Typed(conns') BY <1>5, <2>2, <2>12, <2>13 DEF Typed
  <2>16. conns'[c].load = 1 /\ conns'[c].status = "ready" /\ conns'[c].up = conns[c].up
    BY <2>2, <2>3, <2>14 DEF Connection
  <2>17. conns[c].up /\ \A w \in work : w.conn # c BY <2>2, <2>12 DEF Counted
  <2>18. ASSUME NEW d \in DOMAIN conns'
         PROVE  /\ conns'[d].load = 0 <=> \A w \in work' : w.conn # d
                /\ \A v, w \in work' : v.conn = d /\ w.conn = d => v = w
                /\ conns'[d].status = "connecting" => ~conns'[d].up
                /\ conns'[d].status = "ready" => conns'[d].up
                /\ ~conns'[d].up => conns'[d].load = 0
    <3>1. CASE d = c
      <4>1. \A w \in work' : w.conn = c => w = r BY <2>10, <2>17
      <4>2. r \in work' BY <2>10
      <4>3. conns'[d].load # 0 /\ conns'[d].status # "connecting" BY <2>16, <3>1
      <4>4. conns'[d].up BY <2>16, <2>17, <3>1, Zenon
      <4> QED BY <2>9, <3>1, <4>1, <4>2, <4>3, <4>4
    <3>2. CASE d # c
      <4>1. conns'[d] = conns[d] /\ d \in DOMAIN conns BY <2>14, <3>2
      <4>2. \A w \in work' : w.conn = d => w \in work BY <2>9, <2>10, <3>2
      <4>3. work \subseteq work' BY <2>10
      <4> QED BY <2>12, <4>1, <4>2, <4>3 DEF Counted
    <3> QED BY <3>1, <3>2
  <2>19. Counted(conns', work') BY <2>18 DEF Counted
  <2> QED BY <1>3, <2>6, <2>7, <2>11, <2>14, <2>15, <2>19, MoreConns DEF ConnectionsInv, ConnsOK
<1> QED BY <1>4, <1>5 DEF Pump

LEMMA BeginFailKeeps ==
  ASSUME ConnectionsInv, BeginFail PROVE ConnectionsInv' /\ Spared
<1>1. agenda # <<>> /\ Head(agenda).do = "fail" /\ UNCHANGED <<site, conns, probes, work>> BY DEF BeginFail, Step
<1>2. Rest \in Seq(Task) /\ Here \in Jobs BY <1>1, HandlerFacts
<1>3. SitesOK' /\ ProbesOK' BY <1>1, Parts DEF SitesOK, ProbesOK
<1>4. CASE agenda' = Rest /\ UNCHANGED job
  <2>1. JobsOK' /\ AgendaOK' BY <1>2, <1>4, Parts DEF JobsOK, AgendaOK
  <2> QED BY <1>1, <1>3, <2>1, SameConns DEF ConnectionsInv
<1>5. CASE Drain(Here, work, Rest)
  <2>1. JobsOK' /\ AgendaOK' BY <1>2, <1>5, DrainKeeps, Parts
  <2> QED BY <1>1, <1>3, <2>1, SameConns DEF ConnectionsInv
<1> QED BY <1>4, <1>5 DEF BeginFail

LEMMA CommitKeeps ==
  ASSUME ConnectionsInv, CommitAtOnce PROVE ConnectionsInv' /\ Spared
<1>1. /\ agenda # <<>> /\ Head(agenda).do = "commit" /\ UNCHANGED <<site, conns, probes, work>>
      /\ job' = [job EXCEPT ![Here].phase = "committing"] /\ agenda' = Rest
  BY DEF CommitAtOnce, Step
<1>2. Rest \in Seq(Task) /\ Here \in Jobs BY <1>1, HandlerFacts
<1>3. SitesOK' /\ ProbesOK' /\ AgendaOK' BY <1>1, <1>2, Parts DEF SitesOK, ProbesOK, AgendaOK
<1>4. JobsOK' BY <1>1, <1>2, PhaseKeeps, Parts DEF Live
<1> QED BY <1>1, <1>3, <1>4, SameConns DEF ConnectionsInv

LEMMA SourceRefreshedKeeps ==
  ASSUME ConnectionsInv, SourceRefreshed PROVE ConnectionsInv' /\ Spared
<1>1. agenda # <<>> /\ Head(agenda).do = "refresh" /\ UNCHANGED <<site, conns, probes, work>>
  BY DEF SourceRefreshed, Step
<1>2. Rest \in Seq(Task) /\ Here \in Jobs BY <1>1, HandlerFacts
<1>3. SitesOK' /\ ProbesOK' BY <1>1, Parts DEF SitesOK, ProbesOK
<1>4. CASE /\ job' = [job EXCEPT ![Here].phase = "probing", ![Here].refreshes = @ + 1]
           /\ agenda' = <<Do("open", job[Here].origin)>> \o Rest
  <2>1. job[Here] \in Job /\ job[Here].origin \in Origins BY <1>2, JobOrigin
  <2>2. PICK h \in Jobs : h = Here BY <1>2
  <2>3. PICK js : js = [job EXCEPT ![h].phase = "probing"] OBVIOUS
  <2>4. js \in [Jobs -> Job] /\ js[h].refreshes = job[h].refreshes
    BY <2>1, <2>2, <2>3, Parts DEF JobsOK, Job, Live
  <2>5. job' = [js EXCEPT ![h].refreshes = @ + 1] BY <1>4, <2>2, <2>3, <2>4, Parts DEF JobsOK
  <2>6. JobsOK' BY <2>4, <2>5 DEF JobsOK, Job
  <2>7. <<Do("open", job[Here].origin)>> \in Seq(Task) BY <2>1, AgendaType, Seqs
  <2>8. AgendaOK' BY <1>2, <1>4, <2>7, Seqs DEF AgendaOK
  <2> QED BY <1>1, <1>3, <2>6, <2>8, SameConns DEF ConnectionsInv
<1>5. CASE Finish(Here, Rest)
  <2>1. JobsOK' /\ AgendaOK' BY <1>2, <1>5, FinishKeeps, Parts
  <2> QED BY <1>1, <1>3, <2>1, SameConns DEF ConnectionsInv
<1> QED BY <1>4, <1>5 DEF SourceRefreshed

LEMMA OpenTrialKeeps ==
  ASSUME ConnectionsInv, NEW o \in Origins, NEW S, OpenTrial(o, S), UNCHANGED work
  PROVE  SitesOK' /\ ConnsOK' /\ Spared
<1>1. Dial(o, PreferH3(site[o])) /\ site' = [site EXCEPT ![o].trial = Min(Unused)] BY DEF OpenTrial
<1>2. ConnsOK' /\ Spared /\ Min(Unused) \in ConnIds BY <1>1, DialKeeps, PreferType
<1>3. PICK m \in ConnIds : m = Min(Unused) BY <1>2
<1>4. site' = [site EXCEPT ![o].trial = m] BY <1>1, <1>3
<1>5. SitesOK' BY <1>4, Parts DEF SitesOK, Site
<1> QED BY <1>2, <1>5

LEMMA EarlyTrialKeeps ==
  ASSUME ConnectionsInv, EarlyTrial PROVE ConnectionsInv' /\ Spared
<1>1. agenda # <<>> /\ Head(agenda).do = "trial" /\ UNCHANGED <<job, probes, work>> BY DEF EarlyTrial, Step
<1>2. Rest \in Seq(Task) /\ Here \in Origins BY <1>1, HandlerFacts
<1>3. JobsOK' /\ ProbesOK' /\ WorkOK' BY <1>1, Parts DEF JobsOK, ProbesOK, WorkOK
<1>4. CASE agenda' = Rest /\ UNCHANGED <<site, conns>>
  <2>1. SitesOK' /\ AgendaOK' BY <1>2, <1>4, Parts DEF SitesOK, AgendaOK
  <2> QED BY <1>1, <1>3, <1>4, <2>1, SameConns DEF ConnectionsInv
<1>5. CASE agenda' = <<Do("pump", Here)>> \o Rest /\ OpenTrial(Here, LiveAt(conns, Here))
  <2>1. <<Do("pump", Here)>> \in Seq(Task) BY <1>2, AgendaType, Seqs
  <2>2. AgendaOK' BY <1>2, <1>5, <2>1, Seqs DEF AgendaOK
  <2>3. SitesOK' /\ ConnsOK' /\ Spared BY <1>1, <1>2, <1>5, OpenTrialKeeps
  <2> QED BY <1>3, <2>2, <2>3 DEF ConnectionsInv
<1> QED BY <1>4, <1>5 DEF EarlyTrial

-----------------------------------------------------------------------------
(***************************************************************************)
(* Jobs, lookups and dials.                                                *)
(***************************************************************************)
LEMMA JobAdmittedKeeps ==
  ASSUME ConnectionsInv, NEW j \in Jobs, JobAdmitted(j) PROVE ConnectionsInv' /\ Spared
<1>1. /\ job' = [job EXCEPT ![j].phase = "created"] /\ UNCHANGED <<conns, probes, work>>
      /\ \/ agenda' = <<Do("ensure", job[j].origin)>> /\ UNCHANGED site
         \/ site' = [site EXCEPT ![job[j].origin].resolving = @ + 1] /\ UNCHANGED agenda
  BY DEF JobAdmitted
<1>2. JobsOK' /\ ProbesOK' BY <1>1, PhaseKeeps, Parts DEF Live, ProbesOK
<1>3. PICK o \in Origins : o = job[j].origin BY JobOrigin
<1>4. <<Do("ensure", o)>> \in Seq(Task) BY AgendaType, Seqs
<1>5. [site EXCEPT ![o].resolving = @ + 1] \in [Origins -> Site] BY Parts DEF SitesOK, Site
<1>6. SitesOK' /\ AgendaOK' BY <1>1, <1>3, <1>4, <1>5, Parts DEF SitesOK, AgendaOK
<1> QED BY <1>1, <1>2, <1>6, SameConns DEF ConnectionsInv

LEMMA JobEndsKeeps ==
  ASSUME ConnectionsInv, NEW j \in Jobs, JobCancelled(j) \/ JobDeadline(j) \/ DestinationAnswered(j)
  PROVE  ConnectionsInv' /\ Spared
<1>1. /\ Drain(j, work, <<>>) \/ Finish(j, <<>>)
      /\ UNCHANGED <<site, conns, probes, work>>
  BY DEF JobCancelled, JobDeadline, DestinationAnswered
<1>2. JobsOK' /\ AgendaOK' BY <1>1, FinishKeeps, DrainKeeps, Seqs, Parts
<1>3. SitesOK' /\ ProbesOK' BY <1>1, Parts DEF SitesOK, ProbesOK
<1> QED BY <1>1, <1>2, <1>3, SameConns DEF ConnectionsInv

LEMMA ResolvedKeeps ==
  ASSUME ConnectionsInv, NEW o \in Origins, Resolved(o) PROVE ConnectionsInv' /\ Spared
<1>1. UNCHANGED <<probes, work>> /\ site[o].resolving > 0 BY DEF Resolved
<1>2. WorkOK' /\ ProbesOK' BY <1>1, Parts DEF WorkOK, ProbesOK
<1>3. PICK j : j = WaitingJob(conns, o) OBVIOUS
<1>4. j \in Jobs \cup {None} BY <1>3, WaitingType
<1>5. PICK answered : answered = [site EXCEPT ![o].resolving = @ - 1] OBVIOUS
<1>6. answered \in [Origins -> Site] BY <1>1, <1>5, Parts DEF SitesOK, Site
<1>7. PICK found : found = [answered EXCEPT ![o].known = TRUE, ![o].stagger = @ + (IF j = None THEN 0 ELSE 1)]
  OBVIOUS
<1>8. found \in [Origins -> Site]
  <2>1. PICK s : s = [answered EXCEPT ![o].known = TRUE] OBVIOUS
  <2>2. s \in [Origins -> Site] BY <1>6, <2>1 DEF Site
  <2>3. PICK n \in Nat : n = s[o].stagger + (IF j = None THEN 0 ELSE 1) BY <2>2 DEF Site
  <2>4. found = [s EXCEPT ![o].stagger = n] BY <1>6, <1>7, <2>1, <2>3
  <2> QED BY <2>2, <2>4 DEF Site
<1>9. [found EXCEPT ![o] = Advertised(@)] \in [Origins -> Site] BY <1>8, SiteFields
<1>10. CASE /\ site' = found \/ site' = [found EXCEPT ![o] = Advertised(@)]
            /\ IF j = None
               THEN UNCHANGED <<job, conns, agenda>>
               ELSE /\ Dial(o, PreferH3(site'[o]))
                    /\ job' = [job EXCEPT ![j].phase = "probing", ![j].tries = 0]
                    /\ agenda' = <<Do("ensure", o)>>
  <2>1. SitesOK' BY <1>8, <1>9, <1>10 DEF SitesOK
  <2>2. CASE j = None
    <3>1. JobsOK' /\ AgendaOK' BY <1>10, <2>2, Parts DEF JobsOK, AgendaOK
    <3> QED BY <1>1, <1>2, <1>10, <2>1, <2>2, <3>1, SameConns DEF ConnectionsInv
  <2>3. CASE j # None
    <3>1. j \in Jobs BY <1>4, <2>3
    <3>2. ConnsOK' /\ Spared BY <1>1, <1>10, <2>3, DialKeeps, PreferType
    <3>3. PICK js : js = [job EXCEPT ![j].phase = "probing"] OBVIOUS
    <3>4. js \in [Jobs -> Job] BY <3>1, <3>3, Parts DEF JobsOK, Job, Live
    <3>5. job' = [js EXCEPT ![j].tries = 0] BY <1>10, <2>3, <3>1, <3>3, Parts DEF JobsOK
    <3>6. JobsOK' BY <3>4, <3>5 DEF JobsOK, Job
    <3>7. AgendaOK' BY <1>10, <2>3, AgendaType, Seqs DEF AgendaOK
    <3> QED BY <1>2, <2>1, <3>2, <3>6, <3>7 DEF ConnectionsInv
  <2> QED BY <2>2, <2>3
<1>11. CASE /\ UNCHANGED conns
            /\ IF j = None
               THEN site' = answered /\ UNCHANGED <<job, agenda>>
               ELSE RetryResolve(j, answered)
  <2>1. CASE j = None
    <3>1. SitesOK' /\ JobsOK' /\ AgendaOK' BY <1>6, <1>11, <2>1, Parts DEF SitesOK, JobsOK, AgendaOK
    <3> QED BY <1>1, <1>2, <1>11, <3>1, SameConns DEF ConnectionsInv
  <2>2. CASE j # None
    <3>1. j \in Jobs BY <1>4, <2>2
    <3>2. SitesOK' /\ JobsOK' /\ AgendaOK' BY <1>6, <1>11, <2>2, <3>1, RetryKeeps, Parts
    <3> QED BY <1>1, <1>2, <1>11, <3>2, SameConns DEF ConnectionsInv
  <2> QED BY <2>1, <2>2
<1>12. \/ /\ site' = found \/ site' = [found EXCEPT ![o] = Advertised(@)]
          /\ IF j = None
             THEN UNCHANGED <<job, conns, agenda>>
             ELSE /\ Dial(o, PreferH3(site'[o]))
                  /\ job' = [job EXCEPT ![j].phase = "probing", ![j].tries = 0]
                  /\ agenda' = <<Do("ensure", o)>>
       \/ /\ UNCHANGED conns
          /\ IF j = None
             THEN site' = answered /\ UNCHANGED <<job, agenda>>
             ELSE RetryResolve(j, answered)
  BY <1>3, <1>5, <1>7, Zenon DEF Resolved
<1> QED BY <1>10, <1>11, <1>12

\* The dials that lose a race have no request yet.
LEMMA ReadyCounted ==
  ASSUME ConnectionsInv, NEW c \in DOMAIN conns, ~conns[c].up,
         NEW cs, cs = [conns EXCEPT ![c].status = "ready", ![c].up = TRUE]
  PROVE  Typed(cs) /\ Counted(cs, work) /\ DOMAIN cs = DOMAIN conns /\ \A d \in Losers(c) : conns[d].load = 0
<1>1. Typed(conns) /\ Counted(conns, work) BY Parts DEF ConnsOK
<1>2. conns[c] \in Connection /\ conns[c].load = 0 BY <1>1, Keys DEF Counted
<1>3. PICK r : r = [conns[c] EXCEPT !.status = "ready", !.up = TRUE] OBVIOUS
<1>4. r \in Connection /\ r.status = "ready" /\ r.up = TRUE /\ r.load = 0 BY <1>2, <1>3 DEF Connection
<1>5. cs = [conns EXCEPT ![c] = r] BY <1>1, <1>3 DEF Typed
<1>6. DOMAIN cs = DOMAIN conns /\ cs[c] = r /\ \A d \in DOMAIN conns : d # c => cs[d] = conns[d]
  BY <1>1, <1>5 DEF Typed
<1>7. Typed(cs) BY <1>1, <1>4, <1>5 DEF Typed
<1>8. ASSUME NEW d \in DOMAIN cs
      PROVE  /\ cs[d].load = 0 <=> \A w \in work : w.conn # d
             /\ \A v, w \in work : v.conn = d /\ w.conn = d => v = w
             /\ cs[d].status = "connecting" => ~cs[d].up
             /\ cs[d].status = "ready" => cs[d].up
             /\ ~cs[d].up => cs[d].load = 0
  <2>1. CASE d = c
    <3>1. \A w \in work : w.conn # d BY <1>1, <1>2, <2>1 DEF Counted
    <3>2. cs[d].load = 0 /\ cs[d].status # "connecting" /\ cs[d].up BY <1>4, <1>6, <2>1
    <3> QED BY <3>1, <3>2
  <2>2. CASE d # c
    <3>1. cs[d] = conns[d] /\ d \in DOMAIN conns BY <1>6, <2>2
    <3> QED BY <1>1, <3>1 DEF Counted
  <2> QED BY <2>1, <2>2
<1>9. Counted(cs, work) BY <1>8 DEF Counted
<1>10. ASSUME NEW d \in Losers(c) PROVE conns[d].load = 0
  <2>1. d \in DOMAIN conns /\ conns[d].status = "connecting" BY DEF Losers, At
  <2> QED BY <1>1, <2>1 DEF Counted
<1> QED BY <1>6, <1>7, <1>9, <1>10

LEMMA ConnectionReadyKeeps ==
  ASSUME ConnectionsInv, NEW c, ConnectionReady(c) PROVE ConnectionsInv' /\ Spared
<1>1. c \in DOMAIN conns /\ ~conns[c].up /\ UNCHANGED <<site, work>> BY DEF ConnectionReady
<1>2. PICK ready : ready = [conns EXCEPT ![c].status = "ready", ![c].up = TRUE] OBVIOUS
<1>3. /\ Typed(ready) /\ Counted(ready, work) /\ DOMAIN ready = DOMAIN conns
      /\ \A d \in Losers(c) : conns[d].load = 0
  BY <1>1, <1>2, ReadyCounted
<1>4. PICK cs : cs = Drop(ready, Losers(c)) OBVIOUS
<1>5. Typed(cs) /\ Counted(cs, work) /\ DOMAIN cs = DOMAIN conns \ Losers(c) BY <1>3, <1>4, DropCounted
<1>6. conns' = cs BY <1>2, <1>4 DEF ConnectionReady
<1>7. ConnsOK' /\ Spared BY <1>1, <1>3, <1>5, <1>6 DEF ConnsOK, Spared
<1>8. SitesOK' /\ WorkOK' BY <1>1, Parts DEF SitesOK, WorkOK
<1>9. conns[c].intent \in Jobs \cup {Pool} /\ conns[c].origin \in Origins /\ c \in ConnIds
  BY <1>1, Keys DEF Connection
<1>10. WaitingJob(cs, conns[c].origin) \in Jobs \cup {None} BY WaitingType
<1>11. \/ \E j \in Jobs : /\ job' = [job EXCEPT ![j].phase = "probing"] /\ probes' = ProbeOn(probes, j, c, TRUE)
                          /\ agenda' = agenda
       \/ /\ agenda' = <<Do("ensure", conns[c].origin), Do("pump", conns[c].origin)>>
          /\ UNCHANGED <<job, probes>>
  BY <1>2, <1>4, <1>9, <1>10 DEF ConnectionReady, None, Pool
<1>12. CASE \E j \in Jobs : /\ job' = [job EXCEPT ![j].phase = "probing"] /\ probes' = ProbeOn(probes, j, c, TRUE)
                            /\ agenda' = agenda
  <2>1. PICK j \in Jobs : /\ job' = [job EXCEPT ![j].phase = "probing"] /\ probes' = ProbeOn(probes, j, c, TRUE)
                          /\ agenda' = agenda
    BY <1>12
  <2>2. JobsOK' /\ AgendaOK' BY <2>1, PhaseKeeps, Parts DEF Live, AgendaOK
  <2>3. ProbesOK' BY <1>9, <2>1, ProbeOnType, Parts DEF ProbesOK
  <2> QED BY <1>7, <1>8, <2>2, <2>3 DEF ConnectionsInv
<1>13. CASE /\ agenda' = <<Do("ensure", conns[c].origin), Do("pump", conns[c].origin)>>
            /\ UNCHANGED <<job, probes>>
  <2>1. JobsOK' /\ ProbesOK' BY <1>13, Parts DEF JobsOK, ProbesOK
  <2>2. AgendaOK' BY <1>9, <1>13, AgendaType, Seqs DEF AgendaOK
  <2> QED BY <1>7, <1>8, <2>1, <2>2 DEF ConnectionsInv
<1> QED BY <1>11, <1>12, <1>13

LEMMA ConnectionFailedKeeps ==
  ASSUME ConnectionsInv, NEW c, ConnectionFailed(c) PROVE ConnectionsInv' /\ Spared
<1>1. c \in DOMAIN conns /\ ~conns[c].up /\ UNCHANGED <<probes, work>> /\ conns' = Drop(conns, {c})
  BY DEF ConnectionFailed
<1>2. Typed(conns) /\ Counted(conns, work) BY Parts DEF ConnsOK
<1>3. conns[c].load = 0 BY <1>1, <1>2 DEF Counted
<1>4. Typed(conns') /\ Counted(conns', work') /\ DOMAIN conns' = DOMAIN conns \ {c} BY <1>1, <1>2, DropCounted
<1>5. ConnsOK' /\ Spared BY <1>1, <1>3, <1>4 DEF ConnsOK, Spared
<1>6. ProbesOK' /\ WorkOK' BY <1>1, Parts DEF ProbesOK, WorkOK
<1>7. PICK o \in Origins : o = conns[c].origin BY <1>1, Keys DEF Connection
<1>8. PICK i \in Jobs \cup {Pool} : i = conns[c].intent BY <1>1, Keys DEF Connection
<1>9. PICK known : known = IF conns[c].h3 THEN [site EXCEPT ![o].h3 = "backoff"] ELSE site OBVIOUS
<1>10. known \in [Origins -> Site] BY <1>9, Parts DEF SitesOK, Site
<1>11. PICK fallback : fallback = (conns[c].h3 /\ Ready(conns, o) = {}) OBVIOUS
<1>12. PICK tcp : tcp = IF fallback THEN <<Do("opentcp", o)>> ELSE <<>> OBVIOUS
<1>13. tcp \in Seq(Task) BY <1>12, AgendaType, Seqs
<1>14. PICK S : S = {j \in Jobs : job[j].origin = o /\ job[j].phase = "probing"} OBVIOUS
<1>15. ASSUME NEW s \in SetToSeqs(S) PROVE [n \in DOMAIN s |-> Do("fail", s[n])] \in Seq(Task)
  <2>1. S \in SUBSET Jobs BY <1>14
  <2>2. PICK k \in Nat : k = Cardinality(S) BY <2>1, Constants, FS_Subset, FS_CardinalityType
  <2>3. s \in [1 .. k -> S] BY <2>2 DEF SetToSeqs
  <2>4. \A n \in 1 .. k : Do("fail", s[n]) \in Task BY <2>1, <2>3, AgendaType
  <2>5. [n \in 1 .. k |-> Do("fail", s[n])] \in Seq(Task) BY <2>4
  <2> QED BY <2>3, <2>5
<1>16. /\ \/ i # Pool /\ RetryResolve(i, known)
          \/ /\ i # Pool /\ site' = known /\ UNCHANGED job
             /\ agenda' = tcp \/ agenda' = <<Do("fail", i)>>
          \/ /\ site' = known /\ UNCHANGED job
             /\ \E s \in SetToSeqs(S) : \/ agenda' = tcp \o [n \in DOMAIN s |-> Do("fail", s[n])]
                                        \/ agenda' = tcp \o <<Do("open", o)>>
  BY <1>7, <1>8, <1>9, <1>11, <1>12, <1>14 DEF ConnectionFailed
<1>17. CASE i # Pool /\ RetryResolve(i, known)
  <2>1. SitesOK' /\ JobsOK' /\ AgendaOK' BY <1>10, <1>17, RetryKeeps, Parts
  <2> QED BY <1>5, <1>6, <2>1 DEF ConnectionsInv
<1>18. CASE site' = known /\ UNCHANGED job /\ agenda' \in Seq(Task)
  <2>1. SitesOK' /\ JobsOK' /\ AgendaOK' BY <1>10, <1>18, Parts DEF SitesOK, JobsOK, AgendaOK
  <2> QED BY <1>5, <1>6, <2>1 DEF ConnectionsInv
<1>19. CASE i # Pool /\ (agenda' = tcp \/ agenda' = <<Do("fail", i)>>) /\ site' = known /\ UNCHANGED job
  <2>1. agenda' \in Seq(Task) BY <1>13, <1>19, AgendaType, Seqs
  <2> QED BY <1>18, <1>19, <2>1
<1>20. ASSUME site' = known, UNCHANGED job, NEW s \in SetToSeqs(S),
              \/ agenda' = tcp \o [n \in DOMAIN s |-> Do("fail", s[n])]
              \/ agenda' = tcp \o <<Do("open", o)>>
       PROVE  ConnectionsInv' /\ Spared
  <2>1. PICK f \in Seq(Task) : f = [n \in DOMAIN s |-> Do("fail", s[n])] BY <1>15
  <2>2. <<Do("open", o)>> \in Seq(Task) BY AgendaType, Seqs
  <2>3. agenda' \in Seq(Task) BY <1>13, <1>20, <2>1, <2>2, Seqs
  <2> QED BY <1>18, <1>20, <2>3
<1> QED BY <1>16, <1>17, <1>19, <1>20

-----------------------------------------------------------------------------
(***************************************************************************)
(* Answers to probes and reports of requests.                              *)
(***************************************************************************)
\* A connection closed with a probe's answer goes with the probe.
LEMMA DropWithProbe ==
  ASSUME ConnectionsInv, NEW p \in probes, probes' \subseteq probes \ {p}, WorkOK', Counted(conns, work'),
         conns' = conns \/ conns' = Drop(conns, {p.conn})
  PROVE  ProbesOK' /\ ConnsOK' /\ Spared
<1>1. ProbesOK' BY Parts DEF ProbesOK
<1>2. Typed(conns) BY Parts DEF ConnsOK
<1>3. CASE conns' = conns BY <1>1, <1>2, <1>3, MoreConns DEF ConnsOK
<1>4. CASE conns' = Drop(conns, {p.conn})
  <2>1. Typed(conns') /\ Counted(conns', work') /\ DOMAIN conns' = DOMAIN conns \ {p.conn} BY <1>2, <1>4, DropCounted
  <2>2. p \notin work' BY Disjoint, Parts DEF ProbesOK, WorkOK
  <2>3. p \notin probes' OBVIOUS
  <2>4. Spared BY <2>1, <2>2, <2>3 DEF Spared
  <2> QED BY <1>1, <2>1, <2>4 DEF ConnsOK
<1> QED BY <1>3, <1>4

LEMMA CountedNow ==
  ASSUME ConnectionsInv, UNCHANGED work PROVE WorkOK' /\ Counted(conns, work')
<1>1. Counted(conns, work) BY Parts DEF ConnsOK
<1> QED BY <1>1, Parts DEF WorkOK

LEMMA ProbedKeeps ==
  ASSUME ConnectionsInv, NEW p \in probes, Probed(p) PROVE ConnectionsInv' /\ Spared
<1>1. probes' = probes \ {p} BY DEF Probed
<1>2. p.job \in Jobs BY Parts DEF ProbesOK, Probe
<1>3. CASE UNCHANGED <<job, site, conns, work, agenda>>
  <2>1. JobsOK' /\ SitesOK' /\ AgendaOK' BY <1>3, Parts DEF JobsOK, SitesOK, AgendaOK
  <2>2. WorkOK' /\ Counted(conns, work') BY <1>3, CountedNow
  <2>3. ProbesOK' /\ ConnsOK' /\ Spared BY <1>1, <1>3, <2>2, DropWithProbe
  <2> QED BY <2>1, <2>2, <2>3 DEF ConnectionsInv
<1>4. PICK j \in Jobs : j = p.job BY <1>2
<1>5. PICK o \in Origins : o = job[j].origin BY JobOrigin
<1>6. ASSUME NEW reusable \in BOOLEAN, NEW todo \in {0, Pieces}, NEW h3 \in BOOLEAN,
             conns' = IF reusable THEN conns ELSE Drop(conns, {p.conn}),
             job' = [job EXCEPT ![j].phase = "transferring", ![j].planned = TRUE,
                                ![j].left = todo, ![j].deferred = 0],
             site' = IF h3 THEN [site EXCEPT ![o] = Advertised(@)] ELSE site,
             agenda' = (IF h3 THEN <<Do("dial", o)>> ELSE <<>>) \o
                         <<Do("scale", o), Do("ensure", o), IF todo = 0 THEN Do("commit", j) ELSE Do("pump", o)>>,
             work' = Orphan(j)
      PROVE  ConnectionsInv' /\ Spared
  <2>1. WorkOK' BY <1>6, OrphanType, Parts DEF WorkOK
  <2>2. Counted(conns, work') BY <1>6, OrphanCounted, Parts DEF ConnsOK
  <2>3. ProbesOK' /\ ConnsOK' /\ Spared BY <1>1, <1>6, <2>1, <2>2, DropWithProbe
  <2>4. SitesOK' BY <1>6, SiteFields, Parts DEF SitesOK
  <2>5. JobsOK'
    <3>1. PICK a : a = [job EXCEPT ![j].phase = "transferring"] OBVIOUS
    <3>2. a \in [Jobs -> Job] BY <3>1, Parts DEF JobsOK, Job, Live
    <3>3. PICK b : b = [a EXCEPT ![j].planned = TRUE] OBVIOUS
    <3>4. b \in [Jobs -> Job] BY <3>2, <3>3, JobFields
    <3>5. PICK d : d = [b EXCEPT ![j].left = todo] OBVIOUS
    <3>6. d \in [Jobs -> Job] BY <3>4, <3>5, Constants, JobFields
    <3>7. job' = [d EXCEPT ![j].deferred = 0] BY <1>6, <3>1, <3>3, <3>5, Parts DEF JobsOK
    <3> QED BY <3>6, <3>7 DEF JobsOK, Job
  <2>6. AgendaOK'
    <3>1. PICK a \in Seq(Task) : a = IF h3 THEN <<Do("dial", o)>> ELSE <<>> BY AgendaType, Seqs
    <3>2. PICK t \in Task : t = IF todo = 0 THEN Do("commit", j) ELSE Do("pump", o) BY AgendaType
    <3>3. <<Do("scale", o), Do("ensure", o), t>> \in Seq(Task) BY AgendaType, Seqs
    <3>4. agenda' = a \o <<Do("scale", o), Do("ensure", o), t>> BY <1>6, <3>1, <3>2
    <3> QED BY <3>3, <3>4, Seqs DEF AgendaOK
  <2> QED BY <2>1, <2>3, <2>4, <2>5, <2>6 DEF ConnectionsInv
<1>7. CASE job[j].phase = "gone"
  <2>1. UNCHANGED <<job, site, conns, work, agenda>> BY <1>4, <1>7 DEF Probed
  <2> QED BY <1>3, <2>1
<1>8. CASE job[j].phase # "gone"
  <2>1. {FALSE, (o \in H3)} \subseteq BOOLEAN OBVIOUS
  <2>2. work' = Orphan(j) BY <1>4, <1>8 DEF Probed
  <2>3. PICK reusable \in BOOLEAN, todo \in {0, Pieces}, h3 \in {FALSE, (job[p.job].origin \in H3)} :
          /\ conns' = IF reusable THEN conns ELSE Drop(conns, {p.conn})
          /\ job' = [job EXCEPT ![p.job].phase = "transferring", ![p.job].planned = TRUE,
                                ![p.job].left = todo, ![p.job].deferred = 0]
          /\ site' = IF h3 THEN [site EXCEPT ![job[p.job].origin] = Advertised(@)] ELSE site
          /\ agenda' = (IF h3 THEN <<Do("dial", job[p.job].origin)>> ELSE <<>>) \o
               <<Do("scale", job[p.job].origin), Do("ensure", job[p.job].origin),
                 IF todo = 0 THEN Do("commit", p.job) ELSE Do("pump", job[p.job].origin)>>
    BY <1>4, <1>8 DEF Probed
  <2>4. h3 \in BOOLEAN BY <1>4, <1>5, <2>1, <2>3
  <2> QED BY <1>4, <1>5, <1>6, <2>2, <2>3, <2>4
<1> QED BY <1>7, <1>8

LEMMA ProbeRedirectedKeeps ==
  ASSUME ConnectionsInv, NEW p \in probes, ProbeRedirected(p) PROVE ConnectionsInv' /\ Spared
<1>1. UNCHANGED work BY DEF ProbeRedirected
<1>2. WorkOK' /\ Counted(conns, work') BY <1>1, CountedNow
<1>3. p \in Probe /\ p.job \in Jobs /\ p.conn \in ConnIds BY Parts DEF ProbesOK, Probe
<1>4. PICK j \in Jobs : j = p.job BY <1>3
<1>5. CASE probes' = probes \ {p} /\ UNCHANGED <<job, site, conns, agenda>>
  <2>1. JobsOK' /\ SitesOK' /\ AgendaOK' BY <1>5, Parts DEF JobsOK, SitesOK, AgendaOK
  <2>2. ProbesOK' /\ ConnsOK' /\ Spared BY <1>2, <1>5, DropWithProbe
  <2> QED BY <1>2, <2>1, <2>2 DEF ConnectionsInv
<1>6. CASE Finish(j, <<>>) /\ probes' = probes \ {p} /\ UNCHANGED <<site, conns>>
  <2>1. JobsOK' /\ AgendaOK' BY <1>6, FinishKeeps, Seqs, Parts
  <2>2. SitesOK' BY <1>6, Parts DEF SitesOK
  <2>3. ProbesOK' /\ ConnsOK' /\ Spared BY <1>2, <1>6, DropWithProbe
  <2> QED BY <1>2, <2>1, <2>2, <2>3 DEF ConnectionsInv
<1>7. CASE /\ probes' = ProbeOn(probes \ {p}, j, p.conn, p.conn \in DOMAIN conns)
           /\ job' = [job EXCEPT ![j].hops = @ + 1] /\ UNCHANGED <<site, conns, agenda>>
  <2>1. JobsOK' BY <1>7, Parts DEF JobsOK, Job
  <2>2. SitesOK' /\ AgendaOK' BY <1>7, Parts DEF SitesOK, AgendaOK
  <2>3. (p.conn \in DOMAIN conns) \in BOOLEAN OBVIOUS
  <2>4. probes \ {p} \subseteq Probe BY Parts DEF ProbesOK
  <2>5. ProbeOn(probes \ {p}, j, p.conn, p.conn \in DOMAIN conns) \subseteq Probe
    BY <1>3, <2>3, <2>4, ProbeOnType, Zenon
  <2>6. ProbesOK' BY <1>7, <2>5 DEF ProbesOK
  <2> QED BY <1>1, <1>7, <2>1, <2>2, <2>6, SameConns DEF ConnectionsInv
<1>8. ASSUME NEW o \in Origins, probes' = probes \ {p}, conns' = Drop(conns, {p.conn}), agenda' = agenda,
             job' = [job EXCEPT ![j].phase = "created", ![j].origin = o, ![j].tries = 0, ![j].hops = @ + 1],
             site' = [site EXCEPT ![o].resolving = @ + 1]
      PROVE  ConnectionsInv' /\ Spared
  <2>1. ProbesOK' /\ ConnsOK' /\ Spared BY <1>2, <1>8, DropWithProbe
  <2>2. SitesOK' BY <1>8, Parts DEF SitesOK, Site
  <2>3. AgendaOK' BY <1>8, Parts DEF AgendaOK
  <2>4. JobsOK'
    <3>1. PICK a : a = [job EXCEPT ![j].phase = "created"] OBVIOUS
    <3>2. a \in [Jobs -> Job] BY <3>1, Parts DEF JobsOK, Job, Live
    <3>3. PICK b : b = [a EXCEPT ![j].origin = o] OBVIOUS
    <3>4. b \in [Jobs -> Job] BY <3>2, <3>3, JobFields
    <3>5. PICK d : d = [b EXCEPT ![j].tries = 0] OBVIOUS
    <3>6. d \in [Jobs -> Job] BY <3>4, <3>5, JobFields
    <3>7. job' = [d EXCEPT ![j].hops = @ + 1] BY <1>8, <3>1, <3>3, <3>5, Parts DEF JobsOK
    <3> QED BY <3>6, <3>7 DEF JobsOK, Job
  <2> QED BY <1>2, <2>1, <2>2, <2>3, <2>4 DEF ConnectionsInv
<1> QED BY <1>4, <1>5, <1>6, <1>7, <1>8 DEF ProbeRedirected

LEMMA ProbeFailedKeeps ==
  ASSUME ConnectionsInv, NEW p \in probes, ProbeFailed(p) PROVE ConnectionsInv' /\ Spared
<1>1. UNCHANGED work /\ probes' = probes \ {p} /\ conns' = Drop(conns, {p.conn}) BY DEF ProbeFailed
<1>2. WorkOK' /\ Counted(conns, work') BY <1>1, CountedNow
<1>3. ProbesOK' /\ ConnsOK' /\ Spared BY <1>1, <1>2, DropWithProbe
<1>4. PICK j \in Jobs : j = p.job BY Parts DEF ProbesOK, Probe
<1>5. PICK o \in Origins : o = job[j].origin BY JobOrigin
<1>6. \/ UNCHANGED <<job, agenda>> /\ (site' = site \/ site' = CoolDown(o))
      \/ site' = site /\ Finish(j, <<>>)
      \/ site' = site /\ agenda' = <<Do("refresh", j)>> /\ job' = job
  BY <1>4, <1>5 DEF ProbeFailed
<1>7. SitesOK' BY <1>6, CoolKeeps, Parts DEF SitesOK
<1>8. JobsOK' /\ AgendaOK'
  <2>1. CASE UNCHANGED <<job, agenda>> BY <2>1, Parts DEF JobsOK, AgendaOK
  <2>2. CASE Finish(j, <<>>) BY <2>2, FinishKeeps, Seqs, Parts
  <2>3. CASE agenda' = <<Do("refresh", j)>> /\ job' = job BY <2>3, AgendaType, Seqs, Parts DEF JobsOK, AgendaOK
  <2> QED BY <1>6, <2>1, <2>2, <2>3
<1> QED BY <1>2, <1>3, <1>7, <1>8 DEF ConnectionsInv

\* A connection closed with a request's report goes with the request.
LEMMA DropWithRequest ==
  ASSUME ConnectionsInv, NEW w \in work, UNCHANGED probes, WorkOK', w \notin work',
         NEW cs, Typed(cs), Counted(cs, work'), DOMAIN cs = DOMAIN conns,
         conns' = cs \/ conns' = Drop(cs, {w.conn})
  PROVE  ProbesOK' /\ ConnsOK' /\ Spared
<1>1. ProbesOK' BY Parts DEF ProbesOK
<1>2. CASE conns' = cs BY <1>1, <1>2, MoreConns DEF ConnsOK
<1>3. CASE conns' = Drop(cs, {w.conn})
  <2>1. Typed(conns') /\ Counted(conns', work') /\ DOMAIN conns' = DOMAIN conns \ {w.conn} BY <1>3, DropCounted
  <2>2. w \notin probes' BY Disjoint, Parts DEF ProbesOK, WorkOK
  <2>3. Spared BY <2>1, <2>2 DEF Spared
  <2> QED BY <1>1, <2>1, <2>3 DEF ConnsOK
<1> QED BY <1>2, <1>3

LEMMA AssignmentVerifiedKeeps ==
  ASSUME ConnectionsInv, NEW w \in work, AssignmentVerified(w) PROVE ConnectionsInv' /\ Spared
<1>1. UNCHANGED <<site, probes>> /\ work' = work \ {w} BY DEF AssignmentVerified
<1>2. WorkOK' BY <1>1, FS_RemoveElement, Parts DEF WorkOK
<1>3. Counted(conns, work) BY Parts DEF ConnsOK
<1>4. PICK cs : cs = Released(w.conn) OBVIOUS
<1>5. Typed(cs) /\ Counted(cs, work') /\ DOMAIN cs = DOMAIN conns
  <2>1. w.conn \in DOMAIN conns => \A x \in work : x.conn = w.conn => x \in {w} BY <1>3 DEF Counted
  <2>2. {w} \subseteq work /\ \A x \in {w} : x.conn = w.conn OBVIOUS
  <2> QED BY <1>1, <1>3, <1>4, <2>1, <2>2, ReleasedCounted
<1>6. conns' = cs \/ conns' = Drop(cs, {w.conn}) BY <1>4 DEF AssignmentVerified
<1>7. ProbesOK' /\ ConnsOK' /\ Spared BY <1>1, <1>2, <1>5, <1>6, DropWithRequest
<1>8. SitesOK' BY <1>1, Parts DEF SitesOK
<1>9. PICK j \in Jobs : j = w.job BY Parts DEF WorkOK, Request
<1>10. PICK o \in Origins : o = job[j].origin BY JobOrigin
<1>11. \/ UNCHANGED <<job, agenda>>
       \/ job' = [job EXCEPT ![j].phase = "committing"] /\ agenda' = <<Do("trial", o)>>
       \/ Drain(j, work', <<>>)
       \/ /\ job' = job
          /\ \/ agenda' = <<Do("trial", o)>> \o <<Do("scale", o), Do("pump", o)>>
             \/ agenda' = <<Do("trial", o)>> \o <<>>
  BY <1>9, <1>10 DEF AssignmentVerified
<1>12. JobsOK' /\ AgendaOK'
  <2>1. CASE UNCHANGED <<job, agenda>> BY <2>1, Parts DEF JobsOK, AgendaOK
  <2>2. CASE job' = [job EXCEPT ![j].phase = "committing"] /\ agenda' = <<Do("trial", o)>>
    BY <2>2, PhaseKeeps, AgendaType, Seqs, Parts DEF AgendaOK, Live
  <2>3. CASE Drain(j, work', <<>>)
    <3>1. PICK wk : wk = work' OBVIOUS
    <3> QED BY <2>3, <3>1, DrainKeeps, Seqs, Parts
  <2>4. CASE /\ job' = job
             /\ \/ agenda' = <<Do("trial", o)>> \o <<Do("scale", o), Do("pump", o)>>
                \/ agenda' = <<Do("trial", o)>> \o <<>>
    <3>1. <<Do("trial", o)>> \in Seq(Task) /\ <<Do("scale", o), Do("pump", o)>> \in Seq(Task) BY AgendaType, Seqs
    <3> QED BY <2>4, <3>1, Seqs, Parts DEF JobsOK, AgendaOK
  <2> QED BY <1>11, <2>1, <2>2, <2>3, <2>4
<1> QED BY <1>2, <1>7, <1>8, <1>12 DEF ConnectionsInv

LEMMA ReplannedType ==
  ASSUME NEW r \in Job, NEW how, NEW piece \in Nat, NEW others \in Nat
  PROVE  Replanned(r, how, piece, others) \in Job
<1>1. CASE how = "fullbody"
  <2>1. PICK n \in Nat : n = r.left + r.deferred + piece + others BY JobFields
  <2>2. PICK a : a = [r EXCEPT !.left = n] OBVIOUS
  <2>3. a \in Job BY <2>2 DEF Job
  <2>4. [a EXCEPT !.deferred = 0] \in Job BY <2>3 DEF Job
  <2>5. Replanned(r, how, piece, others) = [a EXCEPT !.deferred = 0] BY <1>1, <2>1, <2>2 DEF Replanned
  <2> QED BY <2>4, <2>5
<1>2. CASE how = "retry"
  <2>1. PICK n \in Nat : n = r.deferred + piece BY JobFields
  <2>2. PICK a : a = [r EXCEPT !.deferred = n] OBVIOUS
  <2>3. a \in Job BY <2>2 DEF Job
  <2>4. [a EXCEPT !.retries = @ + 1] \in Job BY <2>3 DEF Job
  <2>5. Replanned(r, how, piece, others) = [a EXCEPT !.retries = @ + 1] BY <1>2, <2>1, <2>2 DEF Replanned, Job
  <2> QED BY <2>4, <2>5
<1>3. CASE how \notin {"fullbody", "retry"}
  <2>1. Replanned(r, how, piece, others) = [r EXCEPT !.left = @ + piece] BY <1>3 DEF Replanned
  <2> QED BY <2>1 DEF Job
<1> QED BY <1>1, <1>2, <1>3

LEMMA AssignmentFailedKeeps ==
  ASSUME ConnectionsInv, NEW w \in work, NEW how, AssignmentFailed(w, how) PROVE ConnectionsInv' /\ Spared
<1>1. PICK j \in Jobs : j = w.job BY Parts DEF WorkOK, Request
<1>2. PICK o \in Origins : o = job[j].origin BY JobOrigin
<1>3. PICK wk : wk = IF how = "fullbody" THEN Orphan(j) ELSE work OBVIOUS
<1>4. PICK dead : dead = [w EXCEPT !.live = FALSE] OBVIOUS
<1>5. UNCHANGED probes /\ work' = wk \ {w, dead} BY <1>1, <1>3, <1>4 DEF AssignmentFailed
<1>6. wk \subseteq Request /\ IsFiniteSet(wk) BY <1>3, OrphanType, Parts DEF WorkOK
<1>7. WorkOK' BY <1>5, <1>6, FS_Subset DEF WorkOK
<1>8. Counted(conns, work) BY Parts DEF ConnsOK
<1>9. Counted(conns, wk) BY <1>3, <1>8, OrphanCounted, Parts
<1>10. w \in Request /\ dead \in Request /\ dead.conn = w.conn BY <1>4, Parts DEF WorkOK, Request
<1>11. w.conn \in DOMAIN conns => \A x \in wk : x.conn = w.conn => x \in {w, dead}
  <2> SUFFICES ASSUME w.conn \in DOMAIN conns, NEW x \in wk, x.conn = w.conn PROVE x \in {w, dead} OBVIOUS
  <2>1. CASE x \in work BY <1>8, <2>1 DEF Counted
  <2>2. CASE x \in Orphan(j)
    <3>1. PICK v \in work : x.conn = v.conn /\ (x = v \/ x = [v EXCEPT !.live = FALSE]) BY <2>2, OrphanMember, Parts
    <3>2. v = w BY <1>8, <3>1 DEF Counted
    <3> QED BY <1>4, <3>1, <3>2
  <2> QED BY <1>3, <2>1, <2>2
<1>12. PICK cs : cs = Released(w.conn) OBVIOUS
<1>13. Typed(cs) /\ Counted(cs, work') /\ DOMAIN cs = DOMAIN conns
  <2>1. PICK gone : gone = {w, dead} OBVIOUS
  <2>2. gone \subseteq Request /\ \A x \in gone : x.conn = w.conn BY <1>10, <2>1
  <2>3. w.conn \in DOMAIN conns => \A x \in wk : x.conn = w.conn => x \in gone BY <1>11, <2>1
  <2>4. Typed(Released(w.conn)) /\ Counted(Released(w.conn), wk \ gone) /\ DOMAIN Released(w.conn) = DOMAIN conns
    BY <1>9, <2>2, <2>3, ReleasedCounted
  <2> QED BY <1>5, <1>12, <2>1, <2>4
<1>14. conns' = Drop(cs, {}) \/ conns' = Drop(cs, {w.conn}) BY <1>12 DEF AssignmentFailed
<1>15. ProbesOK' /\ ConnsOK' /\ Spared
  <2>1. w \notin work' BY <1>5
  <2>2. CASE conns' = Drop(cs, {})
    <3>1. Typed(Drop(cs, {})) /\ Counted(Drop(cs, {}), work') /\ DOMAIN Drop(cs, {}) = DOMAIN cs \ {}
      BY <1>13, DropCounted
    <3> QED BY <1>5, <1>13, <2>2, <3>1, MoreConns, Parts DEF ProbesOK, ConnsOK
  <2>3. CASE conns' = Drop(cs, {w.conn}) BY <1>5, <1>7, <1>13, <2>1, <2>3, DropWithRequest
  <2> QED BY <1>14, <2>2, <2>3
<1>16. PICK r : r = Replanned(job[j], how, IF w.live THEN 1 ELSE 0, Cardinality(InFlight(work \ {w}, j))) OBVIOUS
<1>17. r \in Job
  <2>1. PICK n \in Nat : n = Cardinality(InFlight(work \ {w}, j)) BY InFlightSize, Parts
  <2>2. PICK m \in Nat : m = IF w.live THEN 1 ELSE 0 OBVIOUS
  <2>3. job[j] \in Job BY JobOrigin
  <2>4. Replanned(job[j], how, m, n) \in Job BY <2>3, ReplannedType
  <2> QED BY <1>16, <2>1, <2>2, <2>4
<1>18. [r EXCEPT !.phase = "probing"] \in Job BY <1>17, JobFields DEF Live
<1>19. PICK next \in Seq(Task) : next = <<Do("scale", o), Do("pump", o)>> BY AgendaType, Seqs
<1>20. \/ UNCHANGED <<job, site, agenda>>
       \/ Finish(j, <<>>) /\ UNCHANGED site
       \/ /\ job' = [job EXCEPT ![j] = r] \/ job' = [job EXCEPT ![j] = [r EXCEPT !.phase = "probing"]]
          /\ site' = CoolDown(o) \/ site' = site
          /\ agenda' = CASE how = "exhausted" -> <<Do("fail", j)>> \o next
                         [] how = "refresh" -> Append(next, Do("refresh", j))
                         [] how \in {"recheck", "fullbody"} -> <<Do("open", o)>> \o next
                         [] OTHER -> next
  BY <1>1, <1>2, <1>16, <1>19, Zenon DEF AssignmentFailed
<1>21. CASE UNCHANGED <<job, site, agenda>>
  <2>1. JobsOK' /\ SitesOK' /\ AgendaOK' BY <1>21, Parts DEF JobsOK, SitesOK, AgendaOK
  <2> QED BY <1>7, <1>15, <2>1 DEF ConnectionsInv
<1>22. CASE Finish(j, <<>>) /\ UNCHANGED site
  <2>1. JobsOK' /\ AgendaOK' BY <1>22, FinishKeeps, Seqs, Parts
  <2>2. SitesOK' BY <1>22, Parts DEF SitesOK
  <2> QED BY <1>7, <1>15, <2>1, <2>2 DEF ConnectionsInv
<1>23. CASE /\ job' = [job EXCEPT ![j] = r] \/ job' = [job EXCEPT ![j] = [r EXCEPT !.phase = "probing"]]
            /\ site' = CoolDown(o) \/ site' = site
            /\ agenda' = CASE how = "exhausted" -> <<Do("fail", j)>> \o next
                           [] how = "refresh" -> Append(next, Do("refresh", j))
                           [] how \in {"recheck", "fullbody"} -> <<Do("open", o)>> \o next
                           [] OTHER -> next
  <2>1. JobsOK' BY <1>17, <1>18, <1>23, Parts DEF JobsOK
  <2>2. SitesOK' BY <1>23, CoolKeeps, Parts DEF SitesOK
  <2>3. <<Do("fail", j)>> \in Seq(Task) /\ <<Do("open", o)>> \in Seq(Task) /\ Do("refresh", j) \in Task
    BY AgendaType, Seqs
  <2>4. AgendaOK'
    <3>1. CASE how = "exhausted" BY <1>23, <2>3, <3>1, Seqs DEF AgendaOK
    <3>2. CASE how = "refresh" BY <1>23, <2>3, <3>2, Seqs DEF AgendaOK
    <3>3. CASE how \in {"recheck", "fullbody"} BY <1>23, <2>3, <3>3, Seqs DEF AgendaOK
    <3>4. CASE how \notin {"exhausted", "refresh", "recheck", "fullbody"} BY <1>23, <3>4 DEF AgendaOK
    <3> QED BY <3>1, <3>2, <3>3, <3>4
  <2> QED BY <1>7, <1>15, <2>1, <2>2, <2>4 DEF ConnectionsInv
<1> QED BY <1>20, <1>21, <1>22, <1>23

-----------------------------------------------------------------------------
(***************************************************************************)
(* Timers and the adaptive loop.                                           *)
(***************************************************************************)
LEMMA RetryReadyKeeps ==
  ASSUME ConnectionsInv, NEW j \in Jobs, RetryReady(j) PROVE ConnectionsInv' /\ Spared
<1>1. /\ UNCHANGED <<site, conns, probes, work>> /\ job[j].retries > 0
      /\ agenda' = <<Do("opennone", job[j].origin), Do("pump", job[j].origin)>>
  BY DEF RetryReady
<1>2. PICK due \in 0 .. job[j].deferred :
        job' = [job EXCEPT ![j].retries = @ - 1, ![j].left = @ + due, ![j].deferred = @ - due]
  BY DEF RetryReady
<1>3. job[j] \in Job /\ job[j].origin \in Origins BY JobOrigin
<1>4. due \in Nat /\ due <= job[j].deferred BY <1>3, JobFields
<1>5. PICK a : a = [job EXCEPT ![j].retries = @ - 1] OBVIOUS
<1>6. a \in [Jobs -> Job] /\ a[j].left = job[j].left /\ a[j].deferred = job[j].deferred
  BY <1>1, <1>5, Parts DEF JobsOK, Job
<1>7. PICK b : b = [a EXCEPT ![j].left = @ + due] OBVIOUS
<1>8. b \in [Jobs -> Job] /\ b[j].deferred = job[j].deferred BY <1>4, <1>6, <1>7 DEF Job
<1>9. job' = [b EXCEPT ![j].deferred = @ - due] BY <1>2, <1>5, <1>6, <1>7, <1>8, Parts DEF JobsOK
<1>10. JobsOK' BY <1>4, <1>8, <1>9 DEF JobsOK, Job
<1>11. AgendaOK' BY <1>1, <1>3, AgendaType, Seqs DEF AgendaOK
<1>12. SitesOK' /\ ProbesOK' BY <1>1, Parts DEF SitesOK, ProbesOK
<1> QED BY <1>1, <1>10, <1>11, <1>12, SameConns DEF ConnectionsInv

LEMMA SiteTimersKeep ==
  ASSUME ConnectionsInv, NEW o \in Origins,
         ResolveRetry(o) \/ OriginCooldownExpired(o) \/ CooldownElapses(o) \/ RebalanceTick(o)
  PROVE  ConnectionsInv' /\ Spared
<1>1. UNCHANGED <<job, conns, probes, work>>
  BY DEF ResolveRetry, OriginCooldownExpired, CooldownElapses, RebalanceTick
<1>2. JobsOK' /\ ProbesOK' BY <1>1, Parts DEF JobsOK, ProbesOK
<1>3. SitesOK'
  <2>1. CASE ResolveRetry(o)
    <3>1. site[o].resolve > 0 BY <2>1 DEF ResolveRetry
    <3>2. PICK a : a = [site EXCEPT ![o].resolve = @ - 1] OBVIOUS
    <3>3. a \in [Origins -> Site] /\ a[o].resolving = site[o].resolving BY <3>1, <3>2, Parts DEF SitesOK, Site
    <3>4. site' = [a EXCEPT ![o].resolving = @ + 1] BY <2>1, <3>2, <3>3, Parts DEF SitesOK, ResolveRetry
    <3> QED BY <3>3, <3>4 DEF SitesOK, Site
  <2>2. CASE OriginCooldownExpired(o)
    <3>1. site[o].cooldown > 0 BY <2>2 DEF OriginCooldownExpired
    <3>2. PICK a : a = [site EXCEPT ![o].cooldown = @ - 1] OBVIOUS
    <3>3. a \in [Origins -> Site] BY <3>1, <3>2, Parts DEF SitesOK, Site
    <3>4. site' = [a EXCEPT ![o].cooling = FALSE] BY <2>2, <3>2, <3>3, Parts DEF SitesOK, OriginCooldownExpired
    <3> QED BY <3>3, <3>4 DEF SitesOK, Site
  <2>3. CASE CooldownElapses(o)
    <3>1. site' = [site EXCEPT ![o].cooling = FALSE] BY <2>3 DEF CooldownElapses
    <3> QED BY <3>1, Parts DEF SitesOK, Site
  <2>4. CASE RebalanceTick(o) BY <2>4, Parts DEF SitesOK, RebalanceTick
  <2> QED BY <2>1, <2>2, <2>3, <2>4
<1>4. \/ agenda' = agenda \/ agenda' = <<Do("pump", o)>>
      \/ agenda' = <<Do("ensure", o), Do("openwaiting", o), Do("pump", o)>>
  BY DEF ResolveRetry, OriginCooldownExpired, CooldownElapses, RebalanceTick
<1>5. /\ <<Do("pump", o)>> \in Seq(Task)
      /\ <<Do("ensure", o), Do("openwaiting", o), Do("pump", o)>> \in Seq(Task)
  BY AgendaType, Seqs
<1>6. AgendaOK' BY <1>4, <1>5, Parts DEF AgendaOK
<1> QED BY <1>1, <1>2, <1>3, <1>6, SameConns DEF ConnectionsInv

LEMMA EndpointStaggerKeeps ==
  ASSUME ConnectionsInv, NEW o \in Origins, EndpointStagger(o) PROVE ConnectionsInv' /\ Spared
<1>1. /\ UNCHANGED <<job, probes, work, agenda>> /\ site[o].stagger > 0
      /\ site' = [site EXCEPT ![o].stagger = @ - 1] /\ (UNCHANGED conns \/ Dial(o, {FALSE}))
  BY DEF EndpointStagger
<1>2. JobsOK' /\ ProbesOK' /\ WorkOK' /\ AgendaOK' BY <1>1, Parts DEF JobsOK, ProbesOK, WorkOK, AgendaOK
<1>3. SitesOK' BY <1>1, Parts DEF SitesOK, Site
<1>4. ConnsOK' /\ Spared BY <1>1, SameConns, DialKeeps
<1> QED BY <1>2, <1>3, <1>4 DEF ConnectionsInv

\* Idle retired connections can be closed.
LEMMA DropIdle ==
  ASSUME ConnectionsInv, UNCHANGED work, NEW S, \A c \in S : c \in DOMAIN conns => conns[c].load = 0,
         NEW cs, Typed(cs), Counted(cs, work), DOMAIN cs = DOMAIN conns \ S, conns' = cs
  PROVE  ConnsOK' /\ Spared
BY DEF ConnsOK, Spared

LEMMA DrainConnectionKeeps ==
  ASSUME ConnectionsInv, NEW c, DrainConnection(c) PROVE ConnectionsInv' /\ Spared
<1>1. UNCHANGED <<job, site, probes, work, agenda>> /\ conns' = Drop(conns, {c}) /\ conns[c].load = 0
  BY DEF DrainConnection, Drained
<1>2. JobsOK' /\ SitesOK' /\ ProbesOK' /\ WorkOK' /\ AgendaOK'
  BY <1>1, Parts DEF JobsOK, SitesOK, ProbesOK, WorkOK, AgendaOK
<1>3. Typed(conns') /\ Counted(conns', work) /\ DOMAIN conns' = DOMAIN conns \ {c}
  BY <1>1, DropCounted, Parts DEF ConnsOK
<1>4. ConnsOK' /\ Spared BY <1>1, <1>3 DEF ConnsOK, Spared
<1> QED BY <1>2, <1>4 DEF ConnectionsInv

\* A trial that is given back keeps its request.
LEMMA RevertedCounted ==
  ASSUME NEW cs, NEW wk, Typed(cs), Counted(cs, wk), NEW t
  PROVE  Typed(Reverted(cs, t)) /\ Counted(Reverted(cs, t), wk) /\ DOMAIN Reverted(cs, t) = DOMAIN cs
<1>1. CASE t \notin DOMAIN cs BY <1>1 DEF Reverted
<1>2. CASE t \in DOMAIN cs
  <2>1. cs[t] \in Connection BY <1>2 DEF Typed
  <2>2. PICK r : r = [cs[t] EXCEPT !.status = "retired"] OBVIOUS
  <2>3. r \in Connection /\ r.status = "retired" /\ r.load = cs[t].load /\ r.up = cs[t].up
    BY <2>1, <2>2 DEF Connection
  <2>4. PICK ds : ds = [cs EXCEPT ![t] = r] OBVIOUS
  <2>5. Reverted(cs, t) = ds BY <1>2, <2>2, <2>4 DEF Reverted
  <2>6. DOMAIN ds = DOMAIN cs /\ ds[t] = r /\ \A d \in DOMAIN cs : d # t => ds[d] = cs[d]
    BY <1>2, <2>4 DEF Typed
  <2>7. Typed(ds) BY <2>3, <2>4, <2>6 DEF Typed
  <2>8. ASSUME NEW d \in DOMAIN ds
        PROVE  /\ ds[d].load = cs[d].load /\ ds[d].up = cs[d].up
               /\ ds[d].status = cs[d].status \/ ds[d].status = "retired"
    <3>1. CASE d = t BY <2>3, <2>6, <3>1
    <3>2. CASE d # t BY <2>6, <3>2
    <3> QED BY <3>1, <3>2
  <2>9. Counted(ds, wk) BY <2>6, <2>8 DEF Counted
  <2> QED BY <2>5, <2>6, <2>7, <2>9
<1> QED BY <1>1, <1>2

LEMMA AdaptiveTickKeeps ==
  ASSUME ConnectionsInv, NEW o \in Origins, AdaptiveTick(o) PROVE ConnectionsInv' /\ Spared
<1>1. UNCHANGED <<job, probes, work, agenda>> BY DEF AdaptiveTick
<1>2. JobsOK' /\ ProbesOK' /\ WorkOK' /\ AgendaOK' BY <1>1, Parts DEF JobsOK, ProbesOK, WorkOK, AgendaOK
<1>3. PICK S : S = {c \in DOMAIN conns : Drained(conns, c)} OBVIOUS
<1>4. PICK cs : cs = Drop(conns, S) OBVIOUS
<1>5. Typed(cs) /\ Counted(cs, work) /\ DOMAIN cs = DOMAIN conns \ S BY <1>4, DropCounted, Parts DEF ConnsOK
<1>6. \A c \in S : c \in DOMAIN conns => conns[c].load = 0 BY <1>3 DEF Drained
<1>7. \/ site' = [site EXCEPT ![o].trial = None] /\ UNCHANGED conns
      \/ JudgeTrial(o, cs)
      \/ OpenTrial(o, Ready(conns, o))
  BY <1>3, <1>4 DEF AdaptiveTick
<1>8. [site EXCEPT ![o].trial = None] \in [Origins -> Site] BY Parts DEF SitesOK, Site
<1>9. CASE site' = [site EXCEPT ![o].trial = None] /\ UNCHANGED conns
  <2>1. SitesOK' BY <1>8, <1>9 DEF SitesOK
  <2> QED BY <1>1, <1>2, <1>9, <2>1, SameConns DEF ConnectionsInv
<1>10. CASE JudgeTrial(o, cs)
  <2>1. SitesOK' BY <1>8, <1>10 DEF SitesOK, JudgeTrial
  <2>2. PICK rs : rs = Reverted(cs, site[o].trial) OBVIOUS
  <2>3. Typed(rs) /\ Counted(rs, work) /\ DOMAIN rs = DOMAIN conns \ S BY <1>5, <2>2, RevertedCounted
  <2>4. conns' = cs \/ conns' = rs BY <1>10, <2>2 DEF JudgeTrial
  <2>5. ConnsOK' /\ Spared
    <3>1. CASE conns' = cs BY <1>1, <1>5, <1>6, <3>1, DropIdle
    <3>2. CASE conns' = rs BY <1>1, <1>6, <2>3, <3>2, DropIdle
    <3> QED BY <2>4, <3>1, <3>2
  <2> QED BY <1>2, <2>1, <2>5 DEF ConnectionsInv
<1>11. CASE OpenTrial(o, Ready(conns, o))
  <2>1. SitesOK' /\ ConnsOK' /\ Spared BY <1>1, <1>11, OpenTrialKeeps
  <2> QED BY <1>2, <2>1 DEF ConnectionsInv
<1> QED BY <1>7, <1>9, <1>10, <1>11

-----------------------------------------------------------------------------
(***************************************************************************)
(* The theorems.                                                           *)
(***************************************************************************)
LEMMA Starts == Init => ConnectionsInv
<1> SUFFICES ASSUME Init PROVE ConnectionsInv OBVIOUS
<1>1. NewJob \in Job BY Constants DEF NewJob, Job
<1>2. NewSite \in Site BY DEF NewSite, Site
<1>3. JobsOK /\ SitesOK BY <1>1, <1>2 DEF Init, JobsOK, SitesOK
<1>4. ProbesOK BY DEF Init, ProbesOK
<1>5. WorkOK BY FS_EmptySet DEF Init, WorkOK
<1>6. AgendaOK BY Seqs DEF Init, AgendaOK
<1>7. ConnsOK
  <2>1. conns = <<>> /\ DOMAIN conns = {} BY DEF Init
  <2>2. conns \in [DOMAIN conns -> Connection] BY <2>1
  <2> QED BY <2>1, <2>2 DEF ConnsOK, Typed, Counted
<1> QED BY <1>3, <1>4, <1>5, <1>6, <1>7 DEF ConnectionsInv

LEMMA StepKeeps == ConnectionsInv /\ [Next]_vars => ConnectionsInv' /\ Spared
<1> SUFFICES ASSUME ConnectionsInv, [Next]_vars PROVE ConnectionsInv' /\ Spared OBVIOUS
<1>1. CASE UNCHANGED vars
  <2>1. JobsOK' /\ SitesOK' /\ ProbesOK' /\ AgendaOK'
    BY <1>1, Parts DEF vars, JobsOK, SitesOK, ProbesOK, AgendaOK
  <2>2. UNCHANGED <<conns, work>> BY <1>1 DEF vars
  <2> QED BY <2>1, <2>2, SameConns DEF ConnectionsInv
<1>2. CASE Handler
  BY <1>2, EnsureProbesKeeps, OpenConnectionKeeps, PumpKeeps, EarlyTrialKeeps, BeginFailKeeps,
     CommitKeeps, SourceRefreshedKeeps
  DEF Handler
<1>3. CASE Reports
  BY <1>3, ProbedKeeps, ProbeRedirectedKeeps, ProbeFailedKeeps, AssignmentVerifiedKeeps, AssignmentFailedKeeps
  DEF Reports
<1>4. CASE Dials BY <1>4, ConnectionReadyKeeps, ConnectionFailedKeeps DEF Dials
<1>5. CASE Answers BY <1>5, ResolvedKeeps, JobEndsKeeps DEF Answers
<1>6. CASE Timers BY <1>6, RetryReadyKeeps, SiteTimersKeep, EndpointStaggerKeeps, DrainConnectionKeeps DEF Timers
<1>7. CASE \E o \in Origins : AdaptiveTick(o) BY <1>7, AdaptiveTickKeeps
<1>8. CASE \E j \in Jobs : JobAdmitted(j) \/ JobCancelled(j) \/ JobDeadline(j)
  BY <1>8, JobAdmittedKeeps, JobEndsKeeps
<1> QED BY <1>1, <1>2, <1>3, <1>4, <1>5, <1>6, <1>7, <1>8 DEF Next

\* For any number of jobs, origins and connections, jobs, sites, probes and tasks keep their
\* types; a connection that the controller knows has at most one request, which its load
\* counts, and none before it is up.
THEOREM ConnectionsInvariant == Spec => []ConnectionsInv
BY Starts, StepKeeps, PTL DEF Spec

\* Every count is a natural number: no timer, retry, slot or piece is taken that is not there.
THEOREM ConnectionsType == Spec => []ConnectionsTypeOK
<1>1. ConnectionsInv => ConnectionsTypeOK
  BY DEF ConnectionsInv, ConnectionsTypeOK, JobsOK, SitesOK, ProbesOK, WorkOK, ConnsOK, Typed, Probe, Request, Range
<1> QED BY <1>1, ConnectionsInvariant, PTL

\* release_assignment_slot and claim_one keep the in-flight count of a connection equal to
\* the number of workers on it, through every replan, cancellation and lost connection.
THEOREM LoadIsExact == Spec => []LoadExact
<1>1. ASSUME ConnectionsInv PROVE LoadExact
  <2> SUFFICES ASSUME NEW c \in DOMAIN conns PROVE conns[c].load = Cardinality({w \in work : w.conn = c})
    BY DEF LoadExact
  <2>1. conns[c].load \in {0, 1} BY <1>1, Keys DEF Connection
  <2>2. Counted(conns, work) BY <1>1, Parts DEF ConnsOK
  <2>3. CASE conns[c].load = 0
    <3>1. {w \in work : w.conn = c} = {} BY <2>2, <2>3 DEF Counted
    <3> QED BY <2>3, <3>1, FS_EmptySet
  <2>4. CASE conns[c].load = 1
    <3>1. PICK w \in work : w.conn = c BY <2>2, <2>4 DEF Counted
    <3>2. {x \in work : x.conn = c} = {w} BY <2>2, <3>1 DEF Counted
    <3> QED BY <2>4, <3>2, FS_Singleton
  <2> QED BY <2>1, <2>3, <2>4
<1> QED BY <1>1, ConnectionsInvariant, PTL

\* A connection is closed under a worker only with the report of that worker or with the
\* answer to a probe on it: races, trials that are reverted and the end of a job spare it.
THEOREM NothingAborted == Spec => NoAbort
<1>1. ConnectionsInv /\ [Next]_vars =>
        [\A c \in DOMAIN conns \ DOMAIN conns' :
           conns[c].load = 0 \/ \E t \in probes \cup work : t.conn = c /\ t \notin probes' \cup work']_vars
  BY StepKeeps DEF Spared
<1> QED BY <1>1, ConnectionsInvariant, PTL DEF Spec, NoAbort

=============================================================================
