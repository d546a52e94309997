--------------------------------- MODULE Demo ---------------------------------
(***************************************************************************)
(* The fixtures of the hosted demo, apps/web/lib/demo.ts, and the answers  *)
(* `demoGet` of apps/web/lib/api.ts makes of them instead of a daemon.     *)
(*                                                                         *)
(* Abstractions.  A fixture is its id and the ids it speaks of: what is    *)
(* measured in it is left out, and so is when.                             *)
(***************************************************************************)
EXTENDS Sequences, SequencesExt

DEMO_PROJECT == "prj_demo"

DEMO_CONNECTION == [source |-> "svc_demo_web", target |-> "svc_demo_api"]

DEMO_SERVICES == <<[id |-> "svc_demo_web", rev |-> 1], [id |-> "svc_demo_api", rev |-> 1]>>

\* An event: its id, its project and the services its kind names.
DEMO_EVENTS ==
  <<[id |-> 1, project |-> DEMO_PROJECT, about |-> {}],
    [id |-> 2, project |-> DEMO_PROJECT, about |-> {"svc_demo_web"}],
    [id |-> 3, project |-> DEMO_PROJECT, about |-> {"svc_demo_api"}],
    [id |-> 4, project |-> DEMO_PROJECT, about |-> {DEMO_CONNECTION.source, DEMO_CONNECTION.target}]>>

DEMO_STATUS == [projects |-> 1, services |-> Len(DEMO_SERVICES), connections |-> 1,
                events |-> Len(DEMO_EVENTS)]

DEMO_PROJECT_DETAIL == [project |-> DEMO_PROJECT, services |-> DEMO_SERVICES,
                        connections |-> <<DEMO_CONNECTION>>, events |-> Reverse(DEMO_EVENTS)]

DemoIds == {DEMO_SERVICES[i].id : i \in DOMAIN DEMO_SERVICES}

\* demoServiceDetail: the edges of a service and the events that name it; none for another id.
DemoServiceDetail(id) ==
  [outbound |-> {x \in {DEMO_CONNECTION.target} : DEMO_CONNECTION.source = id},
   inbound  |-> {x \in {DEMO_CONNECTION.source} : DEMO_CONNECTION.target = id},
   events   |-> Reverse(SelectSeq(DEMO_EVENTS, LAMBDA e : id \in e.about))]

\* Fault: only the overview and the project are exported.
StaticSlugsShort == {<<>>, <<"projects", DEMO_PROJECT>>}

\* DEMO_STATIC_SLUGS: the paths a static host can answer.
StaticSlugs == {<<>>, <<"projects", DEMO_PROJECT>>} \cup {<<"services", s>> : s \in DemoIds}
=============================================================================
