----------------------------- MODULE ProjectCard -----------------------------
(***************************************************************************)
(* The home page: the cards of apps/web/components/ProjectCard.tsx in the  *)
(* order of apps/web/components/views/Overview.tsx, over the summaries     *)
(* that crates/runscape-server builds (dto.rs, attribution.rs).            *)
(*                                                                         *)
(* The summary and the card each sort, filter and add up the services, on  *)
(* either side of the wire; the card is right if the two agree.            *)
(*                                                                         *)
(* Abstractions.  Memory only, ranked as CPU is.  A service is numbered in *)
(* the order of its name, and so is a project.                             *)
(***************************************************************************)
EXTENDS Integers, Sequences, FiniteSets, SequencesExt

CONSTANTS
  Member,      \* services, numbered in name order
  Family,      \* projects, numbered in name order
  FamilyOf,    \* the project of a service
  Memory,      \* what a measured service may use
  Down,        \* a service that is not running
  Unmeasured   \* a running container without stats

ASSUME FamilyAssumption ==
  /\ Member \subseteq Nat /\ Family \subseteq Nat /\ FamilyOf \in [Member -> Family]
  /\ IsFiniteSet(Member) /\ IsFiniteSet(Family)
ASSUME MemoryAssumption == Memory \subseteq Nat /\ {Down, Unmeasured} \cap Nat = {}

VARIABLE load  \* what the last tick observed of each service

CHIP_LIMIT == 8

Load == Memory \cup {Down, Unmeasured}

ServicesOf(p) == {s \in Member : FamilyOf[s] = p}
Up(S) == {s \in S : load[s] # Down}
Measured(S) == {s \in S : load[s] \in Nat}

\* total_memory_bytes: what is not measured counts for nothing.
Bytes(s) == IF load[s] \in Nat THEN load[s] ELSE 0
BytesOf(S) == MapThenSumSet(Bytes, S)

\* The elements of S in the order R, a set of pairs.  (SetToSortSeq, for the provers: they cannot
\* expand its SortSeq.)
InOrder(S, R) ==
  CHOOSE q \in [1..Cardinality(S) -> S] : \A i, j \in DOMAIN q : i < j => <<q[i], q[j]>> \in R

----------------------------------------------------------------------------
(***************************************************************************)
(* The daemon's side.                                                      *)
(***************************************************************************)
Comes(s, t) == Bytes(s) > Bytes(t) \/ (Bytes(s) = Bytes(t) /\ s < t)

\* by_memory: every running service, the largest first.
RankedByMemory(p) ==
  LET up == Up(ServicesOf(p)) IN InOrder(up, {st \in up \X up : Comes(st[1], st[2])})

\* Fault: the largest service is dominant whatever its share.
DominantLargest(p) ==
  LET ranked == RankedByMemory(p) IN IF ranked = <<>> THEN {} ELSE {ranked[1]}

\* dominant_memory: half of what is measured, if that is at least two services.
Dominant(p) ==
  LET ranked   == RankedByMemory(p)
      measured == Measured(ServicesOf(p))
  IN {s \in measured :
        /\ ranked[1] = s /\ Cardinality(measured) >= 2
        /\ BytesOf(measured) > 0 /\ 2 * Bytes(s) >= BytesOf(measured)}

RunningOf(p) == Cardinality(Up(ServicesOf(p)))

Summary(p) ==
  [running |-> RunningOf(p), services |-> Cardinality(ServicesOf(p)),
   memory |-> BytesOf(ServicesOf(p)), ranked |-> RankedByMemory(p), dominant |-> Dominant(p)]

----------------------------------------------------------------------------
(***************************************************************************)
(* The dashboard's side.                                                   *)
(***************************************************************************)
\* Fault: the cards are sorted by what moves with every tick.
CardBeforeByMemory(p, q) ==
  LET m == Summary(p).memory  n == Summary(q).memory IN m > n \/ (m = n /\ p < q)

\* Overview: projects with more services running first, then by name.
CardBefore(p, q) ==
  LET m == RunningOf(p)  n == RunningOf(q) IN m > n \/ (m = n /\ p < q)

Cards == InOrder(Family, {pq \in Family \X Family : CardBefore(pq[1], pq[2])})

IsProjectIdle(p) == RunningOf(p) = 0

\* MemoryShare: the services that get a segment, as wide as their part of these.
Segments(p) ==
  LET ranked == Summary(p).ranked
      drawn  == {i \in DOMAIN ranked : load[ranked[i]] \in Nat /\ Bytes(ranked[i]) > 0}
      places == InOrder(drawn, {ij \in drawn \X drawn : ij[1] < ij[2]})
  IN [n \in DOMAIN places |-> ranked[places[n]]]

\* Nothing is drawn without a segment or a total.
HasBar(p) == ~IsProjectIdle(p) /\ Segments(p) # <<>> /\ Summary(p).memory # 0

\* segmentTone.
Tone(p, i) ==
  IF Segments(p)[i] \in Summary(p).dominant THEN "amber"
  ELSE IF i = 1 THEN "indigo" ELSE IF i % 2 = 1 THEN "zinc-500" ELSE "zinc-600"

\* The chips: the first few of the ranking, the first of them marked hot.
Chips(p) == SubSeq(Summary(p).ranked, 1, IF Len(Summary(p).ranked) < CHIP_LIMIT
                                         THEN Len(Summary(p).ranked) ELSE CHIP_LIMIT)

\* What a card says: how many services run, what they use, who they are, and who uses it.
RunningBody(p) ==
  [running |-> Summary(p).running, memory |-> Summary(p).memory, chips |-> Chips(p),
   bar |-> IF HasBar(p) THEN Segments(p) ELSE <<>>]

IdleBody == [running |-> 0, memory |-> 0, chips |-> <<>>, bar |-> <<>>]

CardBody(p) == IF IsProjectIdle(p) THEN IdleBody ELSE RunningBody(p)

----------------------------------------------------------------------------
CardInit == load = [s \in Member |-> Down]

\* A tick observes one service differently.
Observe(s, l) == load[s] # l /\ load' = [load EXCEPT ![s] = l]

CardNext == \E s \in Member, l \in Load : Observe(s, l)

CardSpec == CardInit /\ [][CardNext]_load

----------------------------------------------------------------------------
(***************************************************************************)
(* Properties.                                                             *)
(***************************************************************************)
\* The bar of a card adds up: it is there exactly when something measured uses memory; its
\* segments are the services that do, each once, the largest first, and together they are the
\* total printed beside it; a service in amber is the first and at least half of the bar.  The
\* chips are services that run, and all of them when they are few enough.
BarAddsUp ==
  \A p \in Family :
    LET card     == CardBody(p)
        segments == card.bar
        drawn    == ToSet(segments)
    IN /\ segments # <<>> <=> \E s \in ServicesOf(p) : Bytes(s) > 0
       /\ Len(segments) = Cardinality(drawn) /\ drawn \subseteq Measured(ServicesOf(p))
       /\ BytesOf(drawn) = card.memory
       /\ ToSet(card.chips) \subseteq Up(ServicesOf(p))
       /\ Cardinality(ToSet(card.chips)) = (IF card.running < CHIP_LIMIT THEN card.running
                                             ELSE CHIP_LIMIT)
       /\ \A i, j \in DOMAIN segments : i < j => Bytes(segments[i]) >= Bytes(segments[j])
       /\ \A i \in DOMAIN segments : Bytes(segments[i]) > 0
       /\ \A i \in DOMAIN segments : Tone(p, i) = "amber" =>
            i = 1 /\ 2 * Bytes(segments[i]) >= BytesOf(drawn)

Place(p, cards) == CHOOSE i \in DOMAIN cards : cards[i] = p

\* Cards do not jump about: two cards change places only when services of one of them start or
\* stop, never because memory moved; and idle projects stay behind the running ones.
CardsKeepTheirPlaces ==
  [][load' # load =>
       LET before == Cards  after == Cards' IN
       \A p, q \in Family :
         /\ Place(p, before) < Place(q, before) /\ Place(p, after) > Place(q, after)
              => \E s \in ServicesOf(p) \cup ServicesOf(q) : (load[s] = Down) # (load'[s] = Down)
         /\ IsProjectIdle(p)' /\ ~IsProjectIdle(q)' => Place(q, after) < Place(p, after)]_load
=============================================================================
