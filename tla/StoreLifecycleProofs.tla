-------------------------- MODULE StoreLifecycleProofs --------------------------
(***************************************************************************)
(* Proofs about StoreLifecycle for any processes, files, budgets, clocks   *)
(* and options of maintenance: every invariant of the run store and its    *)
(* action property.                                                        *)
(*                                                                         *)
(* The invariant IInv says of every image that its graph fits its marks    *)
(* and its version and that its rows come from whole files, and of every   *)
(* process what it has already seen to: an upgrade what it has cleared or  *)
(* found clear, an import what it has read. The lemmas of the first part   *)
(* say what each operation makes of an image that is well; the parts after *)
(* it take the conjuncts of IInv one by one through the steps.             *)
(***************************************************************************)
EXTENDS StoreLifecycle, FiniteSetTheorems, SequenceTheorems, WellFoundedInduction, TLAPS

IsImage(x) == x = [f \in Fields |-> x[f]]

Foreign(image) == image.app = "other" \/ image.version > Supported

\* The graph of an image, whatever the history of the image.
GraphOK(image) ==
  /\ image.projected \subseteq Keys(image) /\ image.torn \subseteq Procs
  /\ image.unsourced \subseteq image.edges /\ image.unattributed \subseteq image.nodes
  /\ image.torn = {} =>
       \A key \in image.projected :
         key \in image.nodes \cap image.spans \cap image.cues /\ <<key, key>> \in image.edges
  /\ ~image.shared =>
       /\ image.spans \cup image.cues \subseteq image.nodes
       /\ \A edge \in image.edges : {edge[1], edge[2]} \subseteq image.nodes

\* Version 3 knows who closed a node, version 5 where an edge comes from.
VersionOK(image) ==
  ~image.shared =>
    /\ image.version >= 3 => image.unattributed = {}
    /\ image.version >= 5 => image.unsourced = {}

ImageOK(image) ==
  /\ IsImage(image) /\ image.version \in Nat
  /\ GraphOK(image) /\ VersionOK(image) /\ Whole(image)

ImagesOK == \A image \in Images : ImageOK(image)

\* Where a process can be, and what it knows there.
Versioned == {"schema", "alter", "backfill", "check3", "check5"}
Resets == {"reset3", "reset5"}

Placed(s) ==
  \/ s \in [at : {"closed", "identify", "stamp", "open", "backup"}]
  \/ s \in [at : Versioned, from : 0..Supported]
  \/ s \in [at : Resets, from : 0..Supported, done : 0..4]
  \/ s \in [at : {"prune"}, options : [before : Int, keep : Int]]
  \/ /\ s = [at |-> "import", items |-> s.items, next |-> s.next, ledger |-> s.ledger,
             report |-> s.report]
     /\ s.next \in Nat \ {0} /\ Len(s.items) \in Nat /\ DOMAIN s.items = 1..Len(s.items)

TypesOK ==
  /\ left \in [Operations -> Nat] /\ clock \in Clock /\ setBack \in BOOLEAN
  /\ proc = [p \in Procs |-> proc[p]] /\ \A p \in Procs : Placed(proc[p])

\* What a process that upgrades an image has already seen to, unless another
\* one wrote to the image meanwhile.
Upgraded(s, image) ==
  ~image.shared =>
    /\ s.at \in Versioned \cup Resets =>
         /\ s.from >= 3 => image.unattributed = {}
         /\ s.from >= 5 => image.unsourced = {}
    /\ s.at \in Resets =>
         /\ s.done >= 1 => image.edges = {} /\ image.unsourced = {}
         /\ s.done >= 2 => image.spans = {}
         /\ s.done >= 3 => image.cues = {}
         /\ s.done >= 4 => image.unattributed = {}
    /\ s.at \in {"check5", "reset5", "stamp"} => image.unattributed = {}
    /\ s.at = "stamp" => image.unsourced = {}

UpgradesOK == \A p \in Procs : Upgraded(proc[p], live)

\* The files of a transaction that has not ended.
Importing(s) ==
  /\ live.ledger \subseteq s.ledger
  /\ \A row \in s.ledger : row.from = s.items \/
       \A i \in DOMAIN row.from :
         row.from[i] # Bad /\ (IsEvent(row.from[i]) => row.from[i][2] \in Keys(s))
  /\ \A i \in DOMAIN s.items : i < s.next =>
       s.items[i] # Bad /\ (IsEvent(s.items[i]) => s.items[i][2] \in Keys(s))

ImportsOK ==
  \A p \in Procs : At(p, "import") =>
    /\ \A q \in Procs : At(q, "import") => q = p
    /\ Importing(proc[p])

\* What is known of a step has ended.
Known(keys) == \A i \in DOMAIN steps : StepKey(steps[i]) \in keys => Final(steps[i])

Events(items) == {items[i][2] : i \in {j \in DOMAIN items : IsEvent(items[j])}}

JournalOK ==
  /\ DOMAIN steps = 1..Len(steps) /\ Len(steps) \in Nat
  /\ \A i \in DOMAIN steps :
       /\ steps[i] = [f \in StepFields |-> steps[i][f]]
       /\ StepKey(steps[i]) \notin Remembered
       /\ \A j \in DOMAIN Lines : LineKey(Lines[j]) # StepKey(steps[i])
  /\ \A i, j \in DOMAIN steps : StepKey(steps[i]) = StepKey(steps[j]) => i = j
  /\ \A image \in Images : Known(Keys(image))
  /\ \A p \in Procs : At(p, "import") => Known(Keys(proc[p])) /\ Known(Events(proc[p].items))

\* While the clock was not set back, audit trails are in its order.
AuditOK ==
  ~setBack =>
    \A image \in Images : Trail(image) /\ \A row \in image.audit : row.at <= clock

\* Nobody is at work on a file of another program or of a newer version.
ForeignOK ==
  /\ Foreign(live) => \A p \in Procs : proc[p].at \in {"closed", "identify"}
  /\ (backup # Absent /\ Foreign(backup)) => \A p \in Procs : ~At(p, "backup")

IInv ==
  /\ TypesOK /\ ImagesOK /\ UpgradesOK /\ ImportsOK /\ JournalOK /\ AuditOK /\ ForeignOK

-----------------------------------------------------------------------------
(* What the operations make of an image.                                   *)

\* The graph, the version and the ledger of an image decide whether it is well.
Relevant ==
  {"version", "ledger", "projected", "nodes", "spans", "cues", "edges", "unsourced",
   "unattributed", "torn", "shared"}

LEMMA OtherFields ==
  ASSUME NEW x, NEW y, ImageOK(x), IsImage(y), \A f \in Relevant : y[f] = x[f]
  PROVE ImageOK(y)
<1>1. /\ y.version = x.version /\ y.ledger = x.ledger /\ y.projected = x.projected
      /\ y.nodes = x.nodes /\ y.spans = x.spans /\ y.cues = x.cues /\ y.edges = x.edges
      /\ y.unsourced = x.unsourced /\ y.unattributed = x.unattributed
      /\ y.torn = x.torn /\ y.shared = x.shared
  BY DEF Relevant
<1> QED BY <1>1 DEF ImageOK, GraphOK, VersionOK, Whole, Keys

LEMMA IdentifyImage ==
  ASSUME NEW g, ImageOK(g)
  PROVE ImageOK([g EXCEPT !.app = "memory"])
<1> DEFINE h == [g EXCEPT !.app = "memory"]
<1>1. IsImage(h) /\ \A f \in Relevant : h[f] = g[f] BY DEF ImageOK, IsImage, Fields, Relevant
<1> QED BY <1>1, OtherFields

LEMMA TablesImage ==
  ASSUME NEW g, ImageOK(g), NEW a, NEW b
  PROVE ImageOK([g EXCEPT !.tables = a, !.columns = b])
<1> DEFINE h == [g EXCEPT !.tables = a, !.columns = b]
<1>1. IsImage(h) /\ \A f \in Relevant : h[f] = g[f] BY DEF ImageOK, IsImage, Fields, Relevant
<1> QED BY <1>1, OtherFields

LEMMA ColumnsImage ==
  ASSUME NEW g, ImageOK(g)
  PROVE ImageOK([g EXCEPT !.columns = TRUE])
<1> DEFINE h == [g EXCEPT !.columns = TRUE]
<1>1. IsImage(h) /\ \A f \in Relevant : h[f] = g[f] BY DEF ImageOK, IsImage, Fields, Relevant
<1> QED BY <1>1, OtherFields

LEMMA AuditImage ==
  ASSUME NEW g, ImageOK(g), NEW a, NEW n
  PROVE ImageOK([g EXCEPT !.audit = a, !.audits = n])
<1> DEFINE h == [g EXCEPT !.audit = a, !.audits = n]
<1>1. IsImage(h) /\ \A f \in Relevant : h[f] = g[f] BY DEF ImageOK, IsImage, Fields, Relevant
<1> QED BY <1>1, OtherFields

LEMMA PrunedImage ==
  ASSUME NEW g, ImageOK(g), NEW a
  PROVE ImageOK([g EXCEPT !.audit = a])
<1> DEFINE h == [g EXCEPT !.audit = a]
<1>1. IsImage(h) /\ \A f \in Relevant : h[f] = g[f] BY DEF ImageOK, IsImage, Fields, Relevant
<1> QED BY <1>1, OtherFields

LEMMA BackfillImage ==
  ASSUME NEW g, ImageOK(g), NEW lost
  PROVE ImageOK([g EXCEPT !.unattributed = @ \ lost])
<1> DEFINE h == [g EXCEPT !.unattributed = @ \ lost]
<1>1. /\ IsImage(h) /\ h.unattributed = g.unattributed \ lost
      /\ h.version = g.version /\ h.ledger = g.ledger /\ h.projected = g.projected
      /\ h.nodes = g.nodes /\ h.spans = g.spans /\ h.cues = g.cues /\ h.edges = g.edges
      /\ h.unsourced = g.unsourced /\ h.torn = g.torn /\ h.shared = g.shared
  BY DEF ImageOK, IsImage, Fields
<1> HIDE DEF h
<1>2. GraphOK(h) BY <1>1 DEF ImageOK, GraphOK, Keys
<1>3. VersionOK(h) BY <1>1 DEF ImageOK, VersionOK
<1>4. Whole(h) BY <1>1 DEF ImageOK, Whole, Keys
<1>5. ImageOK(h) BY <1>1, <1>2, <1>3, <1>4 DEF ImageOK
<1> QED BY <1>5 DEF h

LEMMA StampImage ==
  ASSUME NEW g, ImageOK(g), ~g.shared => g.unattributed = {} /\ g.unsourced = {}
  PROVE ImageOK([g EXCEPT !.version = Supported])
<1> DEFINE h == [g EXCEPT !.version = Supported]
<1>1. /\ IsImage(h) /\ h.unattributed = g.unattributed
      /\ h.version = Supported /\ h.ledger = g.ledger /\ h.projected = g.projected
      /\ h.nodes = g.nodes /\ h.spans = g.spans /\ h.cues = g.cues /\ h.edges = g.edges
      /\ h.unsourced = g.unsourced /\ h.torn = g.torn /\ h.shared = g.shared
  BY DEF ImageOK, IsImage, Fields
<1> HIDE DEF h
<1>2. GraphOK(h) BY <1>1 DEF ImageOK, GraphOK, Keys
<1>3. VersionOK(h) BY <1>1 DEF VersionOK
<1>4. Whole(h) BY <1>1 DEF ImageOK, Whole, Keys
<1>5. ImageOK(h) BY <1>1, <1>2, <1>3, <1>4 DEF ImageOK, Supported
<1> QED BY <1>5 DEF h

\* A ledger that has grown, as an append or an import makes it.
LEMMA LedgerImage ==
  ASSUME NEW g, ImageOK(g), NEW ledger, g.ledger \subseteq ledger,
         Whole([g EXCEPT !.ledger = ledger])
  PROVE ImageOK([g EXCEPT !.ledger = ledger])
<1> DEFINE h == [g EXCEPT !.ledger = ledger]
<1>1. /\ IsImage(h) /\ h.unattributed = g.unattributed
      /\ h.version = g.version /\ h.ledger = ledger /\ h.projected = g.projected
      /\ h.nodes = g.nodes /\ h.spans = g.spans /\ h.cues = g.cues /\ h.edges = g.edges
      /\ h.unsourced = g.unsourced /\ h.torn = g.torn /\ h.shared = g.shared
  BY DEF ImageOK, IsImage, Fields
<1>0. Whole(h) OBVIOUS
<1> HIDE DEF h
<1>2. GraphOK(h) BY <1>1 DEF ImageOK, GraphOK, Keys
<1>3. VersionOK(h) BY <1>1 DEF ImageOK, VersionOK
<1>5. ImageOK(h) BY <1>0, <1>1, <1>2, <1>3 DEF ImageOK
<1> QED BY <1>5 DEF h

\* The image that p has written to is well if the image it had in mind is.
LEMMA WrittenImage ==
  ASSUME NEW p, NEW g, ImageOK(g)
  PROVE /\ ImageOK(WrittenBy(p, g))
        /\ WrittenBy(p, g).shared = (g.shared \/ \E q \in Procs \ {p} : proc[q].at \in Upgrading)
<1> DEFINE h == WrittenBy(p, g)
<1>1. /\ IsImage(h) /\ h.unattributed = g.unattributed
      /\ h.version = g.version /\ h.ledger = g.ledger /\ h.projected = g.projected
      /\ h.nodes = g.nodes /\ h.spans = g.spans /\ h.cues = g.cues /\ h.edges = g.edges
      /\ h.unsourced = g.unsourced /\ h.torn = g.torn
      /\ h.shared = (g.shared \/ \E q \in Procs \ {p} : proc[q].at \in Upgrading)
  BY DEF ImageOK, IsImage, Fields, WrittenBy
<1> HIDE DEF h
<1>2. GraphOK(h) BY <1>1 DEF ImageOK, GraphOK, Keys
<1>3. VersionOK(h) BY <1>1 DEF ImageOK, VersionOK
<1>4. Whole(h) BY <1>1 DEF ImageOK, Whole, Keys
<1>5. ImageOK(h) BY <1>1, <1>2, <1>3, <1>4 DEF ImageOK
<1> QED BY <1>1, <1>5 DEF h

LEMMA FoldedImage ==
  ASSUME NEW g, ImageOK(g), NEW key \in Keys(g)
  PROVE ImageOK(Folded(g, key))
<1> DEFINE h == Folded(g, key)
<1>1. /\ IsImage(h) /\ h.unattributed = g.unattributed
      /\ h.version = g.version /\ h.ledger = g.ledger
      /\ h.projected = g.projected \cup {key}
      /\ h.nodes = g.nodes \cup {key} /\ h.spans = g.spans \cup {key}
      /\ h.cues = g.cues \cup {key}
      /\ h.edges = g.edges \cup {<<key, other>> : other \in g.nodes \cup {key}}
      /\ h.unsourced = g.unsourced /\ h.torn = g.torn /\ h.shared = g.shared
  BY DEF ImageOK, IsImage, Fields, Folded
<1> HIDE DEF h
<1>2. GraphOK(h) BY <1>1 DEF ImageOK, GraphOK, Keys
<1>3. VersionOK(h) BY <1>1 DEF ImageOK, VersionOK
<1>4. Whole(h) BY <1>1 DEF ImageOK, Whole, Keys
<1>5. ImageOK(h) BY <1>1, <1>2, <1>3, <1>4 DEF ImageOK
<1> QED BY <1>5 DEF h

\* The whole reset, in one transaction.
Emptied(image) == Cleared(Cleared(Cleared(Cleared(Cleared(image, 1), 2), 3), 4), 5)

LEMMA ClearedIs ==
  ASSUME NEW g
  PROVE /\ Cleared(g, 1) = [g EXCEPT !.edges = {}, !.unsourced = {}]
        /\ Cleared(g, 2) = [g EXCEPT !.spans = {}]
        /\ Cleared(g, 3) = [g EXCEPT !.cues = {}]
        /\ Cleared(g, 4) = [g EXCEPT !.nodes = {}, !.unattributed = {}]
        /\ Cleared(g, 5) = [g EXCEPT !.projected = {}]
BY DEF Cleared

LEMMA ClearedFields ==
  ASSUME NEW g, IsImage(g), NEW n \in 1..5, NEW h, h = Cleared(g, n)
  PROVE  /\ IsImage(h) /\ h.version = g.version /\ h.ledger = g.ledger
            /\ h.torn = g.torn /\ h.shared = g.shared
            /\ (n = 1 => h.edges = {}) /\ (n # 1 => h.edges = g.edges)
            /\ (n = 1 => h.unsourced = {}) /\ (n # 1 => h.unsourced = g.unsourced)
            /\ (n = 2 => h.spans = {}) /\ (n # 2 => h.spans = g.spans)
            /\ (n = 3 => h.cues = {}) /\ (n # 3 => h.cues = g.cues)
            /\ (n = 4 => h.nodes = {}) /\ (n # 4 => h.nodes = g.nodes)
            /\ (n = 4 => h.unattributed = {}) /\ (n # 4 => h.unattributed = g.unattributed)
            /\ (n = 5 => h.projected = {}) /\ (n # 5 => h.projected = g.projected)
            /\ h.audit = g.audit /\ h.audits = g.audits /\ h.app = g.app
<1>1. CASE n = 1
  <2>1. h = [g EXCEPT !.edges = {}, !.unsourced = {}] BY <1>1, ClearedIs
  <2>2. IsImage(h) /\ h.version = g.version /\ h.ledger = g.ledger /\ h.torn = g.torn /\ h.shared = g.shared
        /\ h.edges = {} /\ h.unsourced = {}
        /\ h.spans = g.spans /\ h.cues = g.cues /\ h.nodes = g.nodes /\ h.unattributed = g.unattributed
        /\ h.projected = g.projected /\ h.audit = g.audit /\ h.audits = g.audits /\ h.app = g.app
    BY <2>1 DEF IsImage, Fields
  <2> QED BY <1>1, <2>2
<1>2. CASE n = 2
  <2>1. h = [g EXCEPT !.spans = {}] BY <1>2, ClearedIs
  <2>2. IsImage(h) /\ h.version = g.version /\ h.ledger = g.ledger /\ h.torn = g.torn /\ h.shared = g.shared
        /\ h.edges = g.edges /\ h.unsourced = g.unsourced
        /\ h.spans = {} /\ h.cues = g.cues /\ h.nodes = g.nodes /\ h.unattributed = g.unattributed
        /\ h.projected = g.projected /\ h.audit = g.audit /\ h.audits = g.audits /\ h.app = g.app
    BY <2>1 DEF IsImage, Fields
  <2> QED BY <1>2, <2>2
<1>3. CASE n = 3
  <2>1. h = [g EXCEPT !.cues = {}] BY <1>3, ClearedIs
  <2>2. IsImage(h) /\ h.version = g.version /\ h.ledger = g.ledger /\ h.torn = g.torn /\ h.shared = g.shared
        /\ h.edges = g.edges /\ h.unsourced = g.unsourced
        /\ h.spans = g.spans /\ h.cues = {} /\ h.nodes = g.nodes /\ h.unattributed = g.unattributed
        /\ h.projected = g.projected /\ h.audit = g.audit /\ h.audits = g.audits /\ h.app = g.app
    BY <2>1 DEF IsImage, Fields
  <2> QED BY <1>3, <2>2
<1>4. CASE n = 4
  <2>1. h = [g EXCEPT !.nodes = {}, !.unattributed = {}] BY <1>4, ClearedIs
  <2>2. IsImage(h) /\ h.version = g.version /\ h.ledger = g.ledger /\ h.torn = g.torn /\ h.shared = g.shared
        /\ h.edges = g.edges /\ h.unsourced = g.unsourced
        /\ h.spans = g.spans /\ h.cues = g.cues /\ h.nodes = {} /\ h.unattributed = {}
        /\ h.projected = g.projected /\ h.audit = g.audit /\ h.audits = g.audits /\ h.app = g.app
    BY <2>1 DEF IsImage, Fields
  <2> QED BY <1>4, <2>2
<1>5. CASE n = 5
  <2>1. h = [g EXCEPT !.projected = {}] BY <1>5, ClearedIs
  <2>2. IsImage(h) /\ h.version = g.version /\ h.ledger = g.ledger /\ h.torn = g.torn /\ h.shared = g.shared
        /\ h.edges = g.edges /\ h.unsourced = g.unsourced
        /\ h.spans = g.spans /\ h.cues = g.cues /\ h.nodes = g.nodes /\ h.unattributed = g.unattributed
        /\ h.projected = {} /\ h.audit = g.audit /\ h.audits = g.audits /\ h.app = g.app
    BY <2>1 DEF IsImage, Fields
  <2> QED BY <1>5, <2>2
<1> QED BY <1>1, <1>2, <1>3, <1>4, <1>5

LEMMA EmptiedFields ==
  ASSUME NEW g, IsImage(g)
  PROVE LET h == Emptied(g)
        IN  /\ IsImage(h) /\ h.version = g.version /\ h.ledger = g.ledger
            /\ h.torn = g.torn /\ h.shared = g.shared
            /\ h.edges = {} /\ h.unsourced = {} /\ h.spans = {} /\ h.cues = {}
            /\ h.nodes = {} /\ h.unattributed = {} /\ h.projected = {}
            /\ h.audit = g.audit /\ h.audits = g.audits /\ h.app = g.app
<1> DEFINE h1 == Cleared(g, 1)
           h2 == Cleared(h1, 2)
           h3 == Cleared(h2, 3)
           h4 == Cleared(h3, 4)
           h5 == Cleared(h4, 5)
<1>a. h1 = [g EXCEPT !.edges = {}, !.unsourced = {}] BY ClearedIs
<1>1. IsImage(h1) /\ h1.version = g.version /\ h1.ledger = g.ledger /\ h1.torn = g.torn
      /\ h1.shared = g.shared /\ h1.edges = {} /\ h1.unsourced = {}
      /\ h1.audit = g.audit /\ h1.audits = g.audits /\ h1.app = g.app
  BY <1>a DEF IsImage, Fields
<1> HIDE DEF h1
<1>b. h2 = [h1 EXCEPT !.spans = {}] BY ClearedIs
<1>2. IsImage(h2) /\ h2.version = g.version /\ h2.ledger = g.ledger /\ h2.torn = g.torn
      /\ h2.shared = g.shared /\ h2.edges = {} /\ h2.unsourced = {} /\ h2.spans = {}
      /\ h2.audit = g.audit /\ h2.audits = g.audits /\ h2.app = g.app
  BY <1>1, <1>b DEF IsImage, Fields
<1> HIDE DEF h2
<1>c. h3 = [h2 EXCEPT !.cues = {}] BY ClearedIs
<1>3. IsImage(h3) /\ h3.version = g.version /\ h3.ledger = g.ledger /\ h3.torn = g.torn
      /\ h3.shared = g.shared /\ h3.edges = {} /\ h3.unsourced = {} /\ h3.spans = {}
      /\ h3.cues = {} /\ h3.audit = g.audit /\ h3.audits = g.audits /\ h3.app = g.app
  BY <1>2, <1>c DEF IsImage, Fields
<1> HIDE DEF h3
<1>d. h4 = [h3 EXCEPT !.nodes = {}, !.unattributed = {}] BY ClearedIs
<1>4. IsImage(h4) /\ h4.version = g.version /\ h4.ledger = g.ledger /\ h4.torn = g.torn
      /\ h4.shared = g.shared /\ h4.edges = {} /\ h4.unsourced = {} /\ h4.spans = {}
      /\ h4.cues = {} /\ h4.nodes = {} /\ h4.unattributed = {}
      /\ h4.audit = g.audit /\ h4.audits = g.audits /\ h4.app = g.app
  BY <1>3, <1>d DEF IsImage, Fields
<1> HIDE DEF h4
<1>e. h5 = [h4 EXCEPT !.projected = {}] BY ClearedIs
<1>5. IsImage(h5) /\ h5.version = g.version /\ h5.ledger = g.ledger /\ h5.torn = g.torn
      /\ h5.shared = g.shared /\ h5.edges = {} /\ h5.unsourced = {} /\ h5.spans = {}
      /\ h5.cues = {} /\ h5.nodes = {} /\ h5.unattributed = {} /\ h5.projected = {}
      /\ h5.audit = g.audit /\ h5.audits = g.audits /\ h5.app = g.app
  BY <1>4, <1>e DEF IsImage, Fields
<1> QED BY <1>5 DEF h1, h2, h3, h4, Emptied

\* A statement of a reset, which its process has begun in the same order.
LEMMA ResetImage ==
  ASSUME NEW p \in Procs, NEW g, ImageOK(g), NEW n \in 1..5, NEW others \in SUBSET Procs,
         ~g.shared => /\ n >= 2 => g.edges = {}
                      /\ n >= 3 => g.spans = {}
                      /\ n >= 4 => g.cues = {}
  PROVE ImageOK([Cleared(g, n) EXCEPT !.torn = IF n = 5 THEN others ELSE @ \cup {p}])
<1> DEFINE c == Cleared(g, n)
           h == [c EXCEPT !.torn = IF n = 5 THEN others ELSE @ \cup {p}]
<1>1. /\ IsImage(c) /\ c.version = g.version /\ c.ledger = g.ledger
      /\ c.torn = g.torn /\ c.shared = g.shared
      /\ (n = 1 => c.edges = {}) /\ (n # 1 => c.edges = g.edges)
      /\ (n = 1 => c.unsourced = {}) /\ (n # 1 => c.unsourced = g.unsourced)
      /\ (n = 2 => c.spans = {}) /\ (n # 2 => c.spans = g.spans)
      /\ (n = 3 => c.cues = {}) /\ (n # 3 => c.cues = g.cues)
      /\ (n = 4 => c.nodes = {}) /\ (n # 4 => c.nodes = g.nodes)
      /\ (n = 4 => c.unattributed = {}) /\ (n # 4 => c.unattributed = g.unattributed)
      /\ (n = 5 => c.projected = {}) /\ (n # 5 => c.projected = g.projected)
  <2>1. IsImage(g) BY DEF ImageOK
  <2> HIDE DEF c
  <2>2. c = Cleared(g, n) BY DEF c
  <2> QED BY <2>1, <2>2, ClearedFields
<1> HIDE DEF c
<1>2. /\ IsImage(h) /\ h.version = c.version /\ h.ledger = c.ledger
      /\ (n = 5 => h.torn = others) /\ (n # 5 => h.torn = c.torn \cup {p})
      /\ h.shared = c.shared
      /\ h.edges = c.edges /\ h.unsourced = c.unsourced /\ h.spans = c.spans
      /\ h.cues = c.cues /\ h.nodes = c.nodes /\ h.unattributed = c.unattributed
      /\ h.projected = c.projected
  BY <1>1 DEF IsImage, Fields
<1> HIDE DEF h
<1>3. h.torn \subseteq Procs /\ (h.torn = {} => h.projected = {})
  BY <1>1, <1>2 DEF ImageOK, GraphOK
<1>4. h.projected \subseteq g.projected /\ h.unsourced \subseteq h.edges
      /\ h.unattributed \subseteq h.nodes
  BY <1>1, <1>2 DEF ImageOK, GraphOK
<1>5. h.projected \subseteq Keys(h) BY <1>1, <1>2, <1>4 DEF ImageOK, GraphOK, Keys
<1>6. ~h.shared => /\ h.spans \cup h.cues \subseteq h.nodes
                   /\ \A edge \in h.edges : {edge[1], edge[2]} \subseteq h.nodes
  <2> SUFFICES ASSUME ~h.shared
               PROVE  /\ h.spans \cup h.cues \subseteq h.nodes
                      /\ \A edge \in h.edges : {edge[1], edge[2]} \subseteq h.nodes
    OBVIOUS
  <2>1. CASE n = 4 BY <2>1, <1>1, <1>2
  <2>2. CASE n # 4 BY <2>2, <1>1, <1>2 DEF ImageOK, GraphOK
  <2> QED BY <2>1, <2>2
<1>7. GraphOK(h) BY <1>3, <1>4, <1>5, <1>6 DEF GraphOK
<1>8. VersionOK(h) BY <1>1, <1>2 DEF ImageOK, VersionOK
<1>9. Whole(h) BY <1>1, <1>2 DEF ImageOK, Whole, Keys
<1>10. ImageOK(h) BY <1>1, <1>2, <1>7, <1>8, <1>9 DEF ImageOK
<1> QED BY <1>10 DEF h, c

LEMMA ReplayedImage ==
  ASSUME NEW g, ImageOK(g), NEW keys \in SUBSET Keys(g), NEW order \in Orders(keys)
  PROVE ImageOK([Replayed(Emptied(g), keys, order) EXCEPT !.torn = {q \in @ : InReset(q)}])
<1> DEFINE c == Emptied(g)
           r == Replayed(c, keys, order)
           h == [r EXCEPT !.torn = {q \in @ : InReset(q)}]
<1>1. /\ IsImage(c) /\ c.version = g.version /\ c.ledger = g.ledger
      /\ c.torn = g.torn /\ c.shared = g.shared
      /\ c.edges = {} /\ c.unsourced = {} /\ c.spans = {} /\ c.cues = {}
      /\ c.nodes = {} /\ c.unattributed = {} /\ c.projected = {}
  BY EmptiedFields DEF ImageOK
<1> HIDE DEF c
<1>2. /\ IsImage(r) /\ r.version = c.version /\ r.ledger = c.ledger
      /\ r.torn = c.torn /\ r.shared = c.shared /\ r.unsourced = c.unsourced
      /\ r.unattributed = c.unattributed
      /\ r.nodes = c.nodes \cup keys /\ r.spans = c.spans \cup keys
      /\ r.cues = c.cues \cup keys /\ r.projected = c.projected \cup keys
      /\ r.edges = c.edges \cup {e \in keys \X keys : order[e[2]] <= order[e[1]]}
  BY <1>1 DEF IsImage, Fields, Replayed
<1> HIDE DEF r
<1>3. /\ IsImage(h) /\ h.version = r.version /\ h.ledger = r.ledger
      /\ h.torn = {q \in r.torn : InReset(q)} /\ h.shared = r.shared
      /\ h.unsourced = r.unsourced /\ h.unattributed = r.unattributed
      /\ h.nodes = r.nodes /\ h.spans = r.spans /\ h.cues = r.cues
      /\ h.projected = r.projected /\ h.edges = r.edges
  BY <1>2 DEF IsImage, Fields
<1> HIDE DEF h
<1>4. /\ h.nodes = keys /\ h.spans = keys /\ h.cues = keys /\ h.projected = keys
      /\ h.unsourced = {} /\ h.unattributed = {} /\ h.ledger = g.ledger
      /\ h.version = g.version /\ h.torn \subseteq g.torn
  BY <1>1, <1>2, <1>3
<1>5. h.edges = {e \in keys \X keys : order[e[2]] <= order[e[1]]} BY <1>1, <1>2, <1>3
<1>6. \A key \in keys : <<key, key>> \in h.edges
  <2> TAKE key \in keys
  <2>1. order[key] \in Int BY DEF Orders
  <2>2. order[<<key, key>>[2]] <= order[<<key, key>>[1]] BY <2>1
  <2> QED BY <1>5, <2>2
<1>7. \A edge \in h.edges : {edge[1], edge[2]} \subseteq keys BY <1>5
<1>8. GraphOK(h) BY <1>4, <1>6, <1>7 DEF ImageOK, GraphOK, Keys
<1>9. VersionOK(h) BY <1>4 DEF VersionOK
<1>10. Whole(h) BY <1>4 DEF ImageOK, Whole, Keys
<1>11. ImageOK(h) BY <1>3, <1>4, <1>8, <1>9, <1>10 DEF ImageOK
<1> QED BY <1>11 DEF h, r, c

LEMMA RepairedFields ==
  ASSUME NEW g, IsImage(g)
  PROVE LET h == Repaired(g)
        IN  /\ IsImage(h) /\ h.version = g.version /\ h.ledger = g.ledger
            /\ h.torn = g.torn /\ h.shared = g.shared /\ h.nodes = g.nodes
            /\ h.unattributed = g.unattributed /\ h.projected = g.projected
            /\ h.edges = {e \in g.edges : {e[1], e[2]} \subseteq g.nodes}
            /\ h.unsourced = g.unsourced \
                 {e \in g.edges : ~({e[1], e[2]} \subseteq g.nodes)}
            /\ h.spans = g.spans \cap g.nodes /\ h.cues = g.cues \cap g.nodes
            /\ h.audit = g.audit /\ h.audits = g.audits /\ h.app = g.app
BY DEF IsImage, Fields, Repaired, Orphaned

LEMMA RepairedImage ==
  ASSUME NEW g, ImageOK(g)
  PROVE ImageOK(Repaired(g))
<1> DEFINE h == Repaired(g)
<1>1. /\ IsImage(h) /\ h.version = g.version /\ h.ledger = g.ledger
      /\ h.torn = g.torn /\ h.shared = g.shared /\ h.nodes = g.nodes
      /\ h.unattributed = g.unattributed /\ h.projected = g.projected
      /\ h.edges = {e \in g.edges : {e[1], e[2]} \subseteq g.nodes}
      /\ h.unsourced = g.unsourced \ {e \in g.edges : ~({e[1], e[2]} \subseteq g.nodes)}
      /\ h.spans = g.spans \cap g.nodes /\ h.cues = g.cues \cap g.nodes
  BY RepairedFields DEF ImageOK
<1> HIDE DEF h
<1>2. h.unsourced \subseteq h.edges /\ h.unsourced \subseteq g.unsourced
  BY <1>1 DEF ImageOK, GraphOK
<1>3. \A key : <<key, key>> \in g.edges /\ key \in g.nodes => <<key, key>> \in h.edges
  BY <1>1
<1>4. GraphOK(h) BY <1>1, <1>2, <1>3 DEF ImageOK, GraphOK, Keys
<1>5. VersionOK(h) BY <1>1, <1>2 DEF ImageOK, VersionOK
<1>6. Whole(h) BY <1>1 DEF ImageOK, Whole, Keys
<1> QED BY <1>1, <1>4, <1>5, <1>6 DEF ImageOK, h

\* A backup that is restored while processes are in a reset.
LEMMA RestoredImage ==
  ASSUME NEW g, ImageOK(g), NEW more \in SUBSET Procs
  PROVE ImageOK([g EXCEPT !.torn = @ \cup more])
<1> DEFINE h == [g EXCEPT !.torn = @ \cup more]
<1>1. /\ IsImage(h) /\ h.unattributed = g.unattributed
      /\ h.version = g.version /\ h.ledger = g.ledger /\ h.projected = g.projected
      /\ h.nodes = g.nodes /\ h.spans = g.spans /\ h.cues = g.cues /\ h.edges = g.edges
      /\ h.unsourced = g.unsourced /\ h.torn = g.torn \cup more /\ h.shared = g.shared
  BY DEF ImageOK, IsImage, Fields
<1> HIDE DEF h
<1>2. GraphOK(h) BY <1>1 DEF ImageOK, GraphOK, Keys
<1>3. VersionOK(h) BY <1>1 DEF ImageOK, VersionOK
<1>4. Whole(h) BY <1>1 DEF ImageOK, Whole, Keys
<1>5. ImageOK(h) BY <1>1, <1>2, <1>3, <1>4 DEF ImageOK
<1> QED BY <1>5 DEF h

-----------------------------------------------------------------------------
(* Where the operations take a process.                                    *)

LEMMA Places ==
  ASSUME NEW s, Placed(s)
  PROVE /\ s.at \in Upgrading \cup {"closed", "open", "import", "backup", "prune"}
        /\ s.at \in Versioned =>
             s = [at |-> s.at, from |-> s.from] /\ s.from \in 0..Supported
        /\ s.at \in Resets =>
             /\ s = [at |-> s.at, from |-> s.from, done |-> s.done]
             /\ s.from \in 0..Supported /\ s.done \in 0..4
        /\ s.at = "prune" => s.options \in [before : Int, keep : Int]
        /\ s.at = "import" =>
             /\ s = [at |-> "import", items |-> s.items, next |-> s.next,
                     ledger |-> s.ledger, report |-> s.report]
             /\ s.next \in Nat \ {0} /\ Len(s.items) \in Nat /\ DOMAIN s.items = 1..Len(s.items)
<1>1. CASE s \in [at : {"closed", "identify", "stamp", "open", "backup"}]
  BY <1>1 DEF Versioned, Resets, Upgrading
<1>2. CASE s \in [at : Versioned, from : 0..Supported]
  BY <1>2 DEF Versioned, Resets, Upgrading
<1>3. CASE s \in [at : Resets, from : 0..Supported, done : 0..4]
  BY <1>3 DEF Versioned, Resets, Upgrading
<1>4. CASE s \in [at : {"prune"}, options : [before : Int, keep : Int]]
  BY <1>4 DEF Versioned, Resets, Upgrading
<1>5. CASE /\ s = [at |-> "import", items |-> s.items, next |-> s.next, ledger |-> s.ledger,
                   report |-> s.report]
           /\ s.next \in Nat \ {0} /\ Len(s.items) \in Nat /\ DOMAIN s.items = 1..Len(s.items)
  BY <1>5 DEF Versioned, Resets, Upgrading
<1> QED BY <1>1, <1>2, <1>3, <1>4, <1>5 DEF Placed

LEMMA Moved ==
  ASSUME TypesOK, NEW p \in Procs, NEW s, Goto(p, s)
  PROVE /\ proc' = [q \in Procs |-> proc'[q]] /\ proc'[p] = s
        /\ \A q \in Procs \ {p} : proc'[q] = proc[q]
BY DEF TypesOK, Goto

LEMMA Spent ==
  ASSUME TypesOK, NEW operation \in Operations, Spend(operation)
  PROVE left' \in [Operations -> Nat]
BY DEF TypesOK, Spend

\* The outcomes of a file are as many as its items.
LEMMA OutcomesAreLists ==
  ASSUME NEW items, DOMAIN items = 1..Len(items), Len(items) \in Nat, NEW f,
         f = [i \in DOMAIN items |-> f[i]]
  PROVE Len(f) \in Nat /\ DOMAIN f = 1..Len(f)
<1> DEFINE S == {f[i] : i \in DOMAIN items}
<1>1. f \in [1..Len(items) -> S] OBVIOUS
<1>2. f \in Seq(S)
  <2> HIDE DEF S
  <2> QED BY <1>1, SeqDef
<1> QED BY <1>2, LenProperties

LEMMA ListsOfItems ==
  ASSUME JournalOK, NEW items \in {JsonlOutcomes(Lines), JournalOutcomes(steps)}
  PROVE Len(items) \in Nat /\ DOMAIN items = 1..Len(items)
<1>1. CASE items = JsonlOutcomes(Lines)
  <2>1. items = [i \in DOMAIN Lines |-> items[i]] BY <1>1 DEF JsonlOutcomes
  <2> QED BY <2>1, OutcomesAreLists, ConstantsAssumption
<1>2. CASE items = JournalOutcomes(steps)
  <2>1. items = [i \in DOMAIN steps |-> items[i]] BY <1>2 DEF JournalOutcomes
  <2> QED BY <2>1, OutcomesAreLists DEF JournalOK
<1> QED BY <1>1, <1>2

LEMMA PlacedAgain ==
  ASSUME TypesOK, NEW p \in Procs, NEW s, Goto(p, s), Placed(s)
  PROVE proc' = [q \in Procs |-> proc'[q]] /\ \A q \in Procs : Placed(proc'[q])
BY Moved DEF TypesOK

LEMMA MigratePlaces ==
  ASSUME TypesOK, ImagesOK, NEW p \in Procs, Migrate(p)
  PROVE proc' = [q \in Procs |-> proc'[q]] /\ \A q \in Procs : Placed(proc'[q])
<1> USE DEF At, Idle
<1>s. proc[p] = proc[p] /\ Placed(proc[p]) BY DEF TypesOK
<1>1. CASE Open(p)
  <2>1. Placed([at |-> "identify"]) BY DEF Placed
  <2> QED BY <1>1, <2>1, PlacedAgain DEF Open
<1>2. CASE Identify(p)
  <2>1. Placed([at |-> "closed"]) BY DEF Placed
  <2>2. ~Refused(live) => live.version \in 0..Supported
    BY DEF ImagesOK, ImageOK, Images, Refused, Supported
  <2>3. ~Refused(live) => Placed([at |-> "schema", from |-> live.version])
    BY <2>2 DEF Placed, Versioned
  <2>4. CASE Refused(live) BY <1>2, <2>1, <2>4, PlacedAgain DEF Identify
  <2>5. CASE ~Refused(live) BY <1>2, <2>3, <2>5, PlacedAgain DEF Identify
  <2> QED BY <2>4, <2>5
<1>3. ASSUME proc[p].at \in Versioned, NEW place \in Versioned
      PROVE Placed([proc[p] EXCEPT !.at = place])
  <2>1. proc[p] = [at |-> proc[p].at, from |-> proc[p].from] /\ proc[p].from \in 0..Supported
    BY <1>s, <1>3, Places
  <2>2. [proc[p] EXCEPT !.at = place] = [at |-> place, from |-> proc[p].from] BY <2>1
  <2> QED BY <2>1, <2>2 DEF Placed
<1>4. CASE CreateTables(p)
  <2> DEFINE s == [proc[p] EXCEPT !.at = IF live'.columns THEN "backfill" ELSE "alter"]
  <2>1. Placed(s) BY <1>3, <1>4 DEF CreateTables, Versioned
  <2>2. Goto(p, s) BY <1>4 DEF CreateTables
  <2> HIDE DEF s
  <2> QED BY <2>1, <2>2, PlacedAgain
<1>5. CASE AddColumns(p)
  <2> DEFINE s == IF live.columns THEN Idle ELSE [proc[p] EXCEPT !.at = "backfill"]
  <2>0. Placed([at |-> "closed"]) BY DEF Placed
  <2>1. Placed(s) BY <1>3, <1>5, <2>0 DEF AddColumns, Versioned
  <2>2. Goto(p, s) BY <1>5 DEF AddColumns
  <2> HIDE DEF s
  <2> QED BY <2>1, <2>2, PlacedAgain
<1>6. CASE Backfill(p)
  <2> DEFINE s == [proc[p] EXCEPT !.at = "check3"]
  <2>1. Placed(s) BY <1>3, <1>6 DEF Backfill, Versioned
  <2>2. Goto(p, s) BY <1>6 DEF Backfill
  <2> HIDE DEF s
  <2> QED BY <2>1, <2>2, PlacedAgain
<1>7. ASSUME proc[p].at \in Versioned, NEW place \in Resets
      PROVE Placed(Resetting(p, place))
  <2>1. proc[p].from \in 0..Supported BY <1>s, <1>7, Places
  <2> QED BY <2>1 DEF Placed, Resetting
<1>8. CASE CheckClosures(p)
  <2> DEFINE s == IF proc[p].from < 3 /\ ClosuresNeedRebuild(live)
                  THEN Resetting(p, "reset3") ELSE [proc[p] EXCEPT !.at = "check5"]
  <2>1. Placed(s) BY <1>3, <1>7, <1>8 DEF CheckClosures, Versioned, Resets
  <2>2. Goto(p, s) BY <1>8 DEF CheckClosures
  <2> HIDE DEF s
  <2> QED BY <2>1, <2>2, PlacedAgain
<1>9. CASE CheckEdges(p)
  <2> DEFINE s == IF proc[p].from < 5 /\ EdgesNeedRebuild(live)
                  THEN Resetting(p, "reset5") ELSE [at |-> "stamp"]
  <2>0. Placed([at |-> "stamp"]) BY DEF Placed
  <2>1. Placed(s) BY <1>7, <1>9, <2>0 DEF CheckEdges, Versioned, Resets
  <2>2. Goto(p, s) BY <1>9 DEF CheckEdges
  <2> HIDE DEF s
  <2> QED BY <2>1, <2>2, PlacedAgain
<1>10. CASE ResetStatement(p)
  <2> DEFINE n == proc[p].done + 1
             s == IF n < 5 THEN [proc[p] EXCEPT !.done = n]
                  ELSE IF At(p, "reset3") THEN [at |-> "check5", from |-> proc[p].from]
                  ELSE [at |-> "stamp"]
  <2>1. /\ proc[p] = [at |-> proc[p].at, from |-> proc[p].from, done |-> proc[p].done]
        /\ proc[p].from \in 0..Supported /\ proc[p].done \in 0..4 /\ proc[p].at \in Resets
    BY <1>s, <1>10, Places DEF ResetStatement, Resets
  <2>2. Placed([at |-> "stamp"]) BY DEF Placed
  <2>3. Placed([at |-> "check5", from |-> proc[p].from]) BY <2>1 DEF Placed, Versioned
  <2>4. n < 5 => Placed([proc[p] EXCEPT !.done = n])
    <3>1. [proc[p] EXCEPT !.done = n] = [at |-> proc[p].at, from |-> proc[p].from, done |-> n]
      BY <2>1
    <3>2. n < 5 => n \in 0..4 BY <2>1
    <3> QED BY <2>1, <3>1, <3>2 DEF Placed
  <2>5. Goto(p, s) BY <1>10 DEF ResetStatement
  <2>6. Placed(s) BY <2>2, <2>3, <2>4
  <2> HIDE DEF s
  <2> QED BY <2>5, <2>6, PlacedAgain
<1>11. CASE RecordVersion(p)
  <2>1. Placed([at |-> "open"]) BY DEF Placed
  <2> QED BY <1>11, <2>1, PlacedAgain DEF RecordVersion
<1>12. CASE OpenTimesOut(p)
  <2>1. Placed([at |-> "closed"]) BY DEF Placed
  <2> QED BY <1>12, <2>1, PlacedAgain DEF OpenTimesOut
<1> QED
  BY <1>1, <1>2, <1>4, <1>5, <1>6, <1>8, <1>9, <1>10, <1>11, <1>12 DEF Migrate

\* A transaction that has read on to the item n.
Advance(s, n, l, r) == [s EXCEPT !.next = n, !.ledger = l, !.report = r]

LEMMA Advanced ==
  ASSUME NEW s, Placed(s), s.at = "import", NEW n \in Nat \ {0}, NEW l, NEW r, NEW more,
         more = Advance(s, n, l, r)
  PROVE /\ Placed(more) /\ more.at = "import" /\ more.items = s.items /\ more.next = n
        /\ more.ledger = l
<1> DEFINE s1 == [s EXCEPT !.next = n]
           s2 == [s1 EXCEPT !.ledger = l]
           s3 == [s2 EXCEPT !.report = r]
<1>0. /\ s = [at |-> "import", items |-> s.items, next |-> s.next, ledger |-> s.ledger,
              report |-> s.report]
      /\ Len(s.items) \in Nat /\ DOMAIN s.items = 1..Len(s.items)
  BY Places
<1>1. s1 = [at |-> "import", items |-> s.items, next |-> n, ledger |-> s.ledger,
            report |-> s.report]
  BY <1>0
<1> HIDE DEF s1
<1>2. s2 = [at |-> "import", items |-> s.items, next |-> n, ledger |-> l, report |-> s.report]
  BY <1>1
<1> HIDE DEF s2
<1>3. s3 = [at |-> "import", items |-> s.items, next |-> n, ledger |-> l, report |-> r]
  BY <1>2
<1>4. s3 = more BY DEF s1, s2, Advance
<1> HIDE DEF s3
<1>5. more = [at |-> "import", items |-> more.items, next |-> more.next,
              ledger |-> more.ledger, report |-> more.report]
  BY <1>3, <1>4
<1>6. more.next = n /\ more.items = s.items /\ more.ledger = l /\ more.at = "import"
  BY <1>3, <1>4
<1> QED BY <1>0, <1>5, <1>6 DEF Placed

\* An item that is read: its transaction ends or goes on.
LEMMA ItemRead ==
  ASSUME TypesOK, NEW p \in Procs, ImportItem(p)
  PROVE LET outcome == proc[p].items[proc[p].next]
            row == [key |-> outcome[2], from |-> proc[p].items]
            isNew == IsEvent(outcome) /\ outcome[2] \notin Keys(proc[p])
        IN  /\ Goto(p, proc'[p]) /\ \A q \in Procs \ {p} : proc'[q] = proc[q]
            /\ Placed(proc'[p])
            /\ outcome = Bad => proc'[p] = [at |-> "open"]
            /\ outcome # Bad =>
                 /\ proc'[p].at = "import" /\ proc'[p].items = proc[p].items
                 /\ proc'[p].next = proc[p].next + 1
                 /\ isNew => proc'[p].ledger = proc[p].ledger \cup {row}
                 /\ ~isNew => proc'[p].ledger = proc[p].ledger
            /\ proc'[p].at \in {"open", "import"}
<1> DEFINE outcome == proc[p].items[proc[p].next]
           isNew == IsEvent(outcome) /\ outcome[2] \notin Keys(proc[p])
           row == [key |-> outcome[2], from |-> proc[p].items]
           ledger == IF isNew THEN proc[p].ledger \cup {row} ELSE proc[p].ledger
           report == Reported(proc[p].report, outcome, isNew)
           more == [proc[p] EXCEPT !.next = proc[p].next + 1, !.ledger = ledger,
                                   !.report = report]
           s == IF outcome = Bad THEN [at |-> "open"] ELSE more
<1>1. Goto(p, s) BY DEF ImportItem
<1>i. /\ isNew => ledger = proc[p].ledger \cup {row}
      /\ ~isNew => ledger = proc[p].ledger
  OBVIOUS
<1> HIDE DEF ledger, report, outcome, isNew, row
<1>2. more = Advance(proc[p], proc[p].next + 1, ledger, report) BY DEF Advance
<1> HIDE DEF more
<1>3. Placed(proc[p]) /\ proc[p].at = "import" BY DEF TypesOK, ImportItem, At
<1>4. proc[p].next + 1 \in Nat \ {0} BY <1>3, Places
<1>5. /\ Placed(more) /\ more.at = "import" /\ more.items = proc[p].items
      /\ more.next = proc[p].next + 1 /\ more.ledger = ledger
  BY <1>2, <1>3, <1>4, Advanced
<1>6. Placed(s) /\ s.at \in {"open", "import"} BY <1>5 DEF Placed
<1>7. proc'[p] = s /\ \A q \in Procs \ {p} : proc'[q] = proc[q]
  <2> HIDE DEF s
  <2> QED BY <1>1, Moved
<1>8. Goto(p, proc'[p])
  <2> HIDE DEF s
  <2> QED BY <1>1, <1>7
<1>9. /\ outcome = Bad => proc'[p] = [at |-> "open"]
      /\ outcome # Bad =>
           /\ proc'[p].at = "import" /\ proc'[p].items = proc[p].items
           /\ proc'[p].next = proc[p].next + 1
           /\ isNew => proc'[p].ledger = proc[p].ledger \cup {row}
           /\ ~isNew => proc'[p].ledger = proc[p].ledger
  BY <1>5, <1>7, <1>i
<1>10. Placed(proc'[p]) /\ proc'[p].at \in {"open", "import"} BY <1>6, <1>7
<1> QED BY <1>7, <1>8, <1>9, <1>10 DEF outcome, isNew, row

LEMMA ImportPlaces ==
  ASSUME TypesOK, JournalOK, NEW p \in Procs, Import(p)
  PROVE /\ proc' = [q \in Procs |-> proc'[q]] /\ \A q \in Procs : Placed(proc'[q])
        /\ left' \in [Operations -> Nat]
<1> USE DEF At
<1>s. Placed(proc[p]) BY DEF TypesOK
<1>o. Placed([at |-> "open"]) BY DEF Placed
<1>1. CASE StartImport(p)
  <2>1. PICK items \in {JsonlOutcomes(Lines), JournalOutcomes(steps)} :
          Goto(p, [at |-> "import", items |-> items, next |-> 1, ledger |-> live.ledger,
                   report |-> NoReport])
    BY <1>1 DEF StartImport
  <2> DEFINE s == [at |-> "import", items |-> items, next |-> 1, ledger |-> live.ledger,
                   report |-> NoReport]
  <2>2. Len(items) \in Nat /\ DOMAIN items = 1..Len(items) BY ListsOfItems
  <2>3. s.items = items /\ s.next = 1 /\ s.ledger = live.ledger /\ s.report = NoReport
    OBVIOUS
  <2>4. Placed(s) BY <2>2, <2>3 DEF Placed
  <2>5. left' \in [Operations -> Nat] BY <1>1, Spent DEF StartImport, Operations
  <2> HIDE DEF s
  <2>6. Goto(p, s) BY <2>1 DEF s
  <2> QED BY <2>4, <2>5, <2>6, PlacedAgain
<1>2. CASE ImportItem(p)
  <2>1. Goto(p, proc'[p]) /\ Placed(proc'[p]) BY <1>2, ItemRead
  <2> QED BY <1>2, <2>1, PlacedAgain DEF ImportItem, TypesOK
<1>3. CASE CommitImport(p)
  BY <1>3, <1>o, PlacedAgain DEF CommitImport, TypesOK
<1> QED BY <1>1, <1>2, <1>3 DEF Import

LEMMA TypesKept ==
  ASSUME TypesOK, ImagesOK, JournalOK, [Next]_vars
  PROVE TypesOK'
<1> USE DEF Operations
<1> SUFFICES /\ left' \in [Operations -> Nat] /\ clock' \in Clock /\ setBack' \in BOOLEAN
             /\ proc' = [p \in Procs |-> proc'[p]] /\ \A p \in Procs : Placed(proc'[p])
  BY DEF TypesOK
<1>t. /\ left \in [Operations -> Nat] /\ clock \in Clock /\ setBack \in BOOLEAN
      /\ proc = [p \in Procs |-> proc[p]] /\ \A p \in Procs : Placed(proc[p])
  BY DEF TypesOK
<1>o. Placed([at |-> "open"]) /\ Placed(Idle) /\ Placed([at |-> "backup"])
      /\ Placed([at |-> "identify"])
  BY DEF Placed, Idle
<1>1. ASSUME NEW p \in Procs, Migrate(p) PROVE TypesOK'
  <2>1. UNCHANGED <<left, clock, setBack>>
    BY <1>1 DEF Migrate, Open, Identify, CreateTables, AddColumns, Backfill, CheckClosures,
       CheckEdges, ResetStatement, RecordVersion, OpenTimesOut
  <2> QED BY <1>1, <1>t, <2>1, MigratePlaces DEF TypesOK
<1>2. ASSUME NEW p \in Procs, Import(p) PROVE TypesOK'
  <2>1. UNCHANGED <<clock, setBack>>
    BY <1>2 DEF Import, StartImport, ImportItem, CommitImport
  <2> QED BY <1>2, <1>t, <2>1, ImportPlaces DEF TypesOK
<1>3. ASSUME NEW p \in Procs, NEW key \in Remembered, AppendEvent(p, key) PROVE TypesOK'
  BY <1>3, <1>t, Spent DEF AppendEvent, TypesOK
<1>4. ASSUME NEW p \in Procs, NEW key \in Keys(live), Project(p, key) PROVE TypesOK'
  BY <1>4, <1>t, Spent DEF Project, TypesOK
<1>5. ASSUME NEW p \in Procs, Rebuild(p) PROVE TypesOK'
  BY <1>5, <1>t, Spent DEF Rebuild, TypesOK
<1>6. ASSUME NEW p \in Procs, Close(p) PROVE TypesOK'
  BY <1>6, <1>t, <1>o, PlacedAgain DEF Close, TypesOK
<1>7. ASSUME NEW p \in Procs, Crash(p) PROVE TypesOK'
  BY <1>7, <1>t, <1>o, PlacedAgain, Spent DEF Crash, TypesOK
<1>8. ASSUME NEW p \in Procs, StartBackup(p) PROVE TypesOK'
  BY <1>8, <1>t, <1>o, PlacedAgain, Spent DEF StartBackup, TypesOK
<1>9. ASSUME NEW p \in Procs, CopyToBackup(p) PROVE TypesOK'
  BY <1>9, <1>t, <1>o, PlacedAgain DEF CopyToBackup, TypesOK
<1>10. ASSUME NEW p \in Procs, Restore(p) PROVE TypesOK'
  BY <1>10, <1>t, <1>o, PlacedAgain, Spent DEF Restore, TypesOK
<1>11. ASSUME NEW p \in Procs, AppendAudit(p) PROVE TypesOK'
  BY <1>11, <1>t, Spent DEF AppendAudit, TypesOK
<1>12. ASSUME NEW p \in Procs, PruneAudit(p) PROVE TypesOK'
  BY <1>12, <1>t, <1>o, PlacedAgain DEF PruneAudit, TypesOK
<1>13. ASSUME NEW p \in Procs, NEW options \in Retentions, RepairOrphans(p, options)
       PROVE TypesOK'
  <2>1. options \in [before : Int, keep : Int] BY ConstantsAssumption
  <2>2. Placed([at |-> "prune", options |-> options]) BY <2>1 DEF Placed
  <2> QED BY <1>13, <1>t, <2>2, PlacedAgain, Spent DEF RepairOrphans, TypesOK
<1>14. CASE StepEnds BY <1>14, <1>t, Spent DEF StepEnds, TypesOK
<1>15. ASSUME NEW now \in Clock, ClockMoves(now) PROVE TypesOK'
  BY <1>15, <1>t, Spent DEF ClockMoves, TypesOK
<1>16. CASE UNCHANGED vars BY <1>16, <1>t DEF vars, TypesOK
<1> QED
  BY <1>1, <1>2, <1>3, <1>4, <1>5, <1>6, <1>7, <1>8, <1>9, <1>10, <1>11, <1>12, <1>13,
     <1>14, <1>15, <1>16 DEF Next, TypesOK

-----------------------------------------------------------------------------
(* What a process that upgrades the database has seen to stays so.         *)

\* h has nothing of g's graph that g has not, unless two processes wrote to it.
Shrinks(g, h) ==
  /\ ~h.shared => ~g.shared
  /\ h.edges \subseteq g.edges /\ h.unsourced \subseteq g.unsourced
  /\ h.spans \subseteq g.spans /\ h.cues \subseteq g.cues
  /\ h.unattributed \subseteq g.unattributed

LEMMA UpgradedShrinks ==
  ASSUME NEW s, NEW g, NEW h, Upgraded(s, g), Shrinks(g, h)
  PROVE Upgraded(s, h)
BY DEF Upgraded, Shrinks

LEMMA Elsewhere ==
  ASSUME NEW s, NEW h, s.at \notin Versioned \cup Resets \cup {"stamp"}
  PROVE Upgraded(s, h)
BY DEF Upgraded, Versioned, Resets

LEMMA UpgradesGoOn ==
  ASSUME TypesOK, UpgradesOK, NEW p \in Procs, NEW s, Goto(p, s), Shrinks(live, live'),
         Upgraded(s, live')
  PROVE UpgradesOK'
<1> SUFFICES ASSUME NEW q \in Procs PROVE Upgraded(proc'[q], live') BY DEF UpgradesOK
<1>1. CASE q = p BY <1>1, Moved
<1>2. CASE q # p
  <2>1. proc'[q] = proc[q] BY <1>2, Moved
  <2> QED BY <2>1, UpgradedShrinks DEF UpgradesOK
<1> QED BY <1>1, <1>2

LEMMA UpgradesUndisturbed ==
  ASSUME UpgradesOK, UNCHANGED proc, Shrinks(live, live')
  PROVE UpgradesOK'
BY UpgradedShrinks DEF UpgradesOK

LEMMA UpgradesOverwritten ==
  ASSUME TypesOK, UpgradesOK, NEW p \in Procs, NEW g, ImageOK(g), live' = WrittenBy(p, g),
         At(p, "open"), UNCHANGED proc \/ Goto(p, [at |-> "identify"])
  PROVE UpgradesOK'
<1> SUFFICES ASSUME NEW q \in Procs PROVE Upgraded(proc'[q], live') BY DEF UpgradesOK
<1>1. CASE q = p
  <2>1. proc'[p].at \in {"open", "identify"} BY Moved DEF At
  <2> QED BY <1>1, <2>1, Elsewhere DEF Versioned, Resets
<1>2. CASE q # p
  <2>1. proc'[q] = proc[q] BY <1>2, Moved
  <2>2. CASE proc[q].at \in Upgrading
    <3>1. live'.shared BY <1>2, <2>2, WrittenImage
    <3> QED BY <3>1 DEF Upgraded
  <2>3. CASE proc[q].at \notin Upgrading
    BY <2>1, <2>3, Elsewhere DEF Upgrading, Versioned, Resets
  <2> QED BY <2>2, <2>3
<1> QED BY <1>1, <1>2

LEMMA MigrateUpgrades ==
  ASSUME TypesOK, ImagesOK, UpgradesOK, NEW p \in Procs, Migrate(p)
  PROVE UpgradesOK'
<1> USE DEF At, Idle
<1>s. Placed(proc[p]) /\ Upgraded(proc[p], live) BY DEF TypesOK, UpgradesOK
<1>i. ImageOK(live) /\ IsImage(live) BY DEF ImagesOK, Images, ImageOK
<1>u. UNCHANGED live => Shrinks(live, live') BY DEF Shrinks
<1>c. ASSUME NEW s, NEW h, s.at \in {"closed", "identify", "open"} PROVE Upgraded(s, h)
  BY <1>c, Elsewhere DEF Versioned, Resets
<1>1. CASE Open(p)
  BY <1>1, <1>u, <1>c, UpgradesGoOn DEF Open
<1>2. CASE Identify(p)
  <2>1. CASE Refused(live)
    BY <1>2, <2>1, <1>u, <1>c, UpgradesGoOn DEF Identify
  <2>2. CASE ~Refused(live)
    <3> DEFINE s == [at |-> "schema", from |-> live.version]
    <3>1. Goto(p, s) /\ live' = [live EXCEPT !.app = "memory"] BY <1>2, <2>2 DEF Identify
    <3>2. Shrinks(live, live') /\ live'.shared = live.shared /\ live'.version = live.version
          /\ live'.unsourced = live.unsourced /\ live'.unattributed = live.unattributed
      BY <1>i, <3>1 DEF IsImage, Fields, Shrinks
    <3>3. Upgraded(s, live') BY <1>i, <3>2 DEF ImageOK, VersionOK, Upgraded, Versioned, Resets
    <3> QED BY <3>1, <3>2, <3>3, UpgradesGoOn
  <2> QED BY <2>1, <2>2
<1>3. ASSUME proc[p].at \in Versioned, NEW place \in {"alter", "backfill", "check3"},
             NEW h, Shrinks(live, h)
      PROVE Upgraded([proc[p] EXCEPT !.at = place], h)
  <2>1. proc[p] = [at |-> proc[p].at, from |-> proc[p].from] BY <1>s, <1>3, Places
  <2>2. [proc[p] EXCEPT !.at = place] = [at |-> place, from |-> proc[p].from] BY <2>1
  <2>3. Upgraded(proc[p], h) BY <1>s, <1>3, UpgradedShrinks
  <2> QED BY <1>3, <2>2, <2>3 DEF Upgraded, Versioned, Resets
<1>4. CASE CreateTables(p)
  <2> DEFINE s == [proc[p] EXCEPT !.at = IF live'.columns THEN "backfill" ELSE "alter"]
  <2>1. Shrinks(live, live') BY <1>i, <1>4 DEF CreateTables, IsImage, Fields, Shrinks
  <2>2. Upgraded(s, live') BY <1>3, <1>4, <2>1 DEF CreateTables, Versioned
  <2>3. Goto(p, s) BY <1>4 DEF CreateTables
  <2> HIDE DEF s
  <2> QED BY <2>1, <2>2, <2>3, UpgradesGoOn
<1>5. CASE AddColumns(p)
  <2> DEFINE s == IF live.columns THEN Idle ELSE [proc[p] EXCEPT !.at = "backfill"]
  <2>1. Shrinks(live, live') BY <1>i, <1>5 DEF AddColumns, IsImage, Fields, Shrinks
  <2>2. Upgraded(s, live') BY <1>3, <1>c, <1>5, <2>1 DEF AddColumns, Versioned
  <2>3. Goto(p, s) BY <1>5 DEF AddColumns
  <2> HIDE DEF s
  <2> QED BY <2>1, <2>2, <2>3, UpgradesGoOn
<1>6. CASE Backfill(p)
  <2> DEFINE s == [proc[p] EXCEPT !.at = "check3"]
  <2>1. Shrinks(live, live') BY <1>i, <1>6 DEF Backfill, IsImage, Fields, Shrinks
  <2>2. Upgraded(s, live') BY <1>3, <1>6, <2>1 DEF Backfill, Versioned
  <2>3. Goto(p, s) BY <1>6 DEF Backfill
  <2> HIDE DEF s
  <2> QED BY <2>1, <2>2, <2>3, UpgradesGoOn
<1>8. CASE CheckClosures(p)
  <2>0. proc[p] = [at |-> "check3", from |-> proc[p].from] /\ proc[p].from \in 0..Supported
    BY <1>s, <1>8, Places DEF CheckClosures, Versioned
  <2>1. CASE proc[p].from < 3 /\ ClosuresNeedRebuild(live)
    <3>1. Goto(p, Resetting(p, "reset3")) /\ UNCHANGED live BY <1>8, <2>1 DEF CheckClosures
    <3>2. Upgraded(Resetting(p, "reset3"), live)
      BY <2>0, <2>1 DEF Resetting, Upgraded, Versioned, Resets, Supported
    <3> QED BY <3>1, <3>2, <1>u, UpgradesGoOn
  <2>2. CASE ~(proc[p].from < 3 /\ ClosuresNeedRebuild(live))
    <3>1. Goto(p, [proc[p] EXCEPT !.at = "check5"]) /\ UNCHANGED live
      BY <1>8, <2>2 DEF CheckClosures
    <3>2. [proc[p] EXCEPT !.at = "check5"] = [at |-> "check5", from |-> proc[p].from] BY <2>0
    <3>3. ~live.shared => live.unattributed = {}
      BY <1>s, <2>0, <2>2 DEF Upgraded, Versioned, Resets, Supported, ClosuresNeedRebuild
    <3>4. Upgraded([at |-> "check5", from |-> proc[p].from], live)
      BY <1>s, <2>0, <3>3 DEF Upgraded, Versioned, Resets
    <3> QED BY <3>1, <3>2, <3>4, <1>u, UpgradesGoOn
  <2> QED BY <2>1, <2>2
<1>9. CASE CheckEdges(p)
  <2>0. proc[p] = [at |-> "check5", from |-> proc[p].from] /\ proc[p].from \in 0..Supported
    BY <1>s, <1>9, Places DEF CheckEdges, Versioned
  <2>1. CASE proc[p].from < 5 /\ EdgesNeedRebuild(live)
    <3>1. Goto(p, Resetting(p, "reset5")) /\ UNCHANGED live BY <1>9, <2>1 DEF CheckEdges
    <3>2. Upgraded(Resetting(p, "reset5"), live)
      BY <1>s, <2>0, <2>1 DEF Resetting, Upgraded, Versioned, Resets, Supported
    <3> QED BY <3>1, <3>2, <1>u, UpgradesGoOn
  <2>2. CASE ~(proc[p].from < 5 /\ EdgesNeedRebuild(live))
    <3>1. Goto(p, [at |-> "stamp"]) /\ UNCHANGED live BY <1>9, <2>2 DEF CheckEdges
    <3>2. ~live.shared => live.unattributed = {} /\ live.unsourced = {}
      BY <1>s, <2>0, <2>2 DEF Upgraded, Versioned, Resets, Supported, EdgesNeedRebuild
    <3>4. Upgraded([at |-> "stamp"], live) BY <3>2 DEF Upgraded, Versioned, Resets
    <3> QED BY <3>1, <3>4, <1>u, UpgradesGoOn
  <2> QED BY <2>1, <2>2
<1>10. CASE ResetStatement(p)
  <2> DEFINE n == proc[p].done + 1
             others == {q \in live.torn \ {p} : InReset(q)}
             c == Cleared(live, n)
             h == [c EXCEPT !.torn = IF n = 5 THEN others ELSE @ \cup {p}]
             s == IF n < 5 THEN [proc[p] EXCEPT !.done = n]
                  ELSE IF At(p, "reset3") THEN [at |-> "check5", from |-> proc[p].from]
                  ELSE [at |-> "stamp"]
  <2>1. /\ proc[p] = [at |-> proc[p].at, from |-> proc[p].from, done |-> proc[p].done]
        /\ proc[p].from \in 0..Supported /\ proc[p].done \in 0..4 /\ proc[p].at \in Resets
    BY <1>s, <1>10, Places DEF ResetStatement, Resets
  <2>2. Goto(p, s) /\ live' = h BY <1>10 DEF ResetStatement
  <2>3. n \in 1..5 BY <2>1
  <2> HIDE DEF n, others
  <2>4. c = Cleared(live, n) OBVIOUS
  <2> HIDE DEF c
  <2>5. /\ IsImage(c) /\ c.shared = live.shared
        /\ (n = 1 => c.edges = {}) /\ (n # 1 => c.edges = live.edges)
        /\ (n = 1 => c.unsourced = {}) /\ (n # 1 => c.unsourced = live.unsourced)
        /\ (n = 2 => c.spans = {}) /\ (n # 2 => c.spans = live.spans)
        /\ (n = 3 => c.cues = {}) /\ (n # 3 => c.cues = live.cues)
        /\ (n = 4 => c.unattributed = {}) /\ (n # 4 => c.unattributed = live.unattributed)
    BY <1>i, <2>3, <2>4, ClearedFields
  <2>6. h.shared = c.shared /\ h.edges = c.edges /\ h.unsourced = c.unsourced
        /\ h.spans = c.spans /\ h.cues = c.cues /\ h.unattributed = c.unattributed
    BY <2>5 DEF IsImage, Fields
  <2> HIDE DEF h
  <2>7. Shrinks(live, h) BY <2>5, <2>6 DEF Shrinks
  <2>8. Upgraded(proc[p], h) BY <1>s, <2>7, UpgradedShrinks
  <2>9. CASE n < 5
    <3>1. [proc[p] EXCEPT !.done = n] = [at |-> proc[p].at, from |-> proc[p].from, done |-> n]
      BY <2>1
    <3>2. proc[p].done = n - 1 BY <2>1 DEF n
    <3>3. ~h.shared => /\ n >= 1 => h.edges = {} /\ h.unsourced = {}
                       /\ n >= 2 => h.spans = {}
                       /\ n >= 3 => h.cues = {}
                       /\ n >= 4 => h.unattributed = {}
      BY <1>s, <2>1, <2>3, <2>5, <2>6, <3>2 DEF Upgraded, Resets
    <3>4. Upgraded([at |-> proc[p].at, from |-> proc[p].from, done |-> n], h)
      BY <2>1, <2>8, <3>3 DEF Upgraded, Resets, Versioned
    <3>5. s = [at |-> proc[p].at, from |-> proc[p].from, done |-> n] BY <2>9, <3>1
    <3> HIDE DEF s
    <3> QED BY <2>2, <2>7, <3>4, <3>5, UpgradesGoOn
  <2>10. CASE ~(n < 5)
    <3>1. n = 5 /\ proc[p].done = 4 BY <2>1, <2>3, <2>10 DEF n
    <3>2. ~h.shared => h.unattributed = {} /\ h.unsourced = {}
      BY <1>s, <2>1, <2>5, <2>6, <3>1 DEF Upgraded, Resets
    <3>3. Upgraded([at |-> "stamp"], h) BY <3>2 DEF Upgraded, Resets, Versioned
    <3>4. Upgraded([at |-> "check5", from |-> proc[p].from], h)
      BY <2>1, <2>8, <3>2 DEF Upgraded, Resets, Versioned
    <3>5. Upgraded(s, h) BY <2>10, <3>3, <3>4
    <3> HIDE DEF s
    <3> QED BY <2>2, <2>7, <3>5, UpgradesGoOn
  <2> QED BY <2>9, <2>10
<1>11. CASE RecordVersion(p)
  <2>1. Shrinks(live, live') BY <1>i, <1>11 DEF RecordVersion, IsImage, Fields, Shrinks
  <2> QED BY <1>11, <2>1, <1>c, UpgradesGoOn DEF RecordVersion
<1>12. CASE OpenTimesOut(p)
  BY <1>12, <1>u, <1>c, UpgradesGoOn DEF OpenTimesOut
<1> QED
  BY <1>1, <1>2, <1>4, <1>5, <1>6, <1>8, <1>9, <1>10, <1>11, <1>12 DEF Migrate

LEMMA UpgradesKept ==
  ASSUME TypesOK, ImagesOK, UpgradesOK, [Next]_vars
  PROVE UpgradesOK'
<1>i. ImageOK(live) /\ IsImage(live) BY DEF ImagesOK, Images, ImageOK
<1>u. UNCHANGED live => Shrinks(live, live') BY DEF Shrinks
<1>c. ASSUME NEW s, NEW h,
             s.at \in {"closed", "identify", "open", "import", "backup", "prune"}
      PROVE Upgraded(s, h)
  BY <1>c, Elsewhere DEF Versioned, Resets
<1>1. ASSUME NEW p \in Procs, Migrate(p) PROVE UpgradesOK'
  BY <1>1, MigrateUpgrades
<1>2. ASSUME NEW p \in Procs, StartImport(p) PROVE UpgradesOK'
  <2>1. PICK items \in {JsonlOutcomes(Lines), JournalOutcomes(steps)} :
          Goto(p, [at |-> "import", items |-> items, next |-> 1, ledger |-> live.ledger,
                   report |-> NoReport])
    BY <1>2 DEF StartImport
  <2>2. UNCHANGED live BY <1>2 DEF StartImport
  <2> QED BY <2>1, <2>2, <1>u, <1>c, UpgradesGoOn
<1>3. ASSUME NEW p \in Procs, ImportItem(p) PROVE UpgradesOK'
  <2>1. UNCHANGED live /\ Shrinks(live, live') BY <1>3, <1>u DEF ImportItem
  <2>2. Goto(p, proc'[p]) /\ proc'[p].at \in {"open", "import"}
    BY <1>3, ItemRead DEF Goto, TypesOK
  <2> QED BY <2>1, <2>2, <1>c, UpgradesGoOn
<1>4. ASSUME NEW p \in Procs, CommitImport(p) PROVE UpgradesOK'
  <2>1. Shrinks(live, live') BY <1>i, <1>4 DEF CommitImport, IsImage, Fields, Shrinks
  <2> QED BY <1>4, <2>1, <1>c, UpgradesGoOn DEF CommitImport
<1>5. ASSUME NEW p \in Procs, NEW key \in Remembered, AppendEvent(p, key) PROVE UpgradesOK'
  <2>1. Shrinks(live, live') BY <1>i, <1>5 DEF AppendEvent, IsImage, Fields, Shrinks
  <2> QED BY <1>5, <2>1, UpgradesUndisturbed DEF AppendEvent
<1>6. ASSUME NEW p \in Procs, NEW key \in Keys(live), Project(p, key) PROVE UpgradesOK'
  <2>1. live' = WrittenBy(p, Folded(live, key)) /\ UNCHANGED proc /\ At(p, "open")
    BY <1>6 DEF Project
  <2>2. ImageOK(Folded(live, key)) BY <1>i, FoldedImage
  <2> QED BY <2>1, <2>2, UpgradesOverwritten
<1>7. ASSUME NEW p \in Procs, Rebuild(p) PROVE UpgradesOK'
  <2>1. PICK keys \in SUBSET Keys(live) : \E order \in Orders(keys) :
          live' = WrittenBy(p, [Replayed(Emptied(live), keys, order) EXCEPT
                                  !.torn = {q \in @ : InReset(q)}])
    BY <1>7 DEF Rebuild, Emptied
  <2>2. PICK order \in Orders(keys) :
          live' = WrittenBy(p, [Replayed(Emptied(live), keys, order) EXCEPT
                                  !.torn = {q \in @ : InReset(q)}])
    BY <2>1
  <2>3. ImageOK([Replayed(Emptied(live), keys, order) EXCEPT !.torn = {q \in @ : InReset(q)}])
    BY <1>i, ReplayedImage
  <2>4. UNCHANGED proc /\ At(p, "open") BY <1>7 DEF Rebuild
  <2> QED BY <2>2, <2>3, <2>4, UpgradesOverwritten
<1>8. ASSUME NEW p \in Procs, Close(p) PROVE UpgradesOK'
  BY <1>8, <1>u, <1>c, UpgradesGoOn DEF Close, Idle
<1>9. ASSUME NEW p \in Procs, Crash(p) PROVE UpgradesOK'
  BY <1>9, <1>u, <1>c, UpgradesGoOn DEF Crash, Idle
<1>10. ASSUME NEW p \in Procs, StartBackup(p) PROVE UpgradesOK'
  BY <1>10, <1>u, <1>c, UpgradesGoOn DEF StartBackup
<1>11. ASSUME NEW p \in Procs, CopyToBackup(p) PROVE UpgradesOK'
  BY <1>11, <1>u, <1>c, UpgradesGoOn DEF CopyToBackup
<1>12. ASSUME NEW p \in Procs, Restore(p) PROVE UpgradesOK'
  <2> DEFINE more == {q \in Procs : InReset(q)}
             g == [backup EXCEPT !.torn = @ \cup more]
  <2>1. live' = WrittenBy(p, g) /\ At(p, "open") /\ Goto(p, [at |-> "identify"])
    BY <1>12 DEF Restore
  <2>2. ImageOK(backup) BY <1>12 DEF Restore, Restorable, ImagesOK, Images
  <2> HIDE DEF more
  <2>3. more \in SUBSET Procs BY DEF more
  <2>4. ImageOK(g) BY <2>2, <2>3, RestoredImage
  <2> HIDE DEF g
  <2> QED BY <2>1, <2>4, UpgradesOverwritten
<1>13. ASSUME NEW p \in Procs, AppendAudit(p) PROVE UpgradesOK'
  <2>1. Shrinks(live, live') BY <1>i, <1>13 DEF AppendAudit, IsImage, Fields, Shrinks
  <2> QED BY <1>13, <2>1, UpgradesUndisturbed DEF AppendAudit
<1>14. ASSUME NEW p \in Procs, PruneAudit(p) PROVE UpgradesOK'
  <2>a. PICK audit : live' = [live EXCEPT !.audit = audit] BY <1>14 DEF PruneAudit
  <2>b. /\ live'.shared = live.shared /\ live'.edges = live.edges
        /\ live'.unsourced = live.unsourced /\ live'.spans = live.spans
        /\ live'.cues = live.cues /\ live'.unattributed = live.unattributed
    BY <1>i, <2>a DEF IsImage, Fields
  <2>1. Shrinks(live, live') BY <2>b DEF Shrinks
  <2>2. Goto(p, [at |-> "open"]) BY <1>14 DEF PruneAudit
  <2> QED BY <2>1, <2>2, <1>c, UpgradesGoOn
<1>15. ASSUME NEW p \in Procs, NEW options \in Retentions, RepairOrphans(p, options)
       PROVE UpgradesOK'
  <2>1. live' = Repaired(live) BY <1>15 DEF RepairOrphans
  <2>2. Shrinks(live, live') BY <1>i, <2>1, RepairedFields DEF Shrinks
  <2> QED BY <1>15, <2>2, <1>c, UpgradesGoOn DEF RepairOrphans
<1>16. CASE StepEnds BY <1>16, <1>u, UpgradesUndisturbed DEF StepEnds
<1>17. ASSUME NEW now \in Clock, ClockMoves(now) PROVE UpgradesOK'
  BY <1>17, <1>u, UpgradesUndisturbed DEF ClockMoves
<1>18. CASE UNCHANGED vars BY <1>18, <1>u, UpgradesUndisturbed DEF vars
<1> QED
  BY <1>1, <1>2, <1>3, <1>4, <1>5, <1>6, <1>7, <1>8, <1>9, <1>10, <1>11, <1>12, <1>13,
     <1>14, <1>15, <1>16, <1>17, <1>18 DEF Next, Import

-----------------------------------------------------------------------------
(* Images stay well.                                                       *)

LEMMA ImagesAre ==
  ImagesOK <=> ImageOK(live) /\ (backup # Absent => ImageOK(backup))
BY DEF ImagesOK, Images

\* Everything of a file with no item that cannot be read.
LEMMA CommittedIsWhole ==
  ASSUME TypesOK, ImagesOK, ImportsOK, NEW p \in Procs, CommitImport(p)
  PROVE ImageOK(live')
<1> DEFINE h == [live EXCEPT !.ledger = proc[p].ledger]
<1>1. /\ Importing(proc[p]) /\ Placed(proc[p]) /\ At(p, "import")
      /\ proc[p].next > Len(proc[p].items) /\ live' = h
  BY DEF CommitImport, ImportsOK, TypesOK
<1>2. proc[p].next \in Nat /\ Len(proc[p].items) \in Nat
      /\ DOMAIN proc[p].items = 1..Len(proc[p].items)
  BY <1>1, Places DEF At
<1>3. \A i \in DOMAIN proc[p].items : i < proc[p].next BY <1>1, <1>2
<1>4. h.ledger = proc[p].ledger /\ Keys(h) = Keys(proc[p])
  BY DEF ImagesOK, Images, ImageOK, IsImage, Fields, Keys
<1>5. Whole(h)
  <2> HIDE DEF h
  <2> QED BY <1>1, <1>3, <1>4 DEF Whole, Importing
<1>6. live.ledger \subseteq proc[p].ledger BY <1>1 DEF Importing
<1>7. ImageOK(live) BY ImagesAre
<1> HIDE DEF h
<1>8. h = [live EXCEPT !.ledger = proc[p].ledger] BY DEF h
<1>9. ImageOK([live EXCEPT !.ledger = proc[p].ledger]) BY <1>5, <1>6, <1>7, <1>8, LedgerImage
<1> QED BY <1>1, <1>8, <1>9

LEMMA AppendedIsWhole ==
  ASSUME NEW g, ImageOK(g), NEW key
  PROVE ImageOK([g EXCEPT !.ledger = @ \cup {[key |-> key, from |-> <<>>]}])
<1> DEFINE row == [key |-> key, from |-> <<>>]
           ledger == g.ledger \cup {row}
           h == [g EXCEPT !.ledger = ledger]
<1>1. h.ledger = ledger BY DEF ImageOK, IsImage, Fields
<1>2. DOMAIN row.from = {} OBVIOUS
<1> HIDE DEF h, row
<1>3. \A r \in ledger : r \in g.ledger \/ DOMAIN r.from = {} BY <1>2
<1>4. Keys(g) \subseteq Keys(h) BY <1>1 DEF Keys
<1>5. Whole(h) BY <1>1, <1>3, <1>4 DEF ImageOK, Whole
<1>6. g.ledger \subseteq ledger OBVIOUS
<1> HIDE DEF ledger
<1>7. ImageOK([g EXCEPT !.ledger = ledger]) BY <1>5, <1>6, LedgerImage DEF h
<1> QED BY <1>7 DEF ledger, row

LEMMA ImagesKept ==
  ASSUME TypesOK, ImagesOK, UpgradesOK, ImportsOK, [Next]_vars
  PROVE ImagesOK'
<1>i. ImageOK(live) /\ (backup # Absent => ImageOK(backup)) BY ImagesAre
<1>b. ASSUME ImageOK(live'), backup' \in {live, backup} PROVE ImagesOK'
  BY <1>i, <1>b DEF ImagesOK, Images
<1>u. ASSUME UNCHANGED live, backup' \in {live, backup} PROVE ImagesOK'
  BY <1>i, <1>u, <1>b
<1>1. ASSUME NEW p \in Procs, Migrate(p) PROVE ImagesOK'
  <2>b. UNCHANGED backup
    BY <1>1 DEF Migrate, Open, Identify, CreateTables, AddColumns, Backfill, CheckClosures,
       CheckEdges, ResetStatement, RecordVersion, OpenTimesOut
  <2>1. CASE Open(p) \/ CheckClosures(p) \/ CheckEdges(p) \/ OpenTimesOut(p)
    BY <2>1, <2>b, <1>u DEF Open, CheckClosures, CheckEdges, OpenTimesOut
  <2>2. CASE Identify(p)
    <3>1. live' = live \/ live' = [live EXCEPT !.app = "memory"] BY <2>2 DEF Identify
    <3> QED BY <2>b, <3>1, <1>i, <1>b, IdentifyImage
  <2>3. CASE CreateTables(p)
    <3>1. PICK a, b : live' = [live EXCEPT !.tables = a, !.columns = b]
      BY <2>3 DEF CreateTables
    <3> QED BY <2>b, <3>1, <1>i, <1>b, TablesImage
  <2>4. CASE AddColumns(p)
    <3>1. live' = [live EXCEPT !.columns = TRUE] BY <2>4 DEF AddColumns
    <3> QED BY <2>b, <3>1, <1>i, <1>b, ColumnsImage
  <2>5. CASE Backfill(p)
    <3>1. live' = [live EXCEPT !.unattributed = @ \ Attributable] BY <2>5 DEF Backfill
    <3> QED BY <2>b, <3>1, <1>i, <1>b, BackfillImage
  <2>6. CASE ResetStatement(p)
    <3> DEFINE n == proc[p].done + 1
               others == {q \in live.torn \ {p} : InReset(q)}
    <3>1. Placed(proc[p]) /\ Upgraded(proc[p], live) /\ proc[p].at \in Resets
      BY <2>6 DEF TypesOK, UpgradesOK, ResetStatement, At, Resets
    <3>2. proc[p].done \in 0..4 BY <3>1, Places
    <3>3. n \in 1..5 BY <3>2
    <3>4. ~live.shared => /\ n >= 2 => live.edges = {}
                          /\ n >= 3 => live.spans = {}
                          /\ n >= 4 => live.cues = {}
      BY <3>1, <3>2 DEF Upgraded
    <3>5. live' = [Cleared(live, n) EXCEPT !.torn = IF n = 5 THEN others ELSE @ \cup {p}]
      BY <2>6 DEF ResetStatement
    <3>6. others \in SUBSET Procs BY <1>i DEF ImageOK, GraphOK
    <3> HIDE DEF n, others
    <3>7. ImageOK([Cleared(live, n) EXCEPT !.torn = IF n = 5 THEN others ELSE @ \cup {p}])
      BY <1>i, <3>3, <3>4, <3>6, ResetImage
    <3> QED BY <2>b, <3>5, <3>7, <1>b
  <2>7. CASE RecordVersion(p)
    <3>1. live' = [live EXCEPT !.version = Supported] BY <2>7 DEF RecordVersion
    <3>2. ~live.shared => live.unattributed = {} /\ live.unsourced = {}
      BY <2>7 DEF RecordVersion, At, UpgradesOK, Upgraded
    <3> QED BY <2>b, <3>1, <3>2, <1>i, <1>b, StampImage
  <2> QED BY <1>1, <2>1, <2>2, <2>3, <2>4, <2>5, <2>6, <2>7 DEF Migrate
<1>2. ASSUME NEW p \in Procs, StartImport(p) \/ ImportItem(p) PROVE ImagesOK'
  BY <1>2, <1>u DEF StartImport, ImportItem
<1>4. ASSUME NEW p \in Procs, CommitImport(p) PROVE ImagesOK'
  <2>1. UNCHANGED backup BY <1>4 DEF CommitImport
  <2> QED BY <1>4, <2>1, <1>b, CommittedIsWhole
<1>5. ASSUME NEW p \in Procs, NEW key \in Remembered, AppendEvent(p, key) PROVE ImagesOK'
  <2>1. /\ live' = [live EXCEPT !.ledger = @ \cup {[key |-> key, from |-> <<>>]}]
        /\ UNCHANGED backup
    BY <1>5 DEF AppendEvent
  <2> QED BY <2>1, <1>i, <1>b, AppendedIsWhole
<1>6. ASSUME NEW p \in Procs, NEW key \in Keys(live), Project(p, key) PROVE ImagesOK'
  <2>1. live' = WrittenBy(p, Folded(live, key)) /\ UNCHANGED backup BY <1>6 DEF Project
  <2>2. ImageOK(Folded(live, key)) BY <1>i, FoldedImage
  <2> QED BY <2>1, <2>2, <1>b, WrittenImage
<1>7. ASSUME NEW p \in Procs, Rebuild(p) PROVE ImagesOK'
  <2>1. PICK keys \in SUBSET Keys(live) : \E order \in Orders(keys) :
          live' = WrittenBy(p, [Replayed(Emptied(live), keys, order) EXCEPT
                                  !.torn = {q \in @ : InReset(q)}])
    BY <1>7 DEF Rebuild, Emptied
  <2>2. PICK order \in Orders(keys) :
          live' = WrittenBy(p, [Replayed(Emptied(live), keys, order) EXCEPT
                                  !.torn = {q \in @ : InReset(q)}])
    BY <2>1
  <2> DEFINE g == [Replayed(Emptied(live), keys, order) EXCEPT !.torn = {q \in @ : InReset(q)}]
  <2>3. ImageOK(g) BY <1>i, ReplayedImage
  <2>4. UNCHANGED backup BY <1>7 DEF Rebuild
  <2>5. live' = WrittenBy(p, g) BY <2>2
  <2> HIDE DEF g
  <2> QED BY <2>3, <2>4, <2>5, <1>b, WrittenImage
<1>8. ASSUME NEW p \in Procs, Close(p) \/ Crash(p) \/ StartBackup(p) \/ CopyToBackup(p)
      PROVE ImagesOK'
  BY <1>8, <1>u DEF Close, Crash, StartBackup, CopyToBackup
<1>12. ASSUME NEW p \in Procs, Restore(p) PROVE ImagesOK'
  <2> DEFINE more == {q \in Procs : InReset(q)}
             g == [backup EXCEPT !.torn = @ \cup more]
  <2>1. live' = WrittenBy(p, g) /\ UNCHANGED backup BY <1>12 DEF Restore
  <2>2. ImageOK(backup) BY <1>12, <1>i DEF Restore, Restorable
  <2> HIDE DEF more
  <2>3. more \in SUBSET Procs BY DEF more
  <2>4. ImageOK(g) BY <2>2, <2>3, RestoredImage
  <2> HIDE DEF g
  <2> QED BY <2>1, <2>4, <1>b, WrittenImage
<1>13. ASSUME NEW p \in Procs, AppendAudit(p) PROVE ImagesOK'
  <2>1. PICK a, n : live' = [live EXCEPT !.audit = a, !.audits = n] BY <1>13 DEF AppendAudit
  <2>2. UNCHANGED backup BY <1>13 DEF AppendAudit
  <2> QED BY <2>1, <2>2, <1>i, <1>b, AuditImage
<1>14. ASSUME NEW p \in Procs, PruneAudit(p) PROVE ImagesOK'
  <2>1. PICK audit : live' = [live EXCEPT !.audit = audit] BY <1>14 DEF PruneAudit
  <2>2. UNCHANGED backup BY <1>14 DEF PruneAudit
  <2> QED BY <2>1, <2>2, <1>i, <1>b, PrunedImage
<1>15. ASSUME NEW p \in Procs, NEW options \in Retentions, RepairOrphans(p, options)
       PROVE ImagesOK'
  BY <1>15, <1>i, <1>b, RepairedImage DEF RepairOrphans
<1>16. CASE StepEnds BY <1>16, <1>u DEF StepEnds
<1>17. ASSUME NEW now \in Clock, ClockMoves(now) PROVE ImagesOK'
  BY <1>17, <1>u DEF ClockMoves
<1>18. CASE UNCHANGED vars BY <1>18, <1>u DEF vars
<1> QED
  BY <1>1, <1>2, <1>4, <1>5, <1>6, <1>7, <1>8, <1>12, <1>13, <1>14, <1>15, <1>16, <1>17,
     <1>18 DEF Next, Import

-----------------------------------------------------------------------------
(* One import at a time, and no item of a file or the journal that may not *)
(* be in the ledger.                                                       *)

\* No import is open when p may write and is not importing itself.
LEMMA Alone ==
  ASSUME NEW p \in Procs, MayWrite(p), ~At(p, "import")
  PROVE \A q \in Procs : ~At(q, "import")
BY DEF MayWrite, At

\* A step that neither opens nor continues an import.
Elsewhither == \A q \in Procs : At(q, "import")' => proc'[q] = proc[q]

\* A step that starts no import and writes to the ledger only when none is open.
LEMMA ImportsGoOn ==
  ASSUME ImportsOK, Elsewhither,
         live'.ledger = live.ledger \/ \A q \in Procs : ~At(q, "import")'
  PROVE ImportsOK'
<1> SUFFICES ASSUME NEW p \in Procs, At(p, "import")'
             PROVE  (\A q \in Procs : At(q, "import")' => q = p) /\ Importing(proc[p])'
  BY DEF ImportsOK
<1>1. proc'[p] = proc[p] /\ At(p, "import") /\ live'.ledger = live.ledger
  BY DEF Elsewhither, At
<1>2. \A q \in Procs : At(q, "import")' => q = p BY <1>1 DEF ImportsOK, Elsewhither, At
<1>3. Importing(proc[p])' BY <1>1 DEF ImportsOK, Importing, Keys
<1> QED BY <1>2, <1>3

LEMMA ItemIsImported ==
  ASSUME TypesOK, ImportsOK, NEW p \in Procs, ImportItem(p)
  PROVE ImportsOK'
<1> DEFINE outcome == proc[p].items[proc[p].next]
           row == [key |-> outcome[2], from |-> proc[p].items]
           isNew == IsEvent(outcome) /\ outcome[2] \notin Keys(proc[p])
<1>1. /\ \A q \in Procs \ {p} : proc'[q] = proc[q]
      /\ outcome = Bad => proc'[p] = [at |-> "open"]
      /\ outcome # Bad =>
           /\ proc'[p].at = "import" /\ proc'[p].items = proc[p].items
           /\ proc'[p].next = proc[p].next + 1
           /\ isNew => proc'[p].ledger = proc[p].ledger \cup {row}
           /\ ~isNew => proc'[p].ledger = proc[p].ledger
  BY ItemRead
<1>2. /\ At(p, "import") /\ UNCHANGED live /\ Importing(proc[p]) /\ Placed(proc[p])
      /\ \A q \in Procs : At(q, "import") => q = p
  BY DEF ImportItem, ImportsOK, TypesOK
<1>3. \A q \in Procs : At(q, "import")' => q = p BY <1>1, <1>2 DEF At
<1>4. CASE outcome = Bad
  <2>1. \A q \in Procs : ~At(q, "import")' BY <1>1, <1>3, <1>4 DEF At
  <2> QED BY <2>1 DEF ImportsOK
<1>5. CASE outcome # Bad
  <2> DEFINE s == proc[p]
             t == proc'[p]
  <2>1. t.items = s.items /\ t.next = s.next + 1 /\ s.next \in Nat
        /\ Len(s.items) \in Nat /\ DOMAIN s.items = 1..Len(s.items)
    BY <1>1, <1>2, <1>5, Places DEF At
  <2>2. s.ledger \subseteq t.ledger /\ Keys(s) \subseteq Keys(t)
    BY <1>1, <1>5 DEF Keys
  <2>3. \A r \in t.ledger : r \in s.ledger \/ r = row BY <1>1, <1>5
  <2>4. row.from = s.items /\ row.key = outcome[2] OBVIOUS
  <2>5. IsEvent(outcome) => outcome[2] \in Keys(t)
    <3>1. isNew => row \in t.ledger BY <1>1, <1>5
    <3>2. isNew => outcome[2] \in Keys(t) BY <2>4, <3>1 DEF Keys
    <3> QED BY <2>2, <3>2
  <2>o. outcome = s.items[s.next] OBVIOUS
  <2> HIDE DEF row, outcome
  <2>6. live'.ledger \subseteq t.ledger BY <1>2, <2>2 DEF Importing
  <2>7. \A r \in t.ledger : r.from = t.items \/
          \A i \in DOMAIN r.from :
            r.from[i] # Bad /\ (IsEvent(r.from[i]) => r.from[i][2] \in Keys(t))
    <3> TAKE r \in t.ledger
    <3>1. CASE r \in s.ledger BY <1>2, <2>1, <2>2, <3>1 DEF Importing
    <3>2. CASE r = row BY <2>1, <2>4, <3>2
    <3> QED BY <2>3, <3>1, <3>2
  <2>8. \A i \in DOMAIN t.items : i < t.next =>
          t.items[i] # Bad /\ (IsEvent(t.items[i]) => t.items[i][2] \in Keys(t))
    <3> SUFFICES ASSUME NEW i \in DOMAIN s.items, i < s.next + 1
                 PROVE s.items[i] # Bad /\ (IsEvent(s.items[i]) => s.items[i][2] \in Keys(t))
      BY <2>1
    <3>1. CASE i < s.next BY <1>2, <2>2, <3>1 DEF Importing
    <3>2. CASE i = s.next BY <1>5, <2>5, <2>o, <3>2
    <3>3. i \in Int BY <2>1
    <3> QED BY <2>1, <3>1, <3>2, <3>3
  <2>9. Importing(proc[p])' BY <2>6, <2>7, <2>8 DEF Importing, Keys
  <2> QED BY <1>3, <2>9 DEF ImportsOK
<1> QED BY <1>4, <1>5

\* An upgrade leaves the ledger and the audit trail as they are, and makes no
\* file that could be another program's.
LEMMA MigrateLeaves ==
  ASSUME TypesOK, ImagesOK, NEW p \in Procs, Migrate(p)
  PROVE /\ Elsewhither /\ \A q \in Procs : At(q, "backup")' => At(q, "backup")
        /\ live'.ledger = live.ledger
        /\ live'.audit = live.audit /\ live'.audits = live.audits
        /\ UNCHANGED <<backup, steps, clock, setBack>>
        /\ ~Foreign(live) => ~Foreign(live')
<1> USE DEF At
<1>s. Placed(proc[p]) BY DEF TypesOK
<1>t. proc = [q \in Procs |-> proc[q]] BY DEF TypesOK
<1>i. IsImage(live) BY DEF ImagesOK, Images, ImageOK
<1>1. Elsewhither /\ \A q \in Procs : At(q, "backup")' => At(q, "backup")
  <2>1. \A q \in Procs \ {p} : proc'[q] = proc[q]
    BY <1>t DEF Migrate, Open, Identify, CreateTables, AddColumns, Backfill,
       CheckClosures, CheckEdges, ResetStatement, RecordVersion, OpenTimesOut, Goto
  <2>2. proc'[p].at \notin {"import", "backup"}
    <3>a. ASSUME NEW s, Goto(p, s) PROVE proc'[p] = s BY <3>a, Moved
    <3>b. ASSUME proc[p].at \in Versioned, NEW place PROVE [proc[p] EXCEPT !.at = place].at = place
      <4>1. proc[p] = [at |-> proc[p].at, from |-> proc[p].from] BY <1>s, <3>b, Places
      <4> QED BY <4>1
    <3>1. CASE Open(p) \/ RecordVersion(p) \/ OpenTimesOut(p)
      BY <3>1, <3>a DEF Open, RecordVersion, OpenTimesOut, Idle
    <3>2. CASE Identify(p) BY <3>2, <3>a DEF Identify, Idle
    <3>3. CASE CreateTables(p) BY <3>3, <3>a, <3>b DEF CreateTables, Versioned
    <3>4. CASE AddColumns(p)
      <4> DEFINE s == [proc[p] EXCEPT !.at = "backfill"]
      <4>1. s.at = "backfill" BY <3>4, <3>b DEF AddColumns, Versioned
      <4>2. Goto(p, Idle) \/ Goto(p, s) BY <3>4 DEF AddColumns
      <4> HIDE DEF s
      <4> QED BY <3>a, <4>1, <4>2 DEF Idle
    <3>5. CASE Backfill(p) BY <3>5, <3>a, <3>b DEF Backfill, Versioned
    <3>6. CASE CheckClosures(p)
      <4> DEFINE s == [proc[p] EXCEPT !.at = "check5"]
      <4>1. s.at = "check5" BY <3>6, <3>b DEF CheckClosures, Versioned
      <4>2. Goto(p, Resetting(p, "reset3")) \/ Goto(p, s) BY <3>6 DEF CheckClosures
      <4> HIDE DEF s
      <4> QED BY <3>a, <4>1, <4>2 DEF Resetting
    <3>7. CASE CheckEdges(p) BY <3>7, <3>a DEF CheckEdges, Resetting
    <3>8. CASE ResetStatement(p)
      <4>1. proc[p] = [at |-> proc[p].at, from |-> proc[p].from, done |-> proc[p].done]
            /\ proc[p].at \in Resets
        BY <1>s, <3>8, Places DEF ResetStatement, Resets
      <4>2. \A n : [proc[p] EXCEPT !.done = n].at = proc[p].at BY <4>1
      <4> QED BY <3>8, <3>a, <4>1, <4>2 DEF ResetStatement, Resets
    <3> QED BY <3>1, <3>2, <3>3, <3>4, <3>5, <3>6, <3>7, <3>8 DEF Migrate
  <2> QED BY <2>1, <2>2 DEF Elsewhither
<1>2. UNCHANGED <<backup, steps, clock, setBack>>
  BY DEF Migrate, Open, Identify, CreateTables, AddColumns, Backfill,
     CheckClosures, CheckEdges, ResetStatement, RecordVersion, OpenTimesOut
<1> DEFINE Others == /\ live'.ledger = live.ledger
                     /\ live'.audit = live.audit /\ live'.audits = live.audits
                     /\ ~Foreign(live) => ~Foreign(live')
<1>3. Others
  <2>1. CASE Open(p) \/ CheckClosures(p) \/ CheckEdges(p) \/ OpenTimesOut(p)
    BY <2>1 DEF Open, CheckClosures, CheckEdges, OpenTimesOut, Foreign
  <2>2. CASE Identify(p) BY <2>2, <1>i DEF Identify, IsImage, Fields, Foreign
  <2>3. CASE CreateTables(p) BY <2>3, <1>i DEF CreateTables, IsImage, Fields, Foreign
  <2>4. CASE AddColumns(p) BY <2>4, <1>i DEF AddColumns, IsImage, Fields, Foreign
  <2>5. CASE Backfill(p) BY <2>5, <1>i DEF Backfill, IsImage, Fields, Foreign
  <2>6. CASE ResetStatement(p)
    <3> DEFINE n == proc[p].done + 1
               c == Cleared(live, n)
    <3>1. proc[p].done \in 0..4 BY <1>s, <2>6, Places DEF ResetStatement, Resets
    <3>2. n \in 1..5 BY <3>1
    <3>3. PICK torn : live' = [c EXCEPT !.torn = torn] BY <2>6 DEF ResetStatement
    <3> HIDE DEF n
    <3>c. c = Cleared(live, n) OBVIOUS
    <3> HIDE DEF c
    <3>4. IsImage(c) /\ c.ledger = live.ledger /\ c.audit = live.audit
          /\ c.audits = live.audits /\ c.app = live.app /\ c.version = live.version
      BY <1>i, <3>2, <3>c, ClearedFields
    <3> QED BY <3>3, <3>4 DEF IsImage, Fields, Foreign
  <2>7. CASE RecordVersion(p)
    BY <2>7, <1>i DEF RecordVersion, IsImage, Fields, Foreign, Supported
  <2> QED BY <2>1, <2>2, <2>3, <2>4, <2>5, <2>6, <2>7 DEF Migrate
<1> QED BY <1>1, <1>2, <1>3

LEMMA ImportsKept ==
  ASSUME TypesOK, ImagesOK, JournalOK, ImportsOK, [Next]_vars
  PROVE ImportsOK'
<1>t. proc = [p \in Procs |-> proc[p]] BY DEF TypesOK
<1>i. IsImage(live) BY DEF ImagesOK, Images, ImageOK
<1>g. ASSUME NEW p \in Procs, NEW s, Goto(p, s), s.at # "import" PROVE Elsewhither
  BY <1>g, Moved DEF Elsewhither, At
<1>n. UNCHANGED proc => Elsewhither BY DEF Elsewhither
<1>w. ASSUME NEW p \in Procs, MayWrite(p), ~At(p, "import"), Elsewhither PROVE ImportsOK'
  <2>1. \A q \in Procs : ~At(q, "import") BY <1>w, Alone
  <2>2. \A q \in Procs : ~At(q, "import")' BY <1>w, <2>1 DEF Elsewhither, At
  <2> QED BY <2>2 DEF ImportsOK
<1>1. ASSUME NEW p \in Procs, Migrate(p) PROVE ImportsOK'
  BY <1>1, MigrateLeaves, ImportsGoOn
<1>2. ASSUME NEW p \in Procs, StartImport(p) PROVE ImportsOK'
  <2>1. PICK items \in {JsonlOutcomes(Lines), JournalOutcomes(steps)} :
          Goto(p, [at |-> "import", items |-> items, next |-> 1, ledger |-> live.ledger,
                   report |-> NoReport])
    BY <1>2 DEF StartImport
  <2>2. UNCHANGED live /\ \A q \in Procs : ~At(q, "import")
    BY <1>2, Alone DEF StartImport, At
  <2>3. /\ proc'[p] = [at |-> "import", items |-> items, next |-> 1, ledger |-> live.ledger,
                       report |-> NoReport]
        /\ \A q \in Procs \ {p} : proc'[q] = proc[q]
    BY <2>1, Moved
  <2>4. proc'[p].items = items /\ proc'[p].next = 1 /\ proc'[p].ledger = live.ledger
    BY <2>3
  <2>5. \A q \in Procs : At(q, "import")' => q = p BY <2>2, <2>3 DEF At
  <2>6. Whole(live) BY DEF ImagesOK, Images, ImageOK
  <2>7. \A i \in DOMAIN proc'[p].items : ~(i < proc'[p].next)
    <3>1. \E n \in Int : DOMAIN items = 1..n
      BY ConstantsAssumption DEF JsonlOutcomes, JournalOutcomes, JournalOK
    <3> QED BY <2>4, <3>1
  <2>8. Importing(proc[p])' BY <2>2, <2>4, <2>6, <2>7 DEF Importing, Whole, Keys
  <2> QED BY <2>5, <2>8 DEF ImportsOK
<1>3. ASSUME NEW p \in Procs, ImportItem(p) PROVE ImportsOK' BY <1>3, ItemIsImported
<1>4. ASSUME NEW p \in Procs, CommitImport(p) PROVE ImportsOK'
  <2>1. \A q \in Procs : At(q, "import") => q = p BY <1>4 DEF CommitImport, ImportsOK
  <2>2. proc'[p] = [at |-> "open"] /\ \A q \in Procs \ {p} : proc'[q] = proc[q]
    BY <1>4, Moved DEF CommitImport
  <2>3. \A q \in Procs : ~At(q, "import")' BY <2>1, <2>2 DEF At
  <2> QED BY <2>3 DEF ImportsOK
<1>5. ASSUME NEW p \in Procs, NEW key \in Remembered, AppendEvent(p, key) PROVE ImportsOK'
  BY <1>5, <1>n, <1>w DEF AppendEvent, At
<1>6. ASSUME NEW p \in Procs, NEW key \in Keys(live), Project(p, key) PROVE ImportsOK'
  BY <1>6, <1>n, <1>w DEF Project, At
<1>7. ASSUME NEW p \in Procs, Rebuild(p) PROVE ImportsOK'
  BY <1>7, <1>n, <1>w DEF Rebuild, At
<1>8. ASSUME NEW p \in Procs, Close(p) \/ Crash(p) \/ StartBackup(p) \/ CopyToBackup(p)
      PROVE ImportsOK'
  <2>1. UNCHANGED live /\ (Goto(p, Idle) \/ Goto(p, [at |-> "backup"]) \/ Goto(p, [at |-> "open"]))
    BY <1>8 DEF Close, Crash, StartBackup, CopyToBackup
  <2>2. Elsewhither BY <2>1, <1>g DEF Idle
  <2> QED BY <2>1, <2>2, ImportsGoOn
<1>12. ASSUME NEW p \in Procs, Restore(p) PROVE ImportsOK'
  <2>1. MayWrite(p) /\ ~At(p, "import") /\ Goto(p, [at |-> "identify"]) BY <1>12 DEF Restore, At
  <2>2. Elsewhither BY <2>1, <1>g
  <2> QED BY <2>1, <2>2, <1>w
<1>13. ASSUME NEW p \in Procs, AppendAudit(p) PROVE ImportsOK'
  BY <1>13, <1>n, <1>w DEF AppendAudit, At
<1>14. ASSUME NEW p \in Procs, PruneAudit(p) PROVE ImportsOK'
  <2>1. MayWrite(p) /\ ~At(p, "import") /\ Goto(p, [at |-> "open"]) BY <1>14 DEF PruneAudit, At
  <2>2. Elsewhither BY <2>1, <1>g
  <2> QED BY <2>1, <2>2, <1>w
<1>15. ASSUME NEW p \in Procs, NEW options \in Retentions, RepairOrphans(p, options)
       PROVE ImportsOK'
  <2>1. MayWrite(p) /\ ~At(p, "import") /\ Goto(p, [at |-> "prune", options |-> options])
    BY <1>15 DEF RepairOrphans, At
  <2>2. Elsewhither BY <2>1, <1>g
  <2> QED BY <2>1, <2>2, <1>w
<1>16. CASE StepEnds \/ UNCHANGED vars
  BY <1>16, <1>n, ImportsGoOn DEF StepEnds, vars
<1>17. ASSUME NEW now \in Clock, ClockMoves(now) PROVE ImportsOK'
  BY <1>17, <1>n, ImportsGoOn DEF ClockMoves
<1> QED
  BY <1>1, <1>2, <1>3, <1>4, <1>5, <1>6, <1>7, <1>8, <1>12, <1>13, <1>14, <1>15, <1>16, <1>17
     DEF Next, Import

-----------------------------------------------------------------------------
(* What is in the ledger of a journal has ended.                           *)

LEMMA EventIsFinal ==
  ASSUME NEW step, ~Skipped(step)
  PROVE Final(step)
BY DEF Skipped, Final, Terminal, Succeeded, Failed

\* What a file says: no step of the journal, or one that has ended.
LEMMA FilesAreKnown ==
  ASSUME JournalOK, NEW items \in {JsonlOutcomes(Lines), JournalOutcomes(steps)}
  PROVE Known(Events(items))
<1> SUFFICES ASSUME NEW i \in DOMAIN steps, StepKey(steps[i]) \in Events(items)
             PROVE Final(steps[i])
  BY DEF Known
<1>1. PICK j \in DOMAIN items : IsEvent(items[j]) /\ items[j][2] = StepKey(steps[i])
  BY DEF Events
<1>2. CASE items = JsonlOutcomes(Lines)
  <2>1. j \in DOMAIN Lines /\ items[j] = LineOutcome(Lines[j])
    BY <1>1, <1>2 DEF JsonlOutcomes
  <2>2. items[j] \in {Ignored, Bad, Event(LineKey(Lines[j]))} BY <2>1 DEF LineOutcome
  <2>3. items[j][2] = LineKey(Lines[j])
    BY <1>1, <2>2 DEF IsEvent, Ignored, Bad, Event
  <2> QED BY <1>1, <2>1, <2>3 DEF JournalOK
<1>3. CASE items = JournalOutcomes(steps)
  <2>1. j \in DOMAIN steps /\ items[j] = StepOutcome(steps[j])
    BY <1>1, <1>3 DEF JournalOutcomes
  <2>2. items[j] \in {Skip, Bad, Event(StepKey(steps[j]))}
        /\ (Skipped(steps[j]) => items[j] = Skip)
    BY <2>1 DEF StepOutcome
  <2>3. ~Skipped(steps[j]) /\ items[j][2] = StepKey(steps[j])
    BY <1>1, <2>2 DEF IsEvent, Skip, Bad, Event
  <2>4. i = j BY <1>1, <2>1, <2>3 DEF JournalOK
  <2> QED BY <2>3, <2>4, EventIsFinal
<1> QED BY <1>2, <1>3

\* The journal has not moved on, and what is known has not grown but by what
\* may be.
LEMMA JournalGoesOn ==
  ASSUME JournalOK, UNCHANGED steps, backup' \in {live, backup}, Known(Keys(live')),
         \A p \in Procs : At(p, "import")' =>
           Known(Keys(proc'[p])) /\ Known(Events(proc'[p].items))
  PROVE JournalOK'
<1>1. \A image \in Images' : Known(Keys(image)) BY DEF JournalOK, Images
<1>2. \A keys : Known(keys) <=> Known(keys)' BY DEF Known
<1>3. \A image \in Images' : Known(Keys(image))' BY <1>1 DEF Known, Keys
<1>4. \A p \in Procs : At(p, "import")' =>
        Known(Keys(proc[p]))' /\ Known(Events(proc[p].items))'
  BY DEF Known, Keys, Events
<1> QED BY <1>3, <1>4 DEF JournalOK

LEMMA JournalUndisturbed ==
  ASSUME JournalOK, UNCHANGED steps, backup' \in {live, backup}, live'.ledger = live.ledger,
         Elsewhither
  PROVE JournalOK'
<1>1. Keys(live') = Keys(live) BY DEF Keys
<1>2. Known(Keys(live')) BY <1>1 DEF JournalOK, Images
<1>3. \A p \in Procs : At(p, "import")' =>
        Known(Keys(proc'[p])) /\ Known(Events(proc'[p].items))
  BY DEF JournalOK, Elsewhither, At
<1> QED BY <1>2, <1>3, JournalGoesOn

LEMMA StepEndsAfterwards ==
  ASSUME JournalOK, StepEnds
  PROVE JournalOK'
<1>1. PICK i \in DOMAIN steps, status \in {"completed", "failed"} :
        steps[i].status = "running" /\ steps' = [steps EXCEPT ![i].status = status]
  BY DEF StepEnds
<1>2. UNCHANGED <<live, backup, proc>> BY DEF StepEnds
<1>3. /\ DOMAIN steps = 1..Len(steps) /\ Len(steps) \in Nat
      /\ \A j \in DOMAIN steps : steps[j] = [f \in StepFields |-> steps[j][f]]
  BY DEF JournalOK
<1>4. DOMAIN steps' = DOMAIN steps /\ \A j \in DOMAIN steps : j # i => steps'[j] = steps[j]
  BY <1>1
<1>5. /\ steps'[i] = [f \in StepFields |-> steps'[i][f]]
      /\ steps'[i].run = steps[i].run /\ steps'[i].seq = steps[i].seq
      /\ steps'[i].use = steps[i].use
  BY <1>1, <1>3 DEF StepFields
<1>6. \A j \in DOMAIN steps : StepKey(steps'[j]) = StepKey(steps[j])
  BY <1>4, <1>5 DEF StepKey
<1>7. Len(steps') \in Nat /\ DOMAIN steps' = 1..Len(steps')
  <2>1. steps' = [j \in DOMAIN steps |-> steps'[j]] BY <1>1
  <2> QED BY <1>3, <2>1, OutcomesAreLists
<1>8. ~Final(steps[i]) BY <1>1 DEF Final
<1>9. ASSUME NEW keys, Known(keys) PROVE Known(keys)'
  BY <1>4, <1>6, <1>8, <1>9 DEF Known
<1>10. \A image \in Images' : Known(Keys(image))'
  BY <1>2, <1>9 DEF JournalOK, Images, Keys
<1>11. ASSUME NEW p \in Procs, At(p, "import")'
       PROVE Known(Keys(proc[p]))' /\ Known(Events(proc[p].items))'
  <2>1. Known(Keys(proc[p])) /\ Known(Events(proc[p].items))
    BY <1>2, <1>11 DEF JournalOK, At
  <2>2. Keys(proc[p])' = Keys(proc[p]) BY <1>2 DEF Keys
  <2>3. Events(proc[p].items)' = Events(proc[p].items) BY <1>2 DEF Events
  <2>4. Known(Keys(proc[p]))' BY <1>9, <2>1, <2>2 DEF Known
  <2>5. Known(Events(proc[p].items))' BY <1>9, <2>1, <2>3 DEF Known
  <2> QED BY <2>4, <2>5
<1>12. \A j \in DOMAIN steps' :
         /\ steps'[j] = [f \in StepFields |-> steps'[j][f]]
         /\ StepKey(steps'[j]) \notin Remembered
         /\ \A k \in DOMAIN Lines : LineKey(Lines[k]) # StepKey(steps'[j])
  BY <1>3, <1>4, <1>5, <1>6 DEF JournalOK
<1>13. \A j, k \in DOMAIN steps' : StepKey(steps'[j]) = StepKey(steps'[k]) => j = k
  BY <1>4, <1>6 DEF JournalOK
<1> QED BY <1>7, <1>10, <1>11, <1>12, <1>13 DEF JournalOK

\* The operations on an open database that leave its ledger alone.
LEMMA MaintenanceLeaves ==
  ASSUME TypesOK, ImagesOK, NEW p \in Procs,
         AppendAudit(p) \/ PruneAudit(p) \/ \E options \in Retentions : RepairOrphans(p, options)
  PROVE Elsewhither /\ live'.ledger = live.ledger /\ UNCHANGED <<backup, steps>>
        /\ live'.app = live.app /\ live'.version = live.version
<1>i. IsImage(live) BY DEF ImagesOK, Images, ImageOK
<1>g. ASSUME NEW s, Goto(p, s), s.at # "import" PROVE Elsewhither
  BY <1>g, Moved DEF Elsewhither, At
<1>1. CASE AppendAudit(p)
  <2>1. PICK a, n : live' = [live EXCEPT !.audit = a, !.audits = n] BY <1>1 DEF AppendAudit
  <2> QED BY <1>1, <1>i, <2>1 DEF AppendAudit, IsImage, Fields, Elsewhither
<1>2. CASE PruneAudit(p)
  <2>1. PICK audit : live' = [live EXCEPT !.audit = audit] BY <1>2 DEF PruneAudit
  <2>2. Goto(p, [at |-> "open"]) /\ UNCHANGED <<backup, steps>> BY <1>2 DEF PruneAudit
  <2>3. Elsewhither BY <2>2, <1>g
  <2> QED BY <1>i, <2>1, <2>2, <2>3 DEF IsImage, Fields
<1>3. ASSUME NEW options \in Retentions, RepairOrphans(p, options)
      PROVE Elsewhither /\ live'.ledger = live.ledger /\ UNCHANGED <<backup, steps>>
            /\ live'.app = live.app /\ live'.version = live.version
  <2>1. Goto(p, [at |-> "prune", options |-> options]) /\ live' = Repaired(live)
        /\ UNCHANGED <<backup, steps>>
    BY <1>3 DEF RepairOrphans
  <2>2. Elsewhither BY <2>1, <1>g
  <2> QED BY <1>i, <2>1, <2>2, RepairedFields
<1> QED BY <1>1, <1>2, <1>3

\* What a write to the graph leaves alone.
LEMMA GraphWritesLeave ==
  ASSUME ImagesOK, NEW p \in Procs, Rebuild(p) \/ \E key \in Keys(live) : Project(p, key)
  PROVE Elsewhither /\ live'.ledger = live.ledger /\ UNCHANGED <<backup, steps, clock, setBack>>
        /\ live'.app = live.app /\ live'.version = live.version
        /\ live'.audit = live.audit /\ live'.audits = live.audits
<1>i. ImageOK(live) /\ IsImage(live) BY DEF ImagesOK, Images, ImageOK
<1> DEFINE Leaves(g) == /\ g.ledger = live.ledger /\ g.app = live.app
                        /\ g.version = live.version /\ g.audit = live.audit
                        /\ g.audits = live.audits
<1>w. ASSUME NEW g, ImageOK(g), Leaves(g), live' = WrittenBy(p, g) PROVE Leaves(live')
  BY <1>w DEF WrittenBy, ImageOK, IsImage, Fields
<1>1. CASE Rebuild(p)
  <2>1. PICK keys \in SUBSET Keys(live) : \E order \in Orders(keys) :
          live' = WrittenBy(p, [Replayed(Emptied(live), keys, order) EXCEPT
                                  !.torn = {q \in @ : InReset(q)}])
    BY <1>1 DEF Rebuild, Emptied
  <2>2. PICK order \in Orders(keys) :
          live' = WrittenBy(p, [Replayed(Emptied(live), keys, order) EXCEPT
                                  !.torn = {q \in @ : InReset(q)}])
    BY <2>1
  <2> DEFINE c == Emptied(live)
             r == Replayed(c, keys, order)
             g == [r EXCEPT !.torn = {q \in @ : InReset(q)}]
  <2>3. ImageOK(g) BY <1>i, ReplayedImage
  <2>4. IsImage(c) /\ Leaves(c) BY <1>i, EmptiedFields
  <2>5. live' = WrittenBy(p, g) BY <2>2
  <2> HIDE DEF c
  <2>6. IsImage(r) /\ Leaves(r) BY <2>4 DEF IsImage, Fields, Replayed
  <2> HIDE DEF r
  <2>7. Leaves(g) BY <2>6 DEF IsImage, Fields
  <2> HIDE DEF g
  <2>8. Leaves(live') BY <2>3, <2>5, <2>7, <1>w
  <2>9. Elsewhither /\ UNCHANGED <<backup, steps, clock, setBack>>
    BY <1>1 DEF Rebuild, Elsewhither
  <2> QED BY <2>8, <2>9
<1>2. ASSUME NEW key \in Keys(live), Project(p, key)
      PROVE Leaves(live') /\ Elsewhither /\ UNCHANGED <<backup, steps, clock, setBack>>
  <2> DEFINE g == Folded(live, key)
  <2>1. live' = WrittenBy(p, g) BY <1>2 DEF Project
  <2>2. ImageOK(g) BY <1>i, FoldedImage
  <2>3. Leaves(g) BY <1>i DEF IsImage, Fields, Folded
  <2>4. Elsewhither /\ UNCHANGED <<backup, steps, clock, setBack>>
    BY <1>2 DEF Project, Elsewhither
  <2> HIDE DEF g
  <2> QED BY <2>1, <2>2, <2>3, <2>4, <1>w
<1> QED BY <1>1, <1>2

LEMMA JournalKept ==
  ASSUME TypesOK, ImagesOK, ImportsOK, JournalOK, [Next]_vars
  PROVE JournalOK'
<1>i. ImageOK(live) /\ IsImage(live) BY DEF ImagesOK, Images, ImageOK
<1>n. UNCHANGED proc => Elsewhither BY DEF Elsewhither
<1>g. ASSUME NEW p \in Procs, NEW s, Goto(p, s), s.at # "import" PROVE Elsewhither
  BY <1>g, Moved DEF Elsewhither, At
<1>1. ASSUME NEW p \in Procs, Migrate(p) PROVE JournalOK'
  BY <1>1, MigrateLeaves, JournalUndisturbed
<1>2. ASSUME NEW p \in Procs, StartImport(p) PROVE JournalOK'
  <2>1. PICK items \in {JsonlOutcomes(Lines), JournalOutcomes(steps)} :
          Goto(p, [at |-> "import", items |-> items, next |-> 1, ledger |-> live.ledger,
                   report |-> NoReport])
    BY <1>2 DEF StartImport
  <2>2. UNCHANGED <<live, backup, steps>> BY <1>2 DEF StartImport
  <2>3. /\ proc'[p] = [at |-> "import", items |-> items, next |-> 1, ledger |-> live.ledger,
                       report |-> NoReport]
        /\ \A q \in Procs \ {p} : proc'[q] = proc[q]
    BY <2>1, Moved
  <2>4. proc'[p].items = items /\ Keys(proc'[p]) = Keys(live) BY <2>3 DEF Keys
  <2>5. Known(Events(items)) BY FilesAreKnown
  <2>6. Known(Keys(live)) BY DEF JournalOK, Images
  <2>7. \A q \in Procs : At(q, "import")' =>
          Known(Keys(proc'[q])) /\ Known(Events(proc'[q].items))
    <3> TAKE q \in Procs
    <3>1. CASE q = p BY <2>4, <2>5, <2>6, <3>1
    <3>2. CASE q # p BY <2>3, <3>2 DEF JournalOK, At
    <3> QED BY <3>1, <3>2
  <2> QED BY <2>2, <2>6, <2>7, JournalGoesOn
<1>3. ASSUME NEW p \in Procs, ImportItem(p) PROVE JournalOK'
  <2> DEFINE outcome == proc[p].items[proc[p].next]
             row == [key |-> outcome[2], from |-> proc[p].items]
             isNew == IsEvent(outcome) /\ outcome[2] \notin Keys(proc[p])
  <2>1. /\ \A q \in Procs \ {p} : proc'[q] = proc[q]
        /\ outcome = Bad => proc'[p] = [at |-> "open"]
        /\ outcome # Bad =>
             /\ proc'[p].at = "import" /\ proc'[p].items = proc[p].items
             /\ isNew => proc'[p].ledger = proc[p].ledger \cup {row}
             /\ ~isNew => proc'[p].ledger = proc[p].ledger
    BY <1>3, ItemRead
  <2>2. /\ At(p, "import") /\ UNCHANGED <<live, backup, steps>>
        /\ proc[p].next <= Len(proc[p].items) /\ Placed(proc[p])
    BY <1>3 DEF ImportItem, TypesOK
  <2>3. Known(Keys(proc[p])) /\ Known(Events(proc[p].items)) BY <2>2 DEF JournalOK
  <2>4. row.key = outcome[2] OBVIOUS
  <2>5. IsEvent(outcome) => outcome[2] \in Events(proc[p].items)
    <3>1. proc[p].next \in Nat \ {0} /\ Len(proc[p].items) \in Nat
          /\ DOMAIN proc[p].items = 1..Len(proc[p].items)
      BY <2>2, Places DEF At
    <3>2. proc[p].next \in DOMAIN proc[p].items BY <2>2, <3>1
    <3> QED BY <3>2 DEF Events
  <2> HIDE DEF row
  <2>6. outcome # Bad => Keys(proc'[p]) \subseteq Keys(proc[p]) \cup Events(proc[p].items)
    BY <2>1, <2>4, <2>5 DEF Keys
  <2>7. outcome # Bad => Known(Keys(proc'[p])) BY <2>3, <2>6 DEF Known
  <2> HIDE DEF outcome
  <2>8. \A q \in Procs : At(q, "import")' =>
          Known(Keys(proc'[q])) /\ Known(Events(proc'[q].items))
    <3> TAKE q \in Procs
    <3>1. CASE q = p /\ outcome = Bad BY <2>1, <3>1 DEF At
    <3>2. CASE q = p /\ outcome # Bad BY <2>1, <2>3, <2>7, <3>2
    <3>3. CASE q # p BY <2>1, <3>3 DEF JournalOK, At
    <3> QED BY <3>1, <3>2, <3>3
  <2>9. Known(Keys(live')) BY <2>2 DEF JournalOK, Images
  <2> QED BY <2>2, <2>8, <2>9, JournalGoesOn
<1>4. ASSUME NEW p \in Procs, CommitImport(p) PROVE JournalOK'
  <2>1. /\ At(p, "import") /\ Goto(p, [at |-> "open"]) /\ UNCHANGED <<backup, steps>>
        /\ live' = [live EXCEPT !.ledger = proc[p].ledger]
    BY <1>4 DEF CommitImport
  <2>2. live'.ledger = proc[p].ledger BY <1>i, <2>1 DEF IsImage, Fields
  <2>3. Known(Keys(live')) BY <2>1, <2>2 DEF JournalOK, Keys
  <2>4. Elsewhither BY <2>1, <1>g
  <2>5. \A q \in Procs : At(q, "import")' =>
          Known(Keys(proc'[q])) /\ Known(Events(proc'[q].items))
    BY <2>4 DEF JournalOK, Elsewhither, At
  <2> QED BY <2>1, <2>3, <2>5, JournalGoesOn
<1>5. ASSUME NEW p \in Procs, NEW key \in Remembered, AppendEvent(p, key) PROVE JournalOK'
  <2> DEFINE row == [key |-> key, from |-> <<>>]
  <2>1. live' = [live EXCEPT !.ledger = live.ledger \cup {row}] /\ UNCHANGED <<proc, backup, steps>>
    BY <1>5 DEF AppendEvent
  <2>2. row.key = key OBVIOUS
  <2> HIDE DEF row
  <2>3. live'.ledger = live.ledger \cup {row} BY <1>i, <2>1 DEF IsImage, Fields
  <2>4. Keys(live') \subseteq Keys(live) \cup {key} BY <2>2, <2>3 DEF Keys
  <2>5. Known(Keys(live')) BY <2>4 DEF Known, JournalOK, Images
  <2>6. \A q \in Procs : At(q, "import")' =>
          Known(Keys(proc'[q])) /\ Known(Events(proc'[q].items))
    BY <2>1 DEF JournalOK, At
  <2> QED BY <2>1, <2>5, <2>6, JournalGoesOn
<1>6. ASSUME NEW p \in Procs, Rebuild(p) \/ \E key \in Keys(live) : Project(p, key)
      PROVE JournalOK'
  BY <1>6, GraphWritesLeave, JournalUndisturbed
<1>8. ASSUME NEW p \in Procs, Close(p) \/ Crash(p) \/ StartBackup(p) \/ CopyToBackup(p)
      PROVE JournalOK'
  <2>1. UNCHANGED <<live, steps>> /\ backup' \in {live, backup}
        /\ (Goto(p, Idle) \/ Goto(p, [at |-> "backup"]) \/ Goto(p, [at |-> "open"]))
    BY <1>8 DEF Close, Crash, StartBackup, CopyToBackup
  <2>2. Elsewhither BY <2>1, <1>g DEF Idle
  <2> QED BY <2>1, <2>2, JournalUndisturbed
<1>12. ASSUME NEW p \in Procs, Restore(p) PROVE JournalOK'
  <2> DEFINE more == {q \in Procs : InReset(q)}
             g == [backup EXCEPT !.torn = @ \cup more]
  <2>1. live' = WrittenBy(p, g) /\ UNCHANGED <<backup, steps>> BY <1>12 DEF Restore
  <2>2. ImageOK(backup) /\ Known(Keys(backup))
    BY <1>12, ImagesAre DEF Restore, Restorable, JournalOK, Images
  <2>3. IsImage(g) /\ g.ledger = backup.ledger BY <2>2 DEF ImageOK, IsImage, Fields
  <2> HIDE DEF g
  <2>4. live'.ledger = g.ledger BY <2>1, <2>3 DEF WrittenBy, IsImage, Fields
  <2>5. Known(Keys(live')) BY <2>2, <2>3, <2>4 DEF Keys
  <2>6. Goto(p, [at |-> "identify"]) BY <1>12 DEF Restore
  <2>7. Elsewhither BY <2>6, <1>g
  <2>8. \A q \in Procs : At(q, "import")' =>
          Known(Keys(proc'[q])) /\ Known(Events(proc'[q].items))
    BY <2>7 DEF JournalOK, Elsewhither, At
  <2> QED BY <2>1, <2>5, <2>8, JournalGoesOn
<1>13. ASSUME NEW p \in Procs, AppendAudit(p) \/ PruneAudit(p) \/
              \E options \in Retentions : RepairOrphans(p, options)
       PROVE JournalOK'
  BY <1>13, MaintenanceLeaves, JournalUndisturbed
<1>16. CASE StepEnds BY <1>16, StepEndsAfterwards
<1>17. CASE (\E now \in Clock : ClockMoves(now)) \/ UNCHANGED vars
  BY <1>17, <1>n, JournalUndisturbed DEF ClockMoves, vars
<1> QED
  BY <1>1, <1>2, <1>3, <1>4, <1>5, <1>6, <1>8, <1>12, <1>13, <1>16, <1>17 DEF Next, Import

-----------------------------------------------------------------------------
(* The audit trail is that of its last rows.                               *)

\* The rows of a trail are as many as the ids they have.
LEMMA TrailCounts ==
  ASSUME NEW g, Trail(g), NEW first \in 1..(g.audits + 1),
         {row.id : row \in g.audit} = first..g.audits
  PROVE IsFiniteSet(g.audit) /\ Cardinality(g.audit) = g.audits - first + 1
<1> DEFINE ids == first..g.audits
           f == [row \in g.audit |-> row.id]
<1>1. g.audits \in Nat /\ first \in Int /\ ids = {row.id : row \in g.audit} BY DEF Trail
<1>2. \A a, b \in g.audit : a.id = b.id => a = b BY DEF Trail
<1>3. IsFiniteSet(ids) /\ Cardinality(ids) = g.audits - first + 1
  <2> DEFINE last == g.audits
  <2>0. last \in Int /\ first \in 1..(last + 1) BY <1>1
  <2> HIDE DEF last
  <2>1. IsFiniteSet(first..last)
        /\ Cardinality(first..last) = IF first > last THEN 0 ELSE last - first + 1
    BY <2>0, FS_Interval
  <2>2. Cardinality(first..last) = last - first + 1 BY <2>0, <2>1
  <2> QED BY <2>1, <2>2 DEF last
<1> HIDE DEF ids
<1>4. f \in [g.audit -> ids] BY <1>1
<1>5. f \in Injection(g.audit, ids)
  BY <1>2, <1>4 DEF Injection, IsInjective
<1>6. f \in Surjection(g.audit, ids)
  <2>1. \A t \in ids : \E s \in g.audit : f[s] = t BY <1>1
  <2> QED BY <1>4, <2>1 DEF Surjection
<1> HIDE DEF f
<1>7. /\ IsFiniteSet(g.audit)
      /\ Cardinality(g.audit) = Cardinality(ids) <=> f \in Surjection(g.audit, ids)
  BY <1>3, <1>5, FS_Injection
<1> QED BY <1>3, <1>6, <1>7

\* Every nonempty set of ids has a least one.
LEMMA LeastId ==
  ASSUME NEW ids \in SUBSET Nat, ids # {}
  PROVE \E n \in ids : \A m \in ids : n <= m
<1> DEFINE R == {ss \in Nat \X Nat : ss[1] < ss[2]}
<1>1. R = OpToRel(<, Nat) BY DEF OpToRel
<1>2. IsWellFoundedOn(R, Nat) BY <1>1, NatLessThanWellFounded
<1>3. \A x, y \in Nat : <<x, y>> \in R <=> x < y OBVIOUS
<1> HIDE DEF R
<1>4. PICK n \in ids : \A m \in ids : ~(<<m, n>> \in R) BY <1>2, WFMin
<1>5. \A m \in ids : n <= m
  <2> TAKE m \in ids
  <2>1. m \in Nat /\ n \in Nat /\ ~(m < n) BY <1>3, <1>4
  <2> QED BY <2>1
<1> QED BY <1>5

\* What is kept of a trail is a trail if with a row all later ones are kept.
LEMMA SuffixIsTrail ==
  ASSUME NEW g, Trail(g), NEW kept \in SUBSET g.audit,
         \A a \in kept, b \in g.audit : b.id > a.id => b \in kept,
         NEW h, h.audit = kept, h.audits = g.audits
  PROVE Trail(h)
<1>1. /\ g.audit \subseteq [id : Nat, at : Int] /\ g.audits \in Nat
      /\ \A a, b \in g.audit : (a.id = b.id => a = b) /\ (a.id < b.id => a.at <= b.at)
  BY DEF Trail
<1>2. PICK first \in 1..(g.audits + 1) : {row.id : row \in g.audit} = first..g.audits
  BY DEF Trail
<1>3. \E from \in 1..(g.audits + 1) : {row.id : row \in kept} = from..g.audits
  <2>1. CASE kept = {}
    <3>1. {row.id : row \in kept} = (g.audits + 1)..g.audits BY <1>1, <2>1
    <3> QED BY <1>1, <3>1
  <2>2. CASE kept # {}
    <3> DEFINE ids == {row.id : row \in kept}
    <3>1. ids \subseteq Nat /\ ids # {} BY <1>1, <2>2
    <3>3. PICK n \in ids : \A m \in ids : n <= m
      <4> HIDE DEF ids
      <4> QED BY <3>1, LeastId
    <3>4. PICK a \in kept : a.id = n BY <3>3
    <3>5. n \in first..g.audits BY <1>2, <3>4
    <3>6. ids \subseteq n..g.audits
      <4> SUFFICES ASSUME NEW m \in ids PROVE m \in n..g.audits OBVIOUS
      <4>1. m \in first..g.audits BY <1>2
      <4>2. n <= m BY <3>3
      <4> QED BY <3>5, <4>1, <4>2
    <3>7. n..g.audits \subseteq ids
      <4> SUFFICES ASSUME NEW m \in n..g.audits PROVE m \in ids OBVIOUS
      <4>1. m \in first..g.audits BY <3>5
      <4>2. PICK b \in g.audit : b.id = m BY <1>2, <4>1
      <4>3. CASE m = n BY <3>3, <4>3
      <4>4. CASE m # n
        <5>1. b.id > a.id BY <3>4, <3>5, <4>1, <4>2, <4>4
        <5>2. b \in kept BY <3>4, <5>1
        <5> QED BY <4>2, <5>2
      <4> QED BY <4>3, <4>4
    <3>8. n \in 1..(g.audits + 1) BY <1>1, <3>5
    <3>9. ids = n..g.audits BY <3>6, <3>7
    <3> QED BY <3>8, <3>9
  <2> QED BY <2>1, <2>2
<1> QED BY <1>1, <1>3 DEF Trail

\* By age first, and then the newest rows: the last ones.
LEMMA PrunedIsTrail ==
  ASSUME NEW g, Trail(g), NEW before \in Int, NEW keep \in Int, NEW h,
         h.audits = g.audits,
         LET young == {row \in g.audit : row.at >= before}
         IN  h.audit = IF keep = NoBound THEN young ELSE Retained(young, keep)
  PROVE Trail(h) /\ h.audit \subseteq g.audit
<1> DEFINE young == {row \in g.audit : row.at >= before}
<1>1. /\ g.audit \subseteq [id : Nat, at : Int]
      /\ \A a, b \in g.audit : (a.id = b.id => a = b) /\ (a.id < b.id => a.at <= b.at)
  BY DEF Trail
<1>2. \A a \in young, b \in g.audit : b.id > a.id => b \in young
  <2> SUFFICES ASSUME NEW a \in young, NEW b \in g.audit, b.id > a.id PROVE b.at >= before
    OBVIOUS
  <2>1. a \in g.audit /\ a.at >= before /\ a.at \in Int /\ b.at \in Int
        /\ a.id \in Nat /\ b.id \in Nat
    BY <1>1
  <2>2. a.at <= b.at BY <1>1, <2>1
  <2> QED BY <2>1, <2>2
<1>3. IsFiniteSet(young)
  <2>1. IsFiniteSet(g.audit) BY TrailCounts DEF Trail
  <2> QED BY <2>1, FS_Subset
<1>y. young \subseteq g.audit OBVIOUS
<1>h. h.audit = young \/ h.audit = Retained(young, keep) OBVIOUS
<1> HIDE DEF young
<1>4. \A a \in Retained(young, keep), b \in g.audit : b.id > a.id => b \in Retained(young, keep)
  <2> SUFFICES ASSUME NEW a \in Retained(young, keep), NEW b \in g.audit, b.id > a.id
               PROVE b \in Retained(young, keep)
    OBVIOUS
  <2> DEFINE A == {other \in young : Newer(other, a)}
             B == {other \in young : Newer(other, b)}
  <2>1. a \in young /\ Cardinality(A) < keep BY DEF Retained
  <2>2. b \in young BY <1>2, <2>1
  <2>3. a \in g.audit /\ a.id \in Nat /\ b.id \in Nat /\ a.at \in Int /\ b.at \in Int
    BY <1>1, <1>y, <2>1
  <2>4. a.at <= b.at BY <1>1, <2>3
  <2>5. B \subseteq A
    <3> SUFFICES ASSUME NEW o \in young, Newer(o, b) PROVE Newer(o, a) OBVIOUS
    <3>1. o.id \in Nat /\ o.at \in Int BY <1>1, <1>y
    <3> QED BY <2>3, <2>4, <3>1 DEF Newer
  <2>6. IsFiniteSet(A) BY <1>3, FS_Subset
  <2>7. Cardinality(B) <= Cardinality(A) /\ IsFiniteSet(B) BY <2>5, <2>6, FS_Subset
  <2>8. Cardinality(A) \in Nat /\ Cardinality(B) \in Nat BY <2>6, <2>7, FS_CardinalityType
  <2>9. Cardinality(B) < keep
    <3> HIDE DEF A, B
    <3> QED BY <2>1, <2>7, <2>8
  <2> QED BY <2>2, <2>9 DEF Retained
<1>5. Retained(young, keep) \subseteq g.audit BY <1>y DEF Retained
<1> QED BY <1>2, <1>4, <1>5, <1>y, <1>h, SuffixIsTrail

LEMMA AppendedIsTrail ==
  ASSUME NEW g, Trail(g), NEW now \in Int, \A row \in g.audit : row.at <= now, NEW h,
         h.audit = g.audit \cup {[id |-> g.audits + 1, at |-> now]}, h.audits = g.audits + 1
  PROVE Trail(h) /\ \A row \in h.audit : row.at <= now
<1> DEFINE new == [id |-> g.audits + 1, at |-> now]
<1>1. /\ g.audit \subseteq [id : Nat, at : Int] /\ g.audits \in Nat
      /\ \A a, b \in g.audit : (a.id = b.id => a = b) /\ (a.id < b.id => a.at <= b.at)
  BY DEF Trail
<1>2. PICK first \in 1..(g.audits + 1) : {row.id : row \in g.audit} = first..g.audits
  BY DEF Trail
<1>3. new \in [id : Nat, at : Int] /\ new.id = g.audits + 1 /\ new.at = now BY <1>1
<1>4. h.audit = g.audit \cup {new} OBVIOUS
<1> HIDE DEF new
<1>5. \A a \in g.audit : a.id \in Nat /\ a.id <= g.audits /\ a.at \in Int
  BY <1>1, <1>2
<1>6. {row.id : row \in h.audit} = first..h.audits
  <2>1. {row.id : row \in h.audit} = {row.id : row \in g.audit} \cup {g.audits + 1}
    BY <1>3, <1>4
  <2>2. first..(g.audits + 1) = (first..g.audits) \cup {g.audits + 1} BY <1>1
  <2> QED BY <1>2, <2>1, <2>2
<1>7. h.audit \subseteq [id : Nat, at : Int] /\ h.audits \in Nat BY <1>1, <1>3, <1>4
<1>8. \A a, b \in h.audit : (a.id = b.id => a = b) /\ (a.id < b.id => a.at <= b.at)
  <2> TAKE a, b \in h.audit
  <2>1. CASE a \in g.audit /\ b \in g.audit BY <1>1, <2>1
  <2>2. CASE a \in g.audit /\ b = new
    BY <1>1, <1>3, <1>5, <2>2
  <2>3. CASE a = new /\ b \in g.audit BY <1>1, <1>3, <1>5, <2>3
  <2>4. CASE a = new /\ b = new BY <1>3, <2>4
  <2> QED BY <1>4, <2>1, <2>2, <2>3, <2>4
<1>9. first \in 1..(h.audits + 1) BY <1>1
<1>10. \A row \in h.audit : row.at <= now BY <1>3, <1>4
<1> QED BY <1>6, <1>7, <1>8, <1>9, <1>10 DEF Trail

LEMMA SameTrail ==
  ASSUME NEW g, Trail(g), NEW h, h.audit = g.audit, h.audits = g.audits
  PROVE Trail(h)
BY DEF Trail

LEMMA AuditKept ==
  ASSUME TypesOK, ImagesOK, AuditOK, [Next]_vars
  PROVE AuditOK'
<1>i. ImageOK(live) /\ IsImage(live) BY DEF ImagesOK, Images, ImageOK
<1> DEFINE Old(g) == Trail(g) /\ \A row \in g.audit : row.at <= clock
<1>t. ~setBack => Old(live) /\ (backup # Absent => Old(backup)) BY DEF AuditOK, Images
<1>k. ASSUME ~setBack => Old(live'), backup' \in {live, backup}, UNCHANGED <<clock, setBack>>
      PROVE AuditOK'
  BY <1>t, <1>k DEF AuditOK, Images
<1> HIDE DEF Old
<1>u. ASSUME live'.audit = live.audit, live'.audits = live.audits, backup' \in {live, backup},
             UNCHANGED <<clock, setBack>>
      PROVE AuditOK'
  <2>1. ~setBack => Old(live') BY <1>t, <1>u, SameTrail DEF Old
  <2> QED BY <1>u, <1>k, <2>1
<1>1. ASSUME NEW p \in Procs, Migrate(p) PROVE AuditOK'
  BY <1>1, <1>u, MigrateLeaves
<1>2. ASSUME NEW p \in Procs, Import(p) PROVE AuditOK'
  BY <1>2, <1>u, <1>i DEF Import, StartImport, ImportItem, CommitImport, IsImage, Fields
<1>5. ASSUME NEW p \in Procs, NEW key \in Remembered, AppendEvent(p, key) PROVE AuditOK'
  BY <1>5, <1>u, <1>i DEF AppendEvent, IsImage, Fields
<1>6. ASSUME NEW p \in Procs, Rebuild(p) \/ \E key \in Keys(live) : Project(p, key)
      PROVE AuditOK'
  BY <1>6, <1>u, GraphWritesLeave
<1>8. ASSUME NEW p \in Procs, Close(p) \/ Crash(p) \/ StartBackup(p) \/ CopyToBackup(p)
      PROVE AuditOK'
  BY <1>8, <1>u DEF Close, Crash, StartBackup, CopyToBackup
<1>12. ASSUME NEW p \in Procs, Restore(p) PROVE AuditOK'
  <2> DEFINE more == {q \in Procs : InReset(q)}
             g == [backup EXCEPT !.torn = @ \cup more]
  <2>1. live' = WrittenBy(p, g) /\ UNCHANGED <<backup, clock, setBack>> /\ backup # Absent
    BY <1>12 DEF Restore, Restorable
  <2>2. ImageOK(backup) BY <2>1, ImagesAre
  <2>3. IsImage(g) /\ g.audit = backup.audit /\ g.audits = backup.audits
    BY <2>2 DEF ImageOK, IsImage, Fields
  <2> HIDE DEF g
  <2>4. live'.audit = g.audit /\ live'.audits = g.audits
    BY <2>1, <2>3 DEF WrittenBy, IsImage, Fields
  <2>5. ~setBack => Old(live') BY <1>t, <2>1, <2>3, <2>4, SameTrail DEF Old
  <2> QED BY <2>1, <2>5, <1>k
<1>13. ASSUME NEW p \in Procs, AppendAudit(p) PROVE AuditOK'
  <2>1. /\ live'.audit = live.audit \cup {[id |-> live.audits + 1, at |-> clock]}
        /\ live'.audits = live.audits + 1 /\ UNCHANGED <<backup, clock, setBack>>
    BY <1>13, <1>i DEF AppendAudit, IsImage, Fields
  <2>2. clock \in Int BY ConstantsAssumption DEF TypesOK
  <2>3. ~setBack => Old(live') BY <1>t, <2>1, <2>2, AppendedIsTrail DEF Old
  <2> QED BY <2>1, <2>3, <1>k
<1>14. ASSUME NEW p \in Procs, PruneAudit(p) PROVE AuditOK'
  <2> DEFINE before == proc[p].options.before
             keep == proc[p].options.keep
             young == {row \in live.audit : row.at >= before}
             kept == IF keep = NoBound THEN young ELSE Retained(young, keep)
  <2>1. live' = [live EXCEPT !.audit = kept] /\ UNCHANGED <<backup, clock, setBack>>
    BY <1>14 DEF PruneAudit
  <2>2. proc[p].options \in [before : Int, keep : Int]
    BY <1>14, Places DEF PruneAudit, At, TypesOK
  <2>3. before \in Int /\ keep \in Int BY <2>2
  <2> HIDE DEF before, keep
  <2>k. kept = IF keep = NoBound THEN young ELSE Retained(young, keep) OBVIOUS
  <2> HIDE DEF kept
  <2>4. live'.audit = kept /\ live'.audits = live.audits BY <1>i, <2>1 DEF IsImage, Fields
  <2>5. ~setBack => Trail(live') /\ live'.audit \subseteq live.audit
    <3> SUFFICES ASSUME ~setBack PROVE Trail(live') /\ live'.audit \subseteq live.audit OBVIOUS
    <3>1. Trail(live) BY <1>t DEF Old
    <3> QED BY <2>3, <2>4, <2>k, <3>1, PrunedIsTrail
  <2>6. ~setBack => Old(live') BY <1>t, <2>5 DEF Old
  <2> QED BY <2>1, <2>6, <1>k
<1>15. ASSUME NEW p \in Procs, NEW options \in Retentions, RepairOrphans(p, options)
       PROVE AuditOK'
  <2>1. live' = Repaired(live) /\ UNCHANGED <<backup, clock, setBack>> BY <1>15 DEF RepairOrphans
  <2> QED BY <1>i, <1>u, <2>1, RepairedFields
<1>16. CASE StepEnds \/ UNCHANGED vars BY <1>16, <1>u DEF StepEnds, vars
<1>17. ASSUME NEW now \in Clock, ClockMoves(now) PROVE AuditOK'
  <2>1. UNCHANGED <<live, backup>> /\ clock' = now /\ setBack' = (setBack \/ now < clock)
    BY <1>17 DEF ClockMoves
  <2>2. clock \in Int /\ now \in Int BY ConstantsAssumption DEF TypesOK
  <2> SUFFICES ASSUME ~setBack', NEW image \in Images'
               PROVE Trail(image) /\ \A row \in image.audit : row.at <= now
    BY <2>1 DEF AuditOK
  <2>a. ~setBack /\ ~(now < clock) BY <2>1
  <2>3. ~setBack /\ clock <= now BY <2>2, <2>a
  <2>4. Trail(image) /\ \A row \in image.audit : row.at <= clock
    BY <2>1, <2>3 DEF AuditOK, Images
  <2>5. \A row \in image.audit : row.at \in Int BY <2>4 DEF Trail
  <2> QED BY <2>2, <2>3, <2>4, <2>5
<1> QED
  BY <1>1, <1>2, <1>5, <1>6, <1>8, <1>12, <1>13, <1>14, <1>15, <1>16, <1>17 DEF Next

-----------------------------------------------------------------------------
(* Files of other programs and of newer versions.                          *)

\* Nobody gets past the check of a file that is not to be touched.
LEMMA ForeignKept ==
  ASSUME TypesOK, ImagesOK, ForeignOK, [Next]_vars
  PROVE /\ ForeignOK'
        /\ Foreign(live) => UNCHANGED live
        /\ (backup # Absent /\ Foreign(backup)) => UNCHANGED backup
<1>i. ImageOK(live) /\ IsImage(live) BY DEF ImagesOK, Images, ImageOK
<1> DEFINE Goal == /\ ForeignOK'
                   /\ Foreign(live) => UNCHANGED live
                   /\ (backup # Absent /\ Foreign(backup)) => UNCHANGED backup
\* A process that has passed the check, and the file is not foreign afterwards.
<1>p. ASSUME ~Foreign(live), ~Foreign(live'), UNCHANGED backup,
             \A q \in Procs : At(q, "backup")' => At(q, "backup") \/ backup = Absent
      PROVE Goal
  BY <1>p DEF ForeignOK
<1>u. ASSUME UNCHANGED <<live, backup>>,
             \A q \in Procs : proc'[q].at # proc[q].at =>
               proc'[q].at \in {"closed", "identify"} \/
                 (~Foreign(live) /\ (proc'[q].at = "backup" => backup = Absent))
      PROVE Goal
  BY <1>u DEF ForeignOK, At
<1>o. ASSUME NEW p \in Procs, proc[p].at \notin {"closed", "identify"} PROVE ~Foreign(live)
  BY <1>o DEF ForeignOK
<1>g. ASSUME NEW p \in Procs, NEW s, Goto(p, s), s.at # "backup"
      PROVE \A q \in Procs : At(q, "backup")' => At(q, "backup")
  BY <1>g, Moved DEF At
<1>m. ASSUME NEW p \in Procs, NEW s, Goto(p, s), UNCHANGED <<live, backup>>,
             s.at \in {"closed", "identify"} \/
               (~Foreign(live) /\ (s.at = "backup" => backup = Absent))
      PROVE Goal
  <2>1. proc'[p] = s /\ \A q \in Procs \ {p} : proc'[q] = proc[q] BY <1>m, Moved
  <2> HIDE DEF Goal
  <2> QED BY <1>m, <2>1, <1>u
<1>1. ASSUME NEW p \in Procs, Migrate(p) PROVE Goal
  <2>1. CASE Open(p) BY <1>m, <2>1 DEF Open
  <2>2. CASE Identify(p) /\ Refused(live) BY <1>m, <2>2 DEF Identify, Idle
  <2>3. CASE ~Open(p) /\ ~(Identify(p) /\ Refused(live))
    <3>1. ~Foreign(live)
      <4>1. CASE Identify(p) BY <2>3, <4>1 DEF Refused, Foreign
      <4>2. CASE ~Identify(p)
        <5>1. proc[p].at \notin {"closed", "identify"}
          BY <1>1, <2>3, <4>2 DEF Migrate, CreateTables, AddColumns, Backfill, CheckClosures,
             CheckEdges, ResetStatement, RecordVersion, OpenTimesOut, At, Writing
        <5> QED BY <5>1, <1>o
      <4> QED BY <4>1, <4>2
    <3>2. ~Foreign(live') /\ UNCHANGED backup BY <1>1, <3>1, MigrateLeaves
    <3>3. \A q \in Procs : At(q, "backup")' => At(q, "backup") BY <1>1, MigrateLeaves
    <3> QED BY <3>1, <3>2, <3>3, <1>p
  <2> QED BY <2>1, <2>2, <2>3
<1>2. ASSUME NEW p \in Procs, StartImport(p) PROVE Goal
  <2>1. PICK items : Goto(p, [at |-> "import", items |-> items, next |-> 1,
                              ledger |-> live.ledger, report |-> NoReport])
    BY <1>2 DEF StartImport
  <2>2. UNCHANGED <<live, backup>> /\ proc[p].at = "open" BY <1>2 DEF StartImport, At
  <2>3. ~Foreign(live) BY <2>2, <1>o
  <2> QED BY <2>1, <2>2, <2>3, <1>m
<1>3. ASSUME NEW p \in Procs, ImportItem(p) PROVE Goal
  <2>1. Goto(p, proc'[p]) /\ proc'[p].at \in {"open", "import"} BY <1>3, ItemRead
  <2>2. UNCHANGED <<live, backup>> /\ proc[p].at = "import" BY <1>3 DEF ImportItem, At
  <2>3. ~Foreign(live) BY <2>2, <1>o
  <2> QED BY <2>1, <2>2, <2>3, <1>m
<1>4. ASSUME NEW p \in Procs, CommitImport(p) PROVE Goal
  <2>1. Goto(p, [at |-> "open"]) /\ UNCHANGED backup /\ proc[p].at = "import"
        /\ live' = [live EXCEPT !.ledger = proc[p].ledger]
    BY <1>4 DEF CommitImport, At
  <2>2. live'.app = live.app /\ live'.version = live.version BY <1>i, <2>1 DEF IsImage, Fields
  <2>3. ~Foreign(live) /\ ~Foreign(live') BY <2>1, <2>2, <1>o DEF Foreign
  <2>4. \A q \in Procs : At(q, "backup")' => At(q, "backup") BY <2>1, <1>g
  <2> QED BY <2>1, <2>3, <2>4, <1>p
<1>5. ASSUME NEW p \in Procs, NEW key \in Remembered, AppendEvent(p, key) PROVE Goal
  <2>1. UNCHANGED <<backup, proc>> /\ proc[p].at = "open"
        /\ live' = [live EXCEPT !.ledger = @ \cup {[key |-> key, from |-> <<>>]}]
    BY <1>5 DEF AppendEvent, At
  <2>2. live'.app = live.app /\ live'.version = live.version BY <1>i, <2>1 DEF IsImage, Fields
  <2>3. ~Foreign(live) /\ ~Foreign(live') BY <2>1, <2>2, <1>o DEF Foreign
  <2>4. \A q \in Procs : At(q, "backup")' => At(q, "backup") BY <2>1 DEF At
  <2> QED BY <2>1, <2>3, <2>4, <1>p
<1>6. ASSUME NEW p \in Procs, Rebuild(p) \/ \E key \in Keys(live) : Project(p, key) PROVE Goal
  <2>1. UNCHANGED <<backup, proc>> /\ proc[p].at = "open" BY <1>6 DEF Rebuild, Project, At
  <2>2. live'.app = live.app /\ live'.version = live.version BY <1>6, GraphWritesLeave
  <2>3. ~Foreign(live) /\ ~Foreign(live') BY <2>1, <2>2, <1>o DEF Foreign
  <2>4. \A q \in Procs : At(q, "backup")' => At(q, "backup") BY <2>1 DEF At
  <2> QED BY <2>1, <2>3, <2>4, <1>p
<1>8. ASSUME NEW p \in Procs, Close(p) \/ Crash(p) PROVE Goal
  BY <1>8, <1>m DEF Close, Crash, Idle
<1>9. ASSUME NEW p \in Procs, StartBackup(p) PROVE Goal
  <2>1. Goto(p, [at |-> "backup"]) /\ UNCHANGED <<live, backup>> /\ backup = Absent
        /\ proc[p].at = "open"
    BY <1>9 DEF StartBackup, At
  <2>2. ~Foreign(live) BY <2>1, <1>o
  <2> QED BY <2>1, <2>2, <1>m
<1>10. ASSUME NEW p \in Procs, CopyToBackup(p) PROVE Goal
  <2>1. At(p, "backup") /\ backup' = live /\ UNCHANGED live BY <1>10 DEF CopyToBackup
  <2>2. ~Foreign(live) BY <2>1, <1>o DEF At
  <2>3. ~(backup # Absent /\ Foreign(backup)) BY <2>1 DEF ForeignOK
  <2>4. ForeignOK' BY <2>1, <2>2 DEF ForeignOK
  <2> QED BY <2>2, <2>3, <2>4
<1>12. ASSUME NEW p \in Procs, Restore(p) PROVE Goal
  <2> DEFINE more == {q \in Procs : InReset(q)}
             g == [backup EXCEPT !.torn = @ \cup more]
  <2>1. /\ live' = WrittenBy(p, g) /\ UNCHANGED backup /\ Restorable(backup)
        /\ Goto(p, [at |-> "identify"]) /\ proc[p].at = "open"
    BY <1>12 DEF Restore, At
  <2>2. ImageOK(backup) BY <2>1, ImagesAre DEF Restorable
  <2>3. IsImage(g) /\ g.app = backup.app /\ g.version = backup.version
    BY <2>2 DEF ImageOK, IsImage, Fields
  <2> HIDE DEF g
  <2>4. live'.app = g.app /\ live'.version = g.version
    BY <2>1, <2>3 DEF WrittenBy, IsImage, Fields
  <2>5. ~Foreign(live')
    BY <2>1, <2>2, <2>3, <2>4 DEF Foreign, Restorable, ImageOK, Supported
  <2>6. ~Foreign(live) BY <2>1, <1>o
  <2>7. \A q \in Procs : At(q, "backup")' => At(q, "backup") BY <2>1, <1>g
  <2> QED BY <2>1, <2>5, <2>6, <2>7, <1>p
<1>13. ASSUME NEW p \in Procs, AppendAudit(p) \/ PruneAudit(p) \/
              \E options \in Retentions : RepairOrphans(p, options)
       PROVE Goal
  <2>1. live'.app = live.app /\ live'.version = live.version /\ UNCHANGED backup
    BY <1>13, MaintenanceLeaves
  <2>2. proc[p].at \in {"open", "prune"} BY <1>13 DEF AppendAudit, PruneAudit, RepairOrphans, At
  <2>3. ~Foreign(live) /\ ~Foreign(live') BY <2>1, <2>2, <1>o DEF Foreign
  <2>4. \A q \in Procs : At(q, "backup")' => At(q, "backup")
    <3>1. CASE AppendAudit(p) BY <3>1 DEF AppendAudit, At
    <3>2. CASE PruneAudit(p)
      <4>1. Goto(p, [at |-> "open"]) BY <3>2 DEF PruneAudit
      <4> QED BY <4>1, <1>g
    <3>3. ASSUME NEW options \in Retentions, RepairOrphans(p, options)
          PROVE \A q \in Procs : At(q, "backup")' => At(q, "backup")
      <4>1. Goto(p, [at |-> "prune", options |-> options]) BY <3>3 DEF RepairOrphans
      <4> QED BY <4>1, <1>g
    <3> QED BY <1>13, <3>1, <3>2, <3>3
  <2> QED BY <2>1, <2>3, <2>4, <1>p
<1>16. ASSUME StepEnds \/ (\E now \in Clock : ClockMoves(now)) \/ UNCHANGED vars
       PROVE Goal
  BY <1>16, <1>u DEF StepEnds, ClockMoves, vars
<1>17. Goal
  <2> HIDE DEF Goal
  <2> QED BY <1>1, <1>2, <1>3, <1>4, <1>5, <1>6, <1>8, <1>9, <1>10, <1>12, <1>13, <1>16
          DEF Next, Import
<1> QED BY <1>17

-----------------------------------------------------------------------------
(* The theorems.                                                           *)

LEMMA AtRestIsOK ==
  ASSUME NEW image, AtRest(image)
  PROVE ImageOK(image)
<1>1. IsImage(image) /\ image.version \in Nat /\ Whole(image) BY DEF AtRest, IsImage
<1>2. GraphOK(image) BY DEF AtRest, GraphOK, Keys
<1>3. VersionOK(image) BY DEF AtRest, VersionOK
<1> QED BY <1>1, <1>2, <1>3 DEF ImageOK

LEMMA InitInv ==
  ASSUME Init
  PROVE IInv
<1>1. PICK s \in Scenarios :
        live = s.live /\ backup = s.backup /\ steps = s.steps /\ left = s.left
  BY DEF Init
<1>2. proc = [p \in Procs |-> Idle] /\ clock \in Clock /\ setBack = FALSE BY DEF Init
<1>3. AtRest(live) /\ (backup = Absent \/ AtRest(backup)) /\ left \in [Operations -> Nat]
  BY <1>1, ConstantsAssumption
<1>4. \A p \in Procs : proc[p] = Idle /\ proc[p].at = "closed" BY <1>2 DEF Idle
<1>5. TypesOK
  <2>1. Placed(Idle) BY DEF Placed, Idle
  <2> QED BY <1>2, <1>3, <1>4, <2>1 DEF TypesOK
<1>6. ImagesOK BY <1>3, AtRestIsOK, ImagesAre
<1>7. UpgradesOK BY <1>4, Elsewhere DEF UpgradesOK, Versioned, Resets
<1>8. ImportsOK BY <1>4 DEF ImportsOK, At
<1>9. JournalOK
  <2>1. DOMAIN steps = 1..Len(steps) /\ Len(steps) \in Nat BY <1>1, ConstantsAssumption
  <2>2. /\ \A i \in DOMAIN steps :
             /\ steps[i] = [f \in StepFields |-> steps[i][f]]
             /\ StepKey(steps[i]) \notin Remembered
             /\ \A j \in DOMAIN Lines : LineKey(Lines[j]) # StepKey(steps[i])
             /\ Final(steps[i]) \/
                  \A image \in {live, backup} \ {Absent} : StepKey(steps[i]) \notin Keys(image)
        /\ \A i, j \in DOMAIN steps : StepKey(steps[i]) = StepKey(steps[j]) => i = j
    <3>1. /\ \A i \in DOMAIN s.steps :
               /\ s.steps[i] = [f \in StepFields |-> s.steps[i][f]]
               /\ StepKey(s.steps[i]) \notin Remembered
               /\ \A j \in DOMAIN Lines : LineKey(Lines[j]) # StepKey(s.steps[i])
               /\ Final(s.steps[i]) \/
                    \A image \in {s.live, s.backup} \ {Absent} :
                      StepKey(s.steps[i]) \notin Keys(image)
          /\ \A i, j \in DOMAIN s.steps : StepKey(s.steps[i]) = StepKey(s.steps[j]) => i = j
      BY JournalAssumption, Zenon
    <3> QED BY <1>1, <3>1, Zenon
  <2>3. live # Absent
    <3>1. live.version \in Nat /\ live = [f \in Fields |-> live[f]] BY <1>3 DEF AtRest
    <3>2. DOMAIN live = Fields /\ DOMAIN Absent = {"app"} BY <3>1 DEF Absent
    <3>3. "version" \in Fields BY DEF Fields
    <3> QED BY <3>2, <3>3
  <2>4. \A image \in Images : Known(Keys(image)) BY <2>2, <2>3 DEF Images, Known
  <2>5. \A p \in Procs : ~At(p, "import") BY <1>4 DEF At
  <2> QED BY <2>1, <2>2, <2>4, <2>5 DEF JournalOK
<1>10. AuditOK BY <1>2, <1>3 DEF AuditOK, Images, AtRest
<1>11. ForeignOK BY <1>4 DEF ForeignOK, At
<1> QED BY <1>5, <1>6, <1>7, <1>8, <1>9, <1>10, <1>11 DEF IInv

LEMMA NextInv ==
  ASSUME IInv, [Next]_vars
  PROVE IInv'
<1>1. TypesOK /\ ImagesOK /\ UpgradesOK /\ ImportsOK /\ JournalOK /\ AuditOK /\ ForeignOK
  BY DEF IInv
<1>2. TypesOK' BY <1>1, TypesKept
<1>3. ImagesOK' BY <1>1, ImagesKept
<1>4. UpgradesOK' BY <1>1, UpgradesKept
<1>5. ImportsOK' BY <1>1, ImportsKept
<1>6. JournalOK' BY <1>1, JournalKept
<1>7. AuditOK' BY <1>1, AuditKept
<1>8. ForeignOK' BY <1>1, ForeignKept
<1> QED BY <1>2, <1>3, <1>4, <1>5, <1>6, <1>7, <1>8 DEF IInv

\* The invariant from which everything follows: of every image its graph, its
\* version and where its rows come from, and of every process what it has
\* seen to of the upgrade or read of the file it imports.
THEOREM LifecycleInductive == Spec => []IInv
<1>1. Init => IInv BY InitInv
<1>2. IInv /\ [Next]_vars => IInv' BY NextInv
<1> QED BY <1>1, <1>2, PTL DEF Spec

LEMMA InvGraph ==
  ASSUME IInv
  PROVE GraphIsWhole
<1>1. TypesOK /\ ImagesOK BY DEF IInv
<1>2. \A image \in Images : GraphOK(image) BY <1>1 DEF ImagesOK, ImageOK
<1>3. \A p \in Procs :
        proc[p].at \in Upgrading \cup {"closed", "open", "import", "backup", "prune"}
  BY <1>1, Places DEF TypesOK
<1>4. TypeOK BY <1>1, <1>2, <1>3 DEF TypeOK, TypesOK, GraphOK
<1>5. ProjectedIsInGraph BY <1>2 DEF ProjectedIsInGraph, GraphOK
<1>6. NoOrphans BY <1>2 DEF NoOrphans, GraphOK
<1> QED BY <1>4, <1>5, <1>6 DEF GraphIsWhole

\* The graph has all of what is projected and refers to nothing that it has
\* not, in the database and in every backup, whatever processes open, upgrade,
\* import, rebuild, maintain, back up, restore and die: but for a reset of an
\* upgrade that was begun and not ended, and for images that one process wrote
\* to while another one was upgrading them.
THEOREM GraphIsWholeCorrect == Spec => []GraphIsWhole
<1>1. IInv => GraphIsWhole BY InvGraph
<1> QED BY <1>1, LifecycleInductive, PTL

\* A database that says it has the current version was upgraded, wherever an
\* upgrade was cut short, unless two processes were at it.
THEOREM CurrentIsUpgradedCorrect == Spec => []CurrentIsUpgraded
<1>1. IInv => CurrentIsUpgraded
  BY DEF IInv, ImagesOK, ImageOK, VersionOK, CurrentIsUpgraded, Supported
<1> QED BY <1>1, LifecycleInductive, PTL

\* What was imported is all of its file, without an item that cannot be read,
\* and what is in a ledger of a journal has ended there.
THEOREM ImportsAreFinalCorrect == Spec => []ImportsAreFinal
<1>1. ASSUME IInv PROVE ImportsAreFinal
  <2>1. ImportIsWhole BY <1>1 DEF IInv, ImagesOK, ImageOK, ImportIsWhole
  <2>2. JournalRowsAreFinal BY <1>1 DEF IInv, JournalOK, Known, JournalRowsAreFinal
  <2> QED BY <2>1, <2>2 DEF ImportsAreFinal
<1> QED BY <1>1, LifecycleInductive, PTL

\* Pruning takes the oldest rows of the audit trail, as long as the clock was
\* not set back.
THEOREM AuditHasNoHolesCorrect == Spec => []AuditHasNoHoles
<1>1. ASSUME IInv PROVE AuditHasNoHoles
  <2> SUFFICES ASSUME ~setBack
               PROVE {row.id : row \in live.audit}
                       = (live.audits - Cardinality(live.audit) + 1) .. live.audits
    BY DEF AuditHasNoHoles
  <2>1. Trail(live) BY <1>1 DEF IInv, AuditOK, Images
  <2>2. PICK first \in 1..(live.audits + 1) :
          {row.id : row \in live.audit} = first..live.audits
    BY <2>1 DEF Trail
  <2>3. Cardinality(live.audit) = live.audits - first + 1 BY <2>1, <2>2, TrailCounts
  <2>4. live.audits \in Nat BY <2>1 DEF Trail
  <2>5. first = live.audits - Cardinality(live.audit) + 1 BY <2>3, <2>4
  <2> QED BY <2>2, <2>5
<1> QED BY <1>1, LifecycleInductive, PTL

\* A file of another program or of a newer version is never written to, as the
\* database or as a backup, by any step of any process.
THEOREM ForeignIsUntouchedCorrect == Spec => ForeignIsUntouched
<1>1. ASSUME IInv, [Next]_vars
      PROVE /\ live.app = "other" \/ live.version > Supported => UNCHANGED live
            /\ backup # Absent /\ (backup.app = "other" \/ backup.version > Supported)
                 => UNCHANGED backup
  BY <1>1, ForeignKept DEF IInv, Foreign
<1>2. IInv /\ [Next]_vars =>
        [/\ live.app = "other" \/ live.version > Supported => UNCHANGED live
         /\ backup # Absent /\ (backup.app = "other" \/ backup.version > Supported)
              => UNCHANGED backup]_vars
  BY <1>1
<1> QED BY <1>2, LifecycleInductive, PTL DEF Spec, ForeignIsUntouched
=============================================================================
