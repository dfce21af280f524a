------------------------------- MODULE Routing -------------------------------
(***************************************************************************)
(* Which memory modes a question is routed to.  The words of a question    *)
(* are abstracted to the intents whose markers occur in it; a list of      *)
(* modes is the set of its members; a confidence is a percentage.          *)
(***************************************************************************)
EXTENDS Integers, FiniteSets, Functions

Modes == {"semantic", "episodic", "procedural", "gotcha", "state"}

Kinds == {"fact", "tag", "topic", "episode", "procedure", "gotcha", "anti_memory", "state",
          "entity_cue"}

Intents == {"state", "gotcha", "procedural", "episodic", "semantic"}

\* what each intent prefers
Prefers(intent) ==
  CASE intent = "state" -> {"state"}
    [] intent = "gotcha" -> {"gotcha", "procedural"}
    [] intent = "procedural" -> {"procedural"}
    [] intent = "episodic" -> {"episodic", "semantic"}
    [] intent = "semantic" -> {"semantic"}

KindsOf(mode) ==
  CASE mode = "semantic" -> {"fact", "tag", "topic"}
    [] mode = "episodic" -> {"episode"}
    [] mode = "procedural" -> {"procedure"}
    [] mode = "gotcha" -> {"gotcha", "anti_memory"}
    [] mode = "state" -> {"state"}

\* semantic queries accept cues too, but a cue is never evidence
Accepts(modes) ==
  UNION {KindsOf(m) : m \in modes} \cup (IF "semantic" \in modes THEN {"entity_cue"} ELSE {})

\* what is read: cues always, for the sake of the graph
SupportKinds(modes) == {"entity_cue"} \cup UNION {KindsOf(m) : m \in modes}

Normalized(modes) == IF modes = {} THEN Modes ELSE modes

Confidence(reason) ==
  CASE reason \in {"state", "procedural"} -> 85
    [] reason \in {"gotcha", "episodic"} -> 75
    [] reason = "semantic" -> 65

Report(allowed, routed, reason, confidence) ==
  [allowed |-> allowed, routed |-> routed, reason |-> reason, confidence |-> confidence]

\* the preferred modes that are allowed, or everything that is
Constrain(preferred, allowed) ==
  IF preferred \cap allowed = {} THEN allowed ELSE preferred \cap allowed

\* modes are explicit, or not all of them are allowed: no guessing
Route(intents, modes, explicit) ==
  LET allowed   == Normalized(modes)
      preferred == UNION {Prefers(i) : i \in intents}
      routed    == Constrain(preferred, allowed)
  IN  IF explicit \/ allowed # Modes
      THEN Report(allowed, allowed, "ambiguous_fallback", 20)
      ELSE IF intents = {} \/ preferred \cap allowed = {}
      THEN Report(allowed, routed, "ambiguous_fallback", 20)
      ELSE IF Cardinality(intents) > 1
      THEN Report(allowed, routed, "ambiguous_fallback", 55)
      ELSE LET intent == CHOOSE i \in intents : TRUE
           IN  Report(allowed, routed, intent, Confidence(intent))

\* nothing was found on the route: try all that is allowed
FallbackRoute(report) ==
  Report(report.allowed, report.allowed, "empty_route_fallback", 0)

\* the lists differ, also where a guess names every mode in another order
Differs(report) == report.routed # report.allowed \/ report.confidence = 55
==============================================================================
