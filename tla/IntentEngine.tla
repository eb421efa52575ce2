--------------------------- MODULE IntentEngine ---------------------------
(***************************************************************************)
(* IntentEngine::mark (crates/greentic-intent): the extractors scan the    *)
(* text one after another, resolve picks the candidates that stay, and     *)
(* render_markers puts a marker in place of each.  Offsets are bytes, and  *)
(* a character may take several.  What an extractor recognises is left     *)
(* open: how it moves through the text and what it slices is not.          *)
(***************************************************************************)
EXTENDS Integers, Sequences, FiniteSets

CONSTANTS
    Texts,          \* [size |-> bytes, bounds |-> where a character begins or the text ends]
    Engines         \* the kinds that the registered extractors emit, in order

(* kind_priority, of the kinds that have an extractor. *)
KindPriority ==
    [email |-> 13, url |-> 12, phone |-> 11, date |-> 9, time |-> 8, location |-> 4, person |-> 3]

(* What the extractors are sure of, in hundredths. *)
Confidences ==
    [email |-> {98}, url |-> {97}, phone |-> {97}, date |-> {95}, time |-> {90, 95},
     location |-> {90}, person |-> {70}]

Kinds == DOMAIN KindPriority

(* These walk over bytes; the others walk over tokens. *)
ByteScans == {"email", "phone", "url"}

ASSUME TextsAreSound ==
    \A t \in Texts :
        /\ t.size \in Nat
        /\ {0, t.size} \subseteq t.bounds
        /\ t.bounds \subseteq 0 .. t.size

ASSUME ExtractorsAreKnown == Engines \subseteq Seq(Kinds)

VARIABLES
    pc,         \* the stage of mark
    text,       \* the message
    engine,     \* the extractors
    extractor,  \* the extractor that runs
    offset,     \* where it is in the text
    found,      \* all_candidates, in order of arrival
    pending,    \* the candidates that resolve has not considered, as indices of found
    kept,       \* those that it keeps
    entities,   \* kept, by start: entity e<i> is found[entities[i]]
    left,       \* how many entities render_markers has still to replace
    marked      \* marked_text

scanVars == <<text, engine, extractor, offset, found>>
resolveVars == <<pending, kept>>
renderVars == <<entities, left, marked>>
vars == <<pc, text, engine, extractor, offset, found, pending, kept, entities, left, marked>>

Init ==
    /\ pc = "extract"
    /\ text \in Texts /\ engine \in Engines
    /\ extractor = 1 /\ offset = 0 /\ found = <<>>
    /\ pending = {} /\ kept = {}
    /\ entities = <<>> /\ left = 0 /\ marked = <<>>

-----------------------------------------------------------------------------
(* extract *)

Scanning ==
    /\ pc = "extract"
    /\ extractor <= Len(engine)
    /\ offset < text.size

(* A scan finds something here only where a character begins. *)
Scans(kind) == Scanning /\ engine[extractor] = kind /\ offset \in text.bounds

Emit(kind, start, end) ==
    /\ start < end /\ offset < end
    /\ \E c \in Confidences[kind] :
          found' = Append(found, [kind |-> kind, start |-> start, end |-> end, confidence |-> c])
    /\ UNCHANGED <<pc, text, engine, extractor, resolveVars, renderVars>>

(* The words from here on are matched, and the scan goes on behind them. *)
MatchHere(kind) ==
    /\ Scans(kind)
    /\ \E end \in text.bounds : Emit(kind, offset, end) /\ offset' = end

MatchDate == MatchHere("date")
MatchTime == MatchHere("time")
MatchLocation == MatchHere("location")
MatchUrl == MatchHere("url")

(* A name is found at the cue before it. *)
MatchPerson ==
    /\ Scans("person")
    /\ \E start, end \in text.bounds :
          offset < start /\ Emit("person", start, end) /\ offset' = end

(* An address is found at its @, from which the extractor walks back, even  *)
(* into an address that it has emitted.                                     *)
MatchEmail ==
    /\ Scans("email")
    /\ \E start, end \in text.bounds :
          start < offset /\ Emit("email", start, end) /\ offset' = end

(* Mutant: the scan does not move on behind a number. *)
MatchPhoneAgain ==
    /\ Scans("phone")
    /\ \E end \in text.bounds : Emit("phone", offset, end) /\ offset' = offset

(* A number can end before the characters that the scan has consumed. *)
MatchPhone ==
    /\ Scans("phone")
    /\ \E end, resume \in text.bounds :
          end <= resume /\ Emit("phone", offset, end) /\ offset' = resume

Match ==
    \/ MatchDate \/ MatchTime \/ MatchLocation \/ MatchUrl
    \/ MatchPerson \/ MatchEmail \/ MatchPhone

(* text[i..] at an offset inside a character: only the url extractor        *)
(* slices at every byte.                                                    *)
SplitsCharacter == engine[extractor] = "url" /\ offset \notin text.bounds

(* Mutant: a scan over tokens moves on by one byte. *)
SkipsByte(kind) == {offset + 1}

(* Mutant: a scan that finds nothing does not move on. *)
SkipsNothing(kind) == {offset}

(* Nothing is found here.  A scan over bytes may have consumed some that    *)
(* turned out to be no candidate.                                           *)
Skips(kind) ==
    LET ahead == {o \in text.bounds : o > offset} IN
    IF kind \in ByteScans THEN {offset + 1} \cup ahead
    ELSE {o \in ahead : \A b \in ahead : o <= b}

Skip ==
    /\ Scanning
    /\ ~SplitsCharacter
    /\ offset' \in Skips(engine[extractor])
    /\ UNCHANGED <<pc, text, engine, extractor, found, resolveVars, renderVars>>

(* In "in <N> days", N is any i64, and Duration::days and the addition to   *)
(* the reference time panic on one that leaves the calendar.                *)
CanLeaveCalendar == engine[extractor] = "date" /\ offset \in text.bounds

Panic ==
    /\ Scanning
    /\ SplitsCharacter \/ CanLeaveCalendar
    /\ pc' = "panicked"
    /\ UNCHANGED <<scanVars, resolveVars, renderVars>>

NextExtractor ==
    /\ pc = "extract"
    /\ extractor <= Len(engine)
    /\ offset >= text.size
    /\ extractor' = extractor + 1
    /\ offset' = 0
    /\ UNCHANGED <<pc, text, engine, found, resolveVars, renderVars>>

StartResolve ==
    /\ pc = "extract"
    /\ extractor > Len(engine)
    /\ pc' = "resolve"
    /\ pending' = DOMAIN found
    /\ UNCHANGED <<scanVars, kept, renderVars>>

-----------------------------------------------------------------------------
(* resolve *)

(* Mutant: a span inside another is not seen to overlap it. *)
OverlapsPartly(a, b) == a.start < b.end /\ b.end <= a.end /\ b.start <= a.start

SpansOverlap(a, b) == a.start < b.end /\ b.start < a.end

Span(a) == a.end - a.start

(* Where sort_by, which is stable, puts candidate i before candidate j. *)
SortsBefore(i, j) ==
    LET a == found[i]  b == found[j] IN
    \/ a.confidence > b.confidence
    \/ /\ a.confidence = b.confidence
       /\ \/ Span(a) > Span(b)
          \/ /\ Span(a) = Span(b)
             /\ \/ KindPriority[a.kind] > KindPriority[b.kind]
                \/ KindPriority[a.kind] = KindPriority[b.kind] /\ i < j

(* Mutant: without the sort. *)
ConsiderAsTheyArrive ==
    /\ pc = "resolve"
    /\ \E i \in pending :
          /\ \A j \in pending : i <= j
          /\ pending' = pending \ {i}
          /\ kept' = IF \E k \in kept : SpansOverlap(found[k], found[i]) THEN kept ELSE kept \cup {i}
    /\ UNCHANGED <<pc, scanVars, renderVars>>

(* One turn of the loop over the sorted candidates. *)
Consider ==
    /\ pc = "resolve"
    /\ \E i \in pending :
          /\ \A j \in pending \ {i} : SortsBefore(i, j)
          /\ pending' = pending \ {i}
          /\ \/ /\ \E k \in kept : SpansOverlap(found[k], found[i])
                /\ UNCHANGED kept
             \/ /\ ~\E k \in kept : SpansOverlap(found[k], found[i])
                /\ kept' = kept \cup {i}
    /\ UNCHANGED <<pc, scanVars, renderVars>>

(* The items of a marked text: a byte of the message, the marker of an entity. *)
Byte(p) == <<"byte", p>>
Marker(e) == <<"marker", e>>

(* sort_by_key: the kept candidates, which are disjoint, in one order only. *)
KeptByStart ==
    {order \in [1 .. Cardinality(kept) -> kept] :
        /\ \A k \in kept : \E e \in DOMAIN order : order[e] = k
        /\ \A d, e \in DOMAIN order : d < e => found[order[d]].start < found[order[e]].start}

StartRender ==
    /\ pc = "resolve"
    /\ pending = {}
    /\ pc' = "render"
    /\ entities' \in KeptByStart
    /\ left' = Cardinality(kept)
    /\ marked' = [p \in 1 .. text.size |-> Byte(p)]
    /\ UNCHANGED <<scanVars, resolveVars>>

-----------------------------------------------------------------------------
(* render_markers *)

ReplaceRange(s, start, end, item) ==
    SubSeq(s, 1, start) \o <<item>> \o SubSeq(s, end + 1, Len(s))

(* Mutant: from left to right. *)
RenderFromTheLeft ==
    /\ pc = "render"
    /\ left > 0
    /\ LET e == Len(entities) + 1 - left
           entity == found[entities[e]] IN
       marked' = ReplaceRange(marked, entity.start, entity.end, Marker(e))
    /\ left' = left - 1
    /\ UNCHANGED <<pc, scanVars, resolveVars, entities>>

(* From right to left, so that offsets stay valid. *)
RenderNext ==
    /\ pc = "render"
    /\ left > 0
    /\ LET entity == found[entities[left]] IN
       marked' = ReplaceRange(marked, entity.start, entity.end, Marker(left))
    /\ left' = left - 1
    /\ UNCHANGED <<pc, scanVars, resolveVars, entities>>

Return ==
    /\ pc = "render"
    /\ left = 0
    /\ pc' = "done"
    /\ UNCHANGED <<scanVars, resolveVars, renderVars>>

-----------------------------------------------------------------------------
Next ==
    \/ Match \/ Skip \/ Panic \/ NextExtractor \/ StartResolve
    \/ Consider \/ StartRender
    \/ RenderNext \/ Return

Spec == Init /\ [][Next]_vars

(* mark runs to its end: it waits for nothing. *)
FairSpec == Spec /\ WF_vars(Next)

-----------------------------------------------------------------------------
(* Every span is whole characters, as &text[start..end] requires. *)
Candidates ==
    [kind : Kinds, start : text.bounds, end : text.bounds, confidence : UNION {Confidences[k] : k \in Kinds}]

IntentTypeOK ==
    /\ pc \in {"extract", "resolve", "render", "done", "panicked"}
    /\ text \in Texts /\ engine \in Engines
    /\ extractor \in 1 .. Len(engine) + 1
    /\ offset \in 0 .. text.size
    /\ \/ offset \in text.bounds
       \/ extractor <= Len(engine) /\ engine[extractor] \in ByteScans
    /\ found \in Seq(Candidates)
    /\ pending \subseteq DOMAIN found
    /\ kept \subseteq DOMAIN found

(* No two kept entities share a character, whatever the extractors found:   *)
(* otherwise replace_range would cut a marker in two.                       *)
KeptAreDisjoint ==
    \A i, k \in kept :
        i # k => found[i].end <= found[k].start \/ found[k].end <= found[i].start

(* resolve's greedy loop does what its rule chain says: a candidate goes if *)
(* and only if it overlaps one that stays and that the rules put before it. *)
(* There is only one such choice, whatever overlaps what.                   *)
ResolvedByTheRules ==
    pc \in {"render", "done"} =>
        \A i \in DOMAIN found :
            i \in kept <=> ~\E k \in kept : SpansOverlap(found[k], found[i]) /\ SortsBefore(k, i)

(* Where an item of the marked text is in the message: a marker is where its *)
(* entity begins.                                                           *)
Place(item) == IF item[1] = "byte" THEN item[2] ELSE found[entities[item[2]]].start + 1

Inside(p, e) == found[entities[e]].start < p /\ p <= found[entities[e]].end

Replaced == {e \in DOMAIN entities : e > left}

(* The marked text is the message with each entity's own bytes, and no      *)
(* others, replaced by its marker, in the order of the message: the offsets *)
(* of mark are those of the message, although each replacement moves what   *)
(* is behind it.                                                            *)
MarkedAtItsSpans ==
    pc \in {"render", "done"} =>
        /\ {marked[i] : i \in DOMAIN marked} =
              {Byte(p) : p \in {q \in 1 .. text.size : ~\E e \in Replaced : Inside(q, e)}}
              \cup {Marker(e) : e \in Replaced}
        /\ \A i, j \in DOMAIN marked : i < j => Place(marked[i]) < Place(marked[j])

(* How many steps mark can still take: three for each offset that the       *)
(* extractors have still to visit, a turn of the loop of resolve for each   *)
(* candidate, a turn of render_markers for each entity.                     *)
OffsetsLeft ==
    IF extractor > Len(engine) THEN 0
    ELSE (Len(engine) + 1 - extractor) * (text.size + 1) - offset

StepsLeft ==
    CASE pc = "extract" -> 3 * OffsetsLeft + 2 * Len(found) + 3
      [] pc = "resolve" -> 2 * Cardinality(pending) + Cardinality(kept) + 2
      [] pc = "render" -> left + 1
      [] OTHER -> 0

(* mark cannot loop: whatever the extractors find, and even where the scan  *)
(* goes back to what it has emitted, each step uses up one of the steps     *)
(* that the length of the message and the extractors set from the start.    *)
EveryStepCounts == [][StepsLeft' \in Nat /\ StepsLeft' < StepsLeft]_vars

(* The two ways to panic: a date too far away, and a wide character in a    *)
(* message of which the url extractor takes every byte.                     *)
CanPanic ==
    \E i \in DOMAIN engine :
        \/ engine[i] = "date"
        \/ engine[i] = "url" /\ text.bounds # 0 .. text.size

(* mark returns its result on every message, whatever is found in it, unless *)
(* one of these extractors is registered: no other one loops or panics.      *)
MarkReturns == ~CanPanic => <>(pc = "done")

(* mark works in every language: no message makes it panic. *)
NeverPanics == pc # "panicked"
=============================================================================
