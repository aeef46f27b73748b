---------------------------- MODULE ContextWindow ----------------------------
(***************************************************************************)
(* The algorithms of src/src/context that fit a model request into a token *)
(* window: project the transcript, budget, compact the old messages,       *)
(* compress and truncate the sections.  Token counts are numbers and the   *)
(* source's own constants keep their values; a text is its token count,    *)
(* and counts of joined texts add up.                                      *)
(*                                                                         *)
(* A message is [role, id, calls, for, tok]: id is its place in the        *)
(* transcript, calls the ids of its tool calls, for the call a tool result *)
(* answers, tok all that countRequest counts for it, its role included.    *)
(* A section is [key, pri, kind, tok]: key is replaceKey ?? id, or NoKey,  *)
(* pri what the priority policy says, tok its formatted text.              *)
(***************************************************************************)
EXTENDS Integers, Sequences, FiniteSets, FiniteSetsExt, Functions

CONSTANTS
  SystemTok,    \* tokens of the resolved system prompt
  ToolTok,      \* tokens of the tool schemas
  ToolCount     \* number of tools offered

ASSUME SizesAssumption == SystemTok \in Nat \ {0} /\ ToolTok \in Nat /\ ToolCount \in Nat

NoKey == "none"

AtLeast(a, b) == IF a >= b THEN a ELSE b
AtMost(a, b)  == IF a <= b THEN a ELSE b

Tokens(s) ==
  LET sum[i \in 0..Len(s)] == IF i = 0 THEN 0 ELSE sum[i - 1] + s[i].tok
  IN  sum[Len(s)]

(* What is at the places in the domain of upTo, in the order in which      *)
(* upTo[i] grows: it holds the places that come no later than i.           *)
Arranged(ss, upTo) ==
  [k \in 1..Cardinality(DOMAIN upTo) |->
     ss[CHOOSE i \in DOMAIN upTo : Cardinality(upTo[i]) = k]]

Filtered(ss, kept) == Arranged(ss, [i \in kept |-> {j \in kept : j <= i}])

(***************************************************************************)
(* TranscriptProjector.  An exchange is an assistant message with calls    *)
(* followed by as many results of them.  The newest exchange stays; the    *)
(* results of older ones become sections; other results are left out, and  *)
(* so are system messages: the request has one of its own.                 *)
(***************************************************************************)
Complete(ms, i) ==
  LET last == i + Cardinality(ms[i].calls)
  IN  /\ ms[i].calls # {}
      /\ last <= Len(ms)
      /\ \A j \in (i + 1)..last : ms[j].role = "tool" /\ ms[j].for \in ms[i].calls

Exchanges(ms) == {i \in DOMAIN ms : Complete(ms, i)}

ExchangeOf(ms, i) == i..(i + Cardinality(ms[i].calls))

Latest(ms) == {i \in Exchanges(ms) : \A j \in Exchanges(ms) : j <= i}

Projected(ms) ==
  Filtered(ms, {i \in DOMAIN ms : \/ ms[i].role \notin {"tool", "system"} /\ i \notin Exchanges(ms)
                                  \/ \E k \in Latest(ms) : i \in ExchangeOf(ms, k)})

ToolResultSection(call, assistant, result) ==
  [key |-> call, pri |-> 40, kind |-> "tool", tok |-> assistant.tok + result.tok]

(* The section of a result, with the newest call before it as its asker.   *)
SectionOf(ms, result) ==
  ToolResultSection(result.for, ms[Max({i \in Exchanges(ms) : i < result.id})], result)

OldResults(ms) ==
  {i \in DOMAIN ms : /\ ms[i].role = "tool"
                     /\ \E k \in Exchanges(ms) \ Latest(ms) : i \in ExchangeOf(ms, k)}

Archived(ms) ==
  LET results == Filtered(ms, OldResults(ms))
  IN  [k \in DOMAIN results |-> SectionOf(ms, results[k])]

(***************************************************************************)
(* ContextRegistry: drop empty sections, keep the last of each key, order  *)
(* by descending priority and then by place.                               *)
(***************************************************************************)
Kept(ss) ==
  {i \in DOMAIN ss :
     /\ ss[i].tok > 0
     /\ \/ ss[i].key = NoKey
        \/ \A j \in (i + 1)..Len(ss) : ss[j].key = ss[i].key => ss[j].tok = 0}

Registered_Ascending(ss) ==
  Arranged(ss, [i \in Kept(ss) |->
                  {j \in Kept(ss) : \/ ss[j].pri < ss[i].pri
                                    \/ ss[j].pri = ss[i].pri /\ j <= i}])

Registered(ss) ==
  Arranged(ss, [i \in Kept(ss) |->
                  {j \in Kept(ss) : \/ ss[j].pri > ss[i].pri
                                    \/ ss[j].pri = ss[i].pri /\ j <= i}])

(***************************************************************************)
(* DefaultContextBudgetPolicy and ContextBudgeter.  A request is the       *)
(* system message, the projected messages and the tools.                   *)
(***************************************************************************)
Overhead(count) == 3 + 4 * count + 2 * ToolCount

RequestTokens(system, ms) == 1 + system + Tokens(ms) + ToolTok + Overhead(Len(ms) + 1)

MaxContext(limit) == IF limit > 0 THEN limit ELSE 128000

Reserved(limit) == AtMost(4000, MaxContext(limit) \div 5)

MaxInput(limit) == AtLeast(0, MaxContext(limit) - Reserved(limit))

SafetyMargin(limit) ==
  IF MaxContext(limit) >= 4096
    THEN AtMost(MaxInput(limit), AtLeast(256, (2 * MaxInput(limit)) \div 100))
    ELSE 0

HardInputLimit(limit) == AtLeast(0, MaxInput(limit) - SafetyMargin(limit))

(* The role of the system message is counted with the transcript.          *)
TranscriptTokens(ms) == 1 + Tokens(ms)

Available(limit, ms) == AtLeast(0, HardInputLimit(limit) - RequestTokens(SystemTok, ms))

(* The blank line the blocks are joined with.                              *)
SepTok == 1

TextTokens(ss) == Tokens(ss) + SepTok * AtLeast(0, Len(ss) - 1)

CompressionRequired(ss, available) == TextTokens(ss) > (85 * available) \div 100

FixedOverflow(limit, ms) ==
  AtLeast(0, RequestTokens(SystemTok, ms) - HardInputLimit(limit))

(***************************************************************************)
(* What a cut leaves of "room" tokens of text: all of it, or, at a line    *)
(* boundary, as little as half.  A first character of up to three tokens   *)
(* may leave nothing of a small room.                                      *)
(***************************************************************************)
Shares == {"full", "line", "none"}

Part(room, share) ==
  CASE share = "full" -> room
    [] share = "line" -> (room + 1) \div 2
    [] share = "none" -> IF room < 3 THEN 0 ELSE room

(* From the later of the two, or from the last tool result on.             *)
ProtectedStart_Later(ms) ==
  Max({1} \cup {i \in DOMAIN ms : ms[i].role = "user" \/ ms[i].calls # {}})

ProtectedStart_AtResult(ms) ==
  LET results == {i \in DOMAIN ms : ms[i].role = "tool"}
  IN  IF results = {} THEN AtLeast(1, Len(ms)) ELSE Max(results)

(***************************************************************************)
(* TranscriptBudgeter.compact: everything from the last user message or    *)
(* the last tool call on, whichever is earlier, is protected; what is      *)
(* before it is replaced by a summary, or dropped when even the protected  *)
(* messages exceed the budget.                                             *)
(***************************************************************************)
ProtectedStart(ms) ==
  LET users == {i \in DOMAIN ms : ms[i].role = "user"}
      calls == {i \in DOMAIN ms : ms[i].role = "assistant" /\ ms[i].calls # {}}
      candidates == {Max(s) : s \in {users, calls} \ {{}}}
  IN  IF candidates = {} THEN AtLeast(1, Len(ms)) ELSE Min(candidates)

SummaryHeadTok == 5    \* "[Historical conversation summary]\n"

Summary(tokens) ==
  [role |-> "user", id |-> 0, calls |-> {}, for |-> NoKey, tok |-> 1 + SummaryHeadTok + tokens]

Compacted(ms, budget, share) ==
  LET start   == ProtectedStart(ms)
      prefix  == SubSeq(ms, 1, start - 1)
      guarded == SubSeq(ms, start, Len(ms))
      room    == AtLeast(0, budget - Tokens(guarded) - 8)
      summary == Part(room, share)
  IN  IF Tokens(ms) <= budget
        THEN [messages |-> ms, summarized |-> 0]
        ELSE [messages |-> IF prefix # <<>> /\ Tokens(guarded) <= budget /\ summary > 0
                             THEN <<Summary(summary)>> \o guarded
                             ELSE guarded,
              summarized |-> Len(prefix)]

(***************************************************************************)
(* RuleBasedContextCompressor: a tool or file section over its limit keeps *)
(* a head and a tail around a marker, at four characters a token.          *)
(***************************************************************************)
MarkerTok   == 15
MarkerChars == 60

SectionLimit(available) == AtLeast(1200, AtMost(8000, available \div 4))

HeadTail(limit, share) ==
  LET chars == AtLeast(1200, AtMost(8000, 4 * limit)) - MarkerChars
      kept  == AtMost(limit - MarkerTok, AtMost(6000, chars) \div 4)
  IN  MarkerTok + Part(kept, share)

Compressed(section, available, share) ==
  LET limit == SectionLimit(available)
  IN  IF section.kind \in {"tool", "file"} /\ section.tok > limit
        THEN [section EXCEPT !.tok = AtMost(@, HeadTail(limit, share))]
        ELSE section

Truncated_PartUnreported(ss, available, share) ==
  LET fitting == Max({i \in 0..Len(ss) : TextTokens(SubSeq(ss, 1, i)) <= available})
  IN  [included |-> SubSeq(ss, 1, fitting),
       part     |-> 0,
       dropped  |-> SubSeq(ss, fitting + 2, Len(ss)),
       tokens   |-> TextTokens(SubSeq(ss, 1, fitting))]

(***************************************************************************)
(* ContextTruncator: the longest run of sections that fits, then a part of *)
(* the next one if any room is left, and nothing after it.                 *)
(***************************************************************************)
Truncated(ss, available, share) ==
  LET fitting == Max({i \in 0..Len(ss) : TextTokens(SubSeq(ss, 1, i)) <= available})
      whole   == SubSeq(ss, 1, fitting)
      sep     == IF fitting > 0 THEN SepTok ELSE 0
      room    == AtLeast(0, available - TextTokens(whole) - sep)
      part    == IF fitting = Len(ss) THEN 0 ELSE Part(room, share)
  IN  [included |-> whole,
       part     |-> part,
       dropped  |-> SubSeq(ss, fitting + 1, Len(ss)),
       tokens   |-> TextTokens(whole) + IF part > 0 THEN sep + part ELSE 0]

(***************************************************************************)
(* PromptAssembler: the sections' text goes under a heading of its own.    *)
(***************************************************************************)
HeadingTok == 5    \* "\n\n# Runtime Context\n"

SystemPromptTokens(context) ==
  SystemTok + IF context > 0 THEN HeadingTok + context ELSE 0

(***************************************************************************)
(* ContextPipeline.build.  sumShare is what the summary's cut leaves,      *)
(* share what the cuts in sections leave.                                  *)
(***************************************************************************)
Build(limit, sections, ms, sumShare, share) ==
  LET projected  == Projected(ms)
      overflow   == FixedOverflow(limit, projected)
      compaction == IF overflow > 0
                      THEN Compacted(projected,
                                     AtLeast(0, TranscriptTokens(projected) - overflow), sumShare)
                      ELSE [messages |-> projected, summarized |-> 0]
      available  == Available(limit, compaction.messages)
      registered == Registered(sections \o Archived(ms))
      compressed == IF CompressionRequired(registered, available)
                      THEN [i \in DOMAIN registered |->
                              Compressed(registered[i], available, share)]
                      ELSE registered
      truncation == Truncated(compressed, available, share)
      total      == RequestTokens(SystemPromptTokens(truncation.tokens), compaction.messages)
  IN  [status    |-> IF total > HardInputLimit(limit) THEN "refused" ELSE "built",
       messages  |-> compaction.messages,
       included  |-> truncation.included,
       part      |-> truncation.part,
       dropped   |-> truncation.dropped,
       compacted |-> compaction.summarized > 0 \/ truncation.dropped # <<>>,
       total     |-> total]
===============================================================================
