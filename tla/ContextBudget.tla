---------------------------- MODULE ContextBudget ----------------------------
(***************************************************************************)
(* How a response's messages are chosen within the model's window: the     *)
(* sections of the system message, the suffix of the conversation that     *)
(* fits, the stored images and tool exchanges that ride on a message, the  *)
(* turns the history window evicts, and the current input                  *)
(* (momo-core context.rs, orchestration/history.rs and response.rs,        *)
(* list_message_window_for_scope).                                         *)
(*                                                                         *)
(* Texts are counts of tokens that add up; a shortened text takes all it   *)
(* is given.  A message is a record of role, text (its tokens, with those  *)
(* of the placeholder of its evidence), wire (the tokens of the messages   *)
(* it expands into) and images.                                            *)
(***************************************************************************)
EXTENDS Integers, Sequences, SequencesExt, FiniteSets, FiniteSetsExt

CONSTANTS
  Overhead,    \* tokens around each message
  Margin,      \* CONTEXT_SAFETY_MARGIN
  MaxImages    \* MAX_RESPONSE_IMAGES

ContextNumbers == Overhead \in Nat \ {0} /\ {Margin, MaxImages} \subseteq Nat

LOCAL Less(a, b) == IF a > b THEN a - b ELSE 0     \* saturating_sub
LOCAL Total(seq) == FoldLeft(+, 0, seq)

-----------------------------------------------------------------------------
(* System sections: sequences of [cost, weight, records].  The records are *)
(* the tokens of each, a heading comes on top.                             *)

\* One round of shares, each capped by its weight and by what its text needs;
\* rounds go on until nothing is left or every text has what it needs, and a
\* round gives a token to each that needs one while any are left.
Grant(sections, acc, i) ==
  LET more == Min({sections[i].weight, sections[i].cost - acc.quota[i], acc.left})
  IN  [quota |-> [acc.quota EXCEPT ![i] = @ + more], left |-> acc.left - more]

Quotas(sections, tokens) ==
  LET round(acc, k) ==
        IF acc.left = 0 THEN acc
        ELSE FoldLeft(LAMBDA a, i : Grant(sections, a, i), acc, [i \in DOMAIN sections |-> i])
  IN  FoldLeft(round, [quota |-> [i \in DOMAIN sections |-> 0], left |-> tokens],
               [k \in 1..Min({tokens, Max({0} \cup {s.cost : s \in Range(sections)})}) |-> k]).quota

\* fit_memory_records: each record is kept whole when it still fits after
\* those before it; without a record the heading goes too.
WholeRecords(section, quota) ==
  LET heading == section.cost - Total(section.records)
      size == FoldLeft(LAMBDA n, r : IF n + r <= quota THEN n + r ELSE n, heading, section.records)
  IN  IF size = heading THEN 0 ELSE size

Keep(section, quota) == IF section.records # <<>> THEN WholeRecords(section, quota) ELSE quota

\* The tokens each section keeps.  A separator stands between two sections.
FitSections(sections, budget) ==
  LET content == Less(budget, Overhead)
      gaps    == Less(Len(sections), 1)
      quota   == Quotas(sections, Less(content, gaps))
  IN  [i \in DOMAIN sections |->
        IF content > 0 /\ Total([j \in DOMAIN sections |-> sections[j].cost]) + gaps <= content
        THEN sections[i].cost
        ELSE Keep(sections[i], quota[i])]

\* The tokens of the system message, none when nothing is left of it.
SystemTokens(kept) ==
  IF Total(kept) = 0 THEN 0
  ELSE Total(kept) + Less(Cardinality({i \in DOMAIN kept : kept[i] > 0}), 1) + Overhead

-----------------------------------------------------------------------------
(* The suffix of messages that fits *)

\* The newest message, shortened to what is left: nothing when only the
\* overhead fits, or when its text would fit but its evidence does not.
Shortened(m, left) ==
  IF left <= Overhead \/ m.text <= left THEN 0 ELSE left

\* What is kept of the messages, newest first: the tokens each takes and
\* whether it is whole.
Suffix(messages, available) ==
  LET take(acc, m) ==
        CASE ~acc.open -> acc
          [] acc.open /\ acc.used + m.wire <= available ->
               [acc EXCEPT !.used = @ + m.wire, !.kept = Append(@, [tokens |-> m.wire, whole |-> TRUE])]
          [] OTHER ->
               LET part == Shortened(m, available)
               IN  [acc EXCEPT !.open = FALSE,
                      !.used = IF acc.kept = <<>> THEN part ELSE @,
                      !.kept = IF acc.kept = <<>> /\ part > 0
                               THEN <<[tokens |-> part, whole |-> FALSE]>> ELSE @]
  IN  FoldLeft(take, [open |-> TRUE, used |-> 0, kept |-> <<>>], Reverse(messages)).kept

\* prepare_context: the system message leaves room for the newest message,
\* up to half of the input.
Prepare(sections, messages, limit) ==
  LET newest == IF messages = <<>> THEN 0 ELSE Min({Last(messages).wire, (limit + 1) \div 2})
      kept   == FitSections(sections, Less(limit, newest))
  IN  [sections |-> kept, system |-> SystemTokens(kept),
       suffix |-> Reverse(Suffix(messages, Less(limit, SystemTokens(kept))))]

-----------------------------------------------------------------------------
(* Stored history *)

\* Without its evidence a message is its own text.
Bare(m) == [m EXCEPT !.text = m.plain, !.wire = m.plain, !.images = 0, !.evidence = FALSE]

\* Image groups stay whole; the newest keep the quota.
History(messages, supported, quota) ==
  LET keep(acc, m) ==
        IF m.images > 0 /\ (~supported \/ m.images > acc.left)
        THEN [acc EXCEPT !.out = Append(@, Bare(m))]
        ELSE [left |-> acc.left - m.images, out |-> Append(acc.out, m)]
  IN  Reverse(FoldLeft(keep, [left |-> quota, out |-> <<>>], Reverse(messages)).out)

\* list_message_window_for_scope: once there are "trigger" completed turns,
\* whole turns leave, "evict" at a time.  What comes before the first turn
\* goes with it.
Turn(messages, i) == Cardinality({j \in 1..i : messages[j].role = "user"})

TurnEnds(messages) ==
  {i \in DOMAIN messages :
     /\ Turn(messages, i) > 0
     /\ i < Len(messages) => Turn(messages, i + 1) > Turn(messages, i)
     /\ \E j \in 1..i : Turn(messages, j) = Turn(messages, i) /\ messages[j].role = "assistant"}

Completed(messages) == Cardinality(TurnEnds(messages))

Window(messages, trigger, evict) ==
  LET ends == TurnEnds(messages)
      gone == ((Cardinality(ends) - trigger) \div evict + 1) * evict
      cut  == CHOOSE i \in ends : Cardinality({e \in ends : e <= i}) = gone
  IN  IF Cardinality(ends) < trigger THEN messages ELSE SubSeq(messages, cut + 1, Len(messages))

\* Mutant of Expand: a shortened anchor is expanded like any other.
ExpandRegardless(history, suffix) ==
  LET first == Len(history) - Len(suffix)
  IN  [i \in DOMAIN suffix |-> history[first + i].wire]

\* expand: a kept message becomes what it stands for; evidence that was
\* shortened is dropped with its anchor.
Expand(history, suffix) ==
  LET first == Len(history) - Len(suffix)
      sent(i) == IF history[first + i].evidence /\ ~suffix[i].whole THEN 0 ELSE suffix[i].tokens
  IN  [i \in DOMAIN suffix |-> sent(i)]

-----------------------------------------------------------------------------
(* The request *)

\* The current input is atomic (images, tool results), a list of texts that
\* share the budget with the history, or empty when it is stored already.
\* "tools" are the tokens of the tool configuration.
Assemble(history, sections, current, tools, window, reserve) ==
  LET reserved == tools + IF current.atomic THEN Total([i \in DOMAIN current.messages |->
                                                         current.messages[i].wire]) ELSE 0
      limit    == Less(Less(window, reserve), Margin)
      messages == history \o IF current.atomic THEN <<>> ELSE current.messages
      prepared == Prepare(sections, messages, Max({1, Less(limit, reserved)}))
      fresh    == Less(IF current.atomic THEN 0 ELSE Len(current.messages),
                       Less(Len(messages) - Len(prepared.suffix), Len(history)))
      old      == SubSeq(prepared.suffix, 1, Len(prepared.suffix) - fresh)
      sent     == Expand(history, old)
                  \o [i \in 1..fresh |-> prepared.suffix[Len(old) + i].tokens]
      total    == prepared.system + Total(sent) + reserved
  IN  CASE reserved >= limit -> [status |-> "refused"]
        [] total > limit -> [status |-> "overflow"]
        [] OTHER -> [status |-> "ok", tokens |-> total, old |-> Len(old), fresh |-> fresh,
                     sent |-> sent, sections |-> prepared.sections]
=============================================================================
