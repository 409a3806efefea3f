---------------------------- MODULE PanePrompts ----------------------------
(* What a captured pane is asking, as internal/prompt reads it.  A screen is *)
(* a sequence of cleaned lines, oldest first: escapes, borders and blank     *)
(* lines are gone.  A line keeps what the detectors look for: its kind, the  *)
(* number and the label of a menu row (of a limit: when it resets), and the  *)
(* cursor it starts with, Claude's or Codex's.                               *)
EXTENDS Integers, SequencesExt, FiniteSetsExt

CONSTANTS
    PromptWindow,   \* lines searched for a question (24 in the code)
    ChoiceWindow,   \* lines searched for a trailing menu (40)
    NearBottom      \* lines that may follow the last row of a menu (3)

ASSUME PromptsAssumption ==
    /\ PromptWindow \in Nat /\ ChoiceWindow \in Nat /\ NearBottom \in Nat

NoCursor == "none"
Line(kind, num, label, cursor) ==
    [kind |-> kind, num |-> num, label |-> label, cursor |-> cursor]
Plain(kind) == Line(kind, 0, kind, NoCursor)
Option(num, label, cursor) == Line("option", num, label, cursor)
Row(label, cursor) == Line("row", 0, label, cursor)

Recent(screen, n) == SubSeq(screen, Max({1, Len(screen) - n + 1}), Len(screen))
Where(lines, kind) == {i \in DOMAIN lines : lines[i].kind = kind}
From(lines, first) == SubSeq(lines, first, Len(lines))
Chosen(line) == line.cursor # NoCursor
IsNear(lines, i) == Len(lines) - i <= NearBottom

\* Key hints under a menu are not part of it.
TrimMenuFooter(lines) ==
    SubSeq(lines, 1, Max({0} \cup {i \in DOMAIN lines : lines[i].kind # "hint"}))

----------------------------------------------------------------------------
NoPrompt == [type |-> "none", question |-> "", options |-> <<>>]
Prompt(type, question, options) ==
    [type |-> type, question |-> question, options |-> options]

\* The given places in order, and the rows there.
InOrder(lines, places) ==
    SelectSeq([i \in DOMAIN lines |-> i], LAMBDA i : i \in places)
RowsAt(lines, places) ==
    [k \in 1 .. Cardinality(places) |-> lines[InOrder(lines, places)[k]]]

\* Everything that belongs to a directory question follows its last heading.
DetectDirectoryAccess(screen) ==
    LET lines == Recent(screen, PromptWindow)
        heads == Where(lines, "directory")
        rows == {i \in Where(lines, "option") : i > Max(heads)}
        asked == \E i \in Where(lines, "allowthis") : i > Max(heads)
    IN IF heads = {} THEN NoPrompt
       ELSE IF rows = {} \/ ~asked THEN NoPrompt
       ELSE IF ~IsNear(lines, Max(rows)) THEN NoPrompt
       ELSE Prompt("directory_access", "allowthis", RowsAt(lines, rows))

HeaderTypes ==
    [waiting |-> "waiting_approval", command |-> "command_approval",
     patch |-> "patch_approval", proceed |-> "generic_confirmation",
     trustfolder |-> "trust_folder"]

\* The rows of a menu that starts somewhere below: up to a row that, after
\* other lines, starts a numbering again.
CollectOptions(lines, first) ==
    LET rows == {i \in Where(lines, "option") : i >= first}
        Before(i) == {j \in rows : j < i}
        NumbersAgain(i) ==
            /\ Before(i) # {}
            /\ i > Max(Before(i)) + 1
            /\ lines[i].num <= lines[Max(Before(i))].num
    IN {i \in rows : \A j \in rows : j <= i => ~NumbersAgain(j)}

\* The first header whose menu, or, waiting for an approval, which itself is
\* near the bottom.
DetectGenericPrompt(screen) ==
    LET lines == TrimMenuFooter(Recent(screen, PromptWindow))
        Rows(i) == CollectOptions(lines, i + 1)
        live == {i \in DOMAIN lines :
                    /\ lines[i].kind \in DOMAIN HeaderTypes
                    /\ \/ Rows(i) # {} /\ IsNear(lines, Max(Rows(i)))
                       \/ Rows(i) = {} /\ lines[i].kind = "waiting" /\ IsNear(lines, i)}
    IN IF live = {} THEN NoPrompt
       ELSE LET i == Min(live)
            IN Prompt(HeaderTypes[lines[i].kind], lines[i].kind, RowsAt(lines, Rows(i)))

\* The last two lines are rows without digits, one of them under the cursor.
CursorMenu(lines, labels) ==
    LET rows == From(lines, Len(lines) - 1)
    IN /\ Len(lines) >= 3
       /\ Cardinality({k \in 1 .. 2 : Chosen(rows[k])}) = 1
       /\ \A k \in 1 .. 2 : rows[k].kind = "row"
       /\ {rows[1].label, rows[2].label} = labels

DetectClaudeWorkspaceTrust(screen) ==
    LET lines == TrimMenuFooter(Recent(screen, PromptWindow))
        heads == Where(lines, "workspace")
    IN IF /\ CursorMenu(lines, {"no exit", "yes trust"})
          /\ heads # {}
          /\ \E i \in Where(lines, "createdortrust") : i >= Max(heads)
       THEN Prompt("trust_folder", "createdortrust", From(lines, Len(lines) - 1))
       ELSE NoPrompt

DetectClaudeDefaultNudge(screen) ==
    LET lines == TrimMenuFooter(Recent(screen, PromptWindow))
    IN IF /\ CursorMenu(lines, {"yes default", "no keep"})
          /\ Where(lines, "default") # {}
       THEN Prompt("choice_prompt", "default", From(lines, Len(lines) - 1))
       ELSE NoPrompt

\* A label goes on over the lines up to the next row.
WithContinuation(lines, i, next) ==
    IF next = i + 1 THEN lines[i]
    ELSE [lines[i] EXCEPT !.label =
            IF @ = "learn more" /\ lines[i + 1].kind = "confirmhint" THEN @ ELSE "longer"]

\* A menu numbered 1 to n at the bottom, one row of it under the cursor.
DetectTrailingChoicePrompt(screen) ==
    LET lines == TrimMenuFooter(Recent(screen, ChoiceWindow))
        found == InOrder(lines, Where(lines, "option"))
        count == lines[Last(found)].num
        menu == From(found, Len(found) - count + 1)
        End(k) == IF k < count THEN menu[k + 1] ELSE Len(lines) + 1
        rows == [k \in 1 .. count |-> WithContinuation(lines, menu[k], End(k))]
        above == menu[1] - 1
        trust == count = 2 /\ rows[1].label = "yes trust" /\ rows[2].label = "no exit"
    IN IF Len(found) < 2 THEN NoPrompt
       ELSE IF /\ count >= 2 /\ Len(found) >= count
               /\ \A k \in 1 .. count : lines[menu[k]].num = k
               /\ \E k \in 1 .. count : Chosen(lines[menu[k]])
               /\ IsNear(lines, Last(found))
            THEN Prompt(IF trust THEN "trust_folder" ELSE "choice_prompt",
                        IF above = 0 THEN ""
                        ELSE IF lines[above].kind = "option" THEN "" ELSE lines[above].kind,
                        rows)
            ELSE NoPrompt

\* The first of these that finds something.
FirstFound(detected) ==
    LET found == SelectSeq(detected, LAMBDA p : p # NoPrompt)
    IN IF found = <<>> THEN NoPrompt ELSE found[1]

\* The detectors in turn.
Detect(screen) ==
    FirstFound(<<DetectDirectoryAccess(screen), DetectGenericPrompt(screen),
                 DetectClaudeWorkspaceTrust(screen), DetectClaudeDefaultNudge(screen),
                 DetectTrailingChoicePrompt(screen)>>)


----------------------------------------------------------------------------
\* The menu of rows with these labels, in this order, the first one chosen.
IsMenuOf(p, labels) ==
    /\ p.type = "choice_prompt"
    /\ Len(p.options) = Len(labels)
    /\ \A k \in DOMAIN labels :
        /\ p.options[k].num = k
        /\ p.options[k].label = labels[k]
        /\ Chosen(p.options[k]) <=> k = 1


\* The one menu of Claude that a workflow answers; its limit is looked for in
\* the whole capture.
IsClaudeSessionLimitWait(screen, p) ==
    /\ IsMenuOf(p, <<"stop and wait", "upgrade">>)
    /\ p.question = "whatnow"
    /\ Where(screen, "limit") # {}

\* When it resets: the first clock there is in the capture.
ClaudeSessionLimitResetAt(screen) == screen[Min(Where(screen, "limit"))].num

\* Where the current limit of Codex is, or 0: the last one, under which there is
\* at most one input and the footer of that.
CurrentCodexUsageLimit(screen) ==
    LET start == Max({0} \cup Where(screen, "codexlimit"))
        inputs == {i \in DOMAIN screen : i > start /\ screen[i].cursor = "codex"}
        AfterFooter(i) ==
            IF i < Len(screen) THEN IF screen[i + 1].kind = "codexfooter" THEN i + 2 ELSE i + 1
            ELSE i + 1
    IN IF start = 0 \/ inputs = {} THEN start
       ELSE IF AfterFooter(Min(inputs)) = Len(screen) + 1 THEN start ELSE 0

\* Exactly the text Codex prints, with a date there is, up to the input.
CodexLimitIsExact(screen) ==
    LET i == CurrentCodexUsageLimit(screen)
    IN /\ screen[i].label = "exact"
       /\ IF i < Len(screen) THEN screen[i + 1].cursor = "codex" ELSE TRUE

\* The provider whose exact limit screen this is.
DetectUsageLimit(screen, p) ==
    IF IsClaudeSessionLimitWait(screen, p)
    THEN IF ClaudeSessionLimitResetAt(screen) > 0 THEN "claude" ELSE "none"
    ELSE IF CurrentCodexUsageLimit(screen) = 0 THEN "none"
    ELSE IF CodexLimitIsExact(screen) THEN "codex" ELSE "none"

\* There is a limit, in whatever words: nobody should type.
HasCurrentUsageLimitMarker(screen, p) ==
    \/ p # NoPrompt /\ Where(screen, "limit") # {}
    \/ CurrentCodexUsageLimit(screen) # 0
=============================================================================
