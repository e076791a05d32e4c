----------------------------- MODULE LineEditor -----------------------------
(***************************************************************************)
(* The line under edit, cli/prompt.py: every key handler as an operator    *)
(* from a prompt to a prompt.  A prompt is the input, the position of the  *)
(* cursor in it (0 is before the first character), the open completion     *)
(* selector (a sequence, empty when there is none), and the row of the     *)
(* terminal, right of the prefix, that the escape codes written so far     *)
(* have left behind.                                                       *)
(*                                                                         *)
(* The row is no longer followed (followed = FALSE) after the three steps  *)
(* that write it wrongly: completing in front of the first word, putting a *)
(* completion over a longer word that it was not offered for, and a        *)
(* completion that clears the rest of the row under an open selector.      *)
(***************************************************************************)
EXTENDS Integers, Sequences, SequencesExt

CONSTANTS
    MaxVisible,     \* completions shown at once
    HistorySize     \* lines kept

ASSUME EditorAssumption == MaxVisible \in Nat \ {0} /\ HistorySize \in Nat \ {0}

Blank == " "
Larger(m, n) == IF m > n THEN m ELSE n

-----------------------------------------------------------------------------
(* The terminal's row: what a write, a move and an erase do to it.  A move  *)
(* by 0 is a move by 1.                                                     *)
Cell(text, i) == IF i \in DOMAIN text THEN text[i] ELSE Blank
Trimmed(text) ==
    LET used == {i \in DOMAIN text : text[i] # Blank} IN
    SubSeq(text, 1, IF used = {} THEN 0 ELSE CHOOSE i \in used : \A j \in used : j <= i)

Put(row, s) ==
    [text |-> [i \in 1..Larger(Len(row.text), row.cursor + Len(s)) |->
                  IF i \in (row.cursor + 1)..(row.cursor + Len(s))
                  THEN s[i - row.cursor] ELSE Cell(row.text, i)],
     cursor |-> row.cursor + Len(s)]
Back(row, n) == [row EXCEPT !.cursor = Larger(@ - Larger(n, 1), 0)]
Fwd(row, n) == [row EXCEPT !.cursor = @ + Larger(n, 1)]
EraseRight(row) ==
    [row EXCEPT !.text = SubSeq(@, 1, IF row.cursor < Len(@) THEN row.cursor ELSE Len(@))]
(* Between save_cursor and restore_cursor. *)
PutAside(row, s) == [Put(row, s) EXCEPT !.cursor = row.cursor]
EraseAside(row, n) == [EraseRight(Fwd(row, n)) EXCEPT !.cursor = row.cursor]

(* A row that is not followed any more is kept empty. *)
Unknown == [text |-> <<>>, cursor |-> 0]
Show(p, row) == [p EXCEPT !.row = IF p.followed THEN row ELSE Unknown]
Lost(p) == [p EXCEPT !.followed = FALSE, !.row = Unknown]

-----------------------------------------------------------------------------
Left(p) == SubSeq(p.input, 1, p.position)
Right(p) == SubSeq(p.input, p.position + 1, Len(p.input))
AtEnd(p) == p.position = Len(p.input)

(* str.find and str.rfind for a blank, counted from 0, or -1. *)
Find(s) ==
    LET at == {i \in DOMAIN s : s[i] = Blank} IN
    IF at = {} THEN -1 ELSE (CHOOSE i \in at : \A j \in at : i <= j) - 1
RFind(s) ==
    LET at == {i \in DOMAIN s : s[i] = Blank} IN
    IF at = {} THEN -1 ELSE (CHOOSE i \in at : \A j \in at : j <= i) - 1

(* input[position - 1], which is the last character at position 0, and       *)
(* input[position - 1:], which is that character alone.                     *)
Behind(p) == IF p.position = 0 THEN Last(p.input) ELSE p.input[p.position]
FromBehind(p) ==
    IF p.position = 0 THEN <<Last(p.input)>>
    ELSE SubSeq(p.input, p.position, Len(p.input))
BeforeBehind(p) ==
    SubSeq(p.input, 1, (IF p.position = 0 THEN Len(p.input) ELSE p.position) - 1)

OnNothing(p) ==
    \/ p.input = <<>>
    \/ /\ p.position = 0 \/ Behind(p) = Blank
       /\ AtEnd(p) \/ p.input[p.position + 1] = Blank

FragmentAt(p, start, end) ==
    [value |-> SubSeq(p.input, start + 1, end), start |-> start, end |-> end]

(* The fragment under or behind the cursor.  The end of one that begins at   *)
(* the cursor is one short; at position 0 "behind" is the end of the line.  *)
CurrentFragment(p) ==
    LET start == IF Behind(p) = Blank THEN p.position ELSE RFind(BeforeBehind(p)) + 1
        found == Find(IF Behind(p) = Blank THEN Right(p) ELSE FromBehind(p))
        end == IF found = -1 THEN Len(p.input) ELSE found + p.position - 1
    IN  IF OnNothing(p) THEN FragmentAt(p, p.position, p.position)
        ELSE FragmentAt(p, start, end)

(* str.split. *)
Words(line) ==
    LET split == FoldLeft(LAMBDA words, ch :
                     IF ch = Blank THEN Append(words, <<>>)
                     ELSE [words EXCEPT ![Len(words)] = Append(@, ch)], <<<<>>>>, line)
    IN  SelectSeq(split, LAMBDA word : word # <<>>)

FragmentsBeforeCursor(p) == Words(SubSeq(p.input, 1, CurrentFragment(p).start))

-----------------------------------------------------------------------------
(* The selector: the completions offered, the fragment they must begin with, *)
(* the one selected (0 for none) and the first one shown.                   *)
Selector(completions, f) ==
    [completions |-> completions, fragment |-> f.value, start |-> f.start, end |-> f.end,
     selected |-> 0, visible |-> 0]
Matching(sel) == SelectSeq(sel.completions, LAMBDA c : IsPrefix(sel.fragment, c))
Selection(sel) == Matching(sel)[sel.selected]

SelectNext(sel) ==
    LET n == Len(Matching(sel)) IN
    CASE n = 0 -> sel
      [] n > 0 /\ sel.selected = n -> [sel EXCEPT !.selected = 1, !.visible = 0]
      [] OTHER -> [sel EXCEPT !.selected = @ + 1,
                              !.visible = IF sel.selected # 0 /\ sel.selected >= @ + MaxVisible
                                          THEN @ + 1 ELSE @]

(* Mutant: stepping back does not scroll. *)
SelectPreviousStill(sel) ==
    LET n == Len(Matching(sel)) IN
    CASE n = 0 -> sel
      [] n > 0 /\ sel.selected \in {0, 1} ->
            [sel EXCEPT !.selected = n, !.visible = Larger(n - MaxVisible, 0)]
      [] OTHER -> [sel EXCEPT !.selected = @ - 1]

SelectPrevious(sel) ==
    LET n == Len(Matching(sel)) IN
    CASE n = 0 -> sel
      [] n > 0 /\ sel.selected \in {0, 1} ->
            [sel EXCEPT !.selected = n, !.visible = Larger(n - MaxVisible, 0)]
      [] OTHER -> [sel EXCEPT !.selected = @ - 1,
                              !.visible = IF sel.selected - 1 <= @ THEN @ - 1 ELSE @]

Open(p) == p.selector # <<>>
Sel(p) == p.selector[1]
(* A completion is selected: it is what the line is about to get. *)
Selected(p) == Open(p) /\ Sel(p).selected # 0

Close(p) == IF Open(p)
            THEN Show([p EXCEPT !.selector = <<>>], EraseAside(p.row, Len(Right(p))))
            ELSE p

(* update_selector_fragment, after every change of the input. *)
Refresh(p) ==
    IF Open(p)
    THEN Show([p EXCEPT !.selector = <<Selector(Sel(p).completions, CurrentFragment(p))>>],
              EraseAside(p.row, Len(Right(p))))
    ELSE p

-----------------------------------------------------------------------------
(* Mutant: the completion goes behind what was typed of it. *)
ReplaceNothing(p, value) ==
    [p EXCEPT !.input = Left(p) \o value \o Right(p), !.position = @ + Len(value),
              !.row = Unknown, !.followed = FALSE]

(* Prompt.update_fragment: a completion takes the place of the fragment. *)
Replace(p, value) ==
    LET f == CurrentFragment(p)
        rest == SubSeq(p.input, f.end + 1, Len(p.input))
        q == [p EXCEPT !.input = SubSeq(p.input, 1, f.start) \o value \o rest,
                       !.position = f.start + Len(value)]
        moved == IF f.start < p.position THEN Back(p.row, p.position - f.start) ELSE p.row
        put == Put(moved, value)
    IN  IF f.start > p.position \/ Len(f.value) > Len(value) THEN Lost(q)
        ELSE Show(q, IF rest = <<>> THEN put ELSE Back(Put(put, rest), Len(rest)))

Accept(p) == IF Open(p) THEN Close(Replace(p, Selection(Sel(p)))) ELSE p

Type(p, key) ==
    Refresh(Show([p EXCEPT !.input = Left(p) \o <<key>> \o Right(p), !.position = @ + 1],
                 PutAside(Put(p.row, <<key>>), Right(p))))

Insert(p, key) ==
    Type(IF key # Blank THEN p ELSE IF Selected(p) THEN Accept(p) ELSE Close(p), key)

(* The rest of the row after a character is gone. *)
Rewrite(row, rest) ==
    IF rest = <<>> THEN EraseRight(row) ELSE Back(Put(EraseRight(row), rest), Len(rest))

DeleteLeft(p) ==
    LET q == Show([p EXCEPT !.input = SubSeq(p.input, 1, p.position - 1) \o Right(p),
                            !.position = @ - 1],
                  Rewrite(Back(p.row, 1), Right(p)))
    IN  CASE p.position = 0 -> p
          [] p.position > 0 /\ q.position >= CurrentFragment(p).start -> Refresh(q)
          [] OTHER -> Close(q)

(* Mutant: the cursor is not brought back over what was rewritten. *)
DeleteRightAhead(p) ==
    LET rest == Tail(Right(p)) IN
    IF AtEnd(p) THEN p
    ELSE Refresh(Show([p EXCEPT !.input = Left(p) \o rest],
                      Put(EraseRight(p.row), rest)))

DeleteRight(p) ==
    LET rest == Tail(Right(p)) IN
    IF AtEnd(p) THEN p
    ELSE Refresh(Show([p EXCEPT !.input = Left(p) \o rest], Rewrite(p.row, rest)))

CursorLeft(p) ==
    LET q == IF Open(p) /\ Sel(p).start = p.position THEN Close(p) ELSE p IN
    IF p.position = 0 THEN p
    ELSE Show([q EXCEPT !.position = @ - 1], Back(q.row, 1))

CursorRight(p) ==
    LET q == IF Open(p) /\ Sel(p).end = p.position THEN Close(p) ELSE p IN
    IF AtEnd(p) THEN p
    ELSE Show([q EXCEPT !.position = @ + 1], Fwd(q.row, 1))

CursorHome(p) ==
    IF p.position = 0 THEN p
    ELSE Show([p EXCEPT !.position = 0], Back(p.row, p.position))

CursorEnd(p) ==
    IF AtEnd(p) THEN p
    ELSE Show([p EXCEPT !.position = Len(p.input)], Fwd(p.row, Len(Right(p))))

ReplaceInput(p, line) ==
    LET moved == IF p.position = 0 THEN p.row ELSE Back(p.row, p.position)
        over == [i \in 1..Larger(Len(p.input) - Len(line), 0) |-> Blank]
    IN  Show([p EXCEPT !.input = line, !.position = Len(line)],
             PutAside(Put(moved, line), over))

(* complete(): what the completions do once they are there.  A selector that *)
(* opens makes room below and writes the prompt again.                      *)
Complete(p, completions) ==
    LET new == Selector(completions, CurrentFragment(p))
        again == Put([p.row EXCEPT !.cursor = 0], p.input)
        redisplayed == IF AtEnd(p) THEN again ELSE Back(again, Len(Right(p)))
    IN  CASE Matching(new) = <<>> -> p
          [] Len(Matching(new)) = 1 -> Replace(p, Matching(new)[1])
          [] OTHER -> Show([p EXCEPT !.selector = <<new>>], redisplayed)

(* complete() while the selector is open: no completer is asked. *)
Cleared(p) == IF AtEnd(p) THEN Show(p, EraseRight(p.row)) ELSE Lost(p)

CompleteNext(p) ==
    IF Len(Matching(Sel(p))) = 1
    THEN Cleared([Replace(p, Matching(Sel(p))[1]) EXCEPT !.selector = <<>>])
    ELSE [p EXCEPT !.selector = <<SelectNext(Sel(p))>>]

NewPrompt ==
    [input |-> <<>>, position |-> 0, selector |-> <<>>, followed |-> TRUE, row |-> Unknown]

-----------------------------------------------------------------------------
(* The history: its lines, the cursor a prompt moves in it.  A cursor in an  *)
(* empty history has no position (-1) and yields the empty line.            *)
HistoryAdd(items, line) ==
    LET command == Trimmed(Reverse(Trimmed(Reverse(line))))
        added == Append(items, command)
    IN  IF command = <<>> \/ (items # <<>> /\ Last(items) = command) THEN items
        ELSE SubSeq(added, Larger(Len(added) - HistorySize, 0) + 1, Len(added))

HistoryCursor(items) == IF items = <<>> THEN -1 ELSE Len(items)

HistoryPrevious(cursor) == IF cursor > 0 THEN cursor - 1 ELSE cursor
HistoryNext(items, cursor) ==
    IF cursor # -1 /\ cursor < Len(items) THEN cursor + 1 ELSE cursor
HistoryLine(items, cursor) ==
    IF cursor = -1 \/ cursor = Len(items) THEN <<>> ELSE items[cursor + 1]

(* The file read back: a file written from no lines holds one, the empty one. *)
HistoryLoad(file) == IF file = <<>> THEN <<<<>>>> ELSE file
=============================================================================
