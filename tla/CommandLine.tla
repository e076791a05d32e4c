----------------------------- MODULE CommandLine -----------------------------
(***************************************************************************)
(* The read-eval loop of the command line client: characters from the      *)
(* terminal become keys, keys edit the prompt, Tab completes from the tree  *)
(* of commands, Enter runs a command, and the history outlives the session. *)
(*                                                                         *)
(* A read takes what the terminal has, and the keys are handled one by one. *)
(* A read while keys are still queued appends to them, which is the same as *)
(* one longer read.  Each prompt has a key reader of its own: keys behind   *)
(* an Enter go with it, and what is typed while a command runs is flushed.  *)
(***************************************************************************)
EXTENDS LineEditor, CommandTree

CONSTANTS
    Chunks,         \* what one read may return: sequences of characters
    Beginnings      \* the history file (<<>> for none, or <<its lines>>), and the
                    \* bound: how many keys insert, delete or enter, in all

VARIABLES
    phase,      \* "ended", "prompting", "handling"
    escape,     \* KeyReader.escape_sequence
    keys,       \* KeyReader.key_queue
    prompt,     \* Prompt
    cursor,     \* HistoryCursor.position
    items,      \* History.items
    file,       \* the history file, between sessions: none reads it in one
    ran,        \* what handle_command ran, a sequence of at most one
    strayed,    \* the cursor has been outside the selector's fragment
    budget      \* keys that may still insert, delete or enter

session == <<escape, keys, prompt, cursor, items, ran, strayed>>
vars == <<session, phase, file, budget>>

-----------------------------------------------------------------------------
(* KeyReader: characters to keys.  The comparison that should recognise      *)
(* Ctrl-V never holds, so it quotes nothing.                                *)
ControlKey ==
    "^A" :> "HOME" @@ "^B" :> "LEFT" @@ "^C" :> "INTERRUPT" @@ "^D" :> "EOF" @@
    "^E" :> "END" @@ "^F" :> "RIGHT" @@ "^H" :> "DELETE_LEFT" @@ "^I" :> "TAB" @@
    "^K" :> "CUT_ALL_RIGHT" @@ "^M" :> "ENTER" @@ "^N" :> "DOWN" @@ "^P" :> "UP" @@
    "^V" :> "UNESCAPE" @@ "^[" :> "ESCAPE" @@ "^?" :> "DELETE_LEFT"

EscapeKey ==
    <<"^[", "[", "1", "~">> :> "HOME" @@ <<"^[", "[", "4", "~">> :> "END" @@
    <<"^[", "[", "3", "~">> :> "DELETE_RIGHT" @@ <<"^[", "[", "A">> :> "UP" @@
    <<"^[", "[", "B">> :> "DOWN" @@ <<"^[", "[", "C">> :> "RIGHT" @@
    <<"^[", "[", "D">> :> "LEFT" @@ <<"^[", "[", "Z">> :> "SHIFT_TAB" @@
    <<"^[", "b">> :> "WORD_LEFT" @@ <<"^[", "B">> :> "WORD_LEFT" @@
    <<"^[", "f">> :> "WORD_RIGHT" @@ <<"^[", "F">> :> "WORD_RIGHT"

KeyOf(ch) == IF ch \in DOMAIN ControlKey THEN ControlKey[ch] ELSE ch

(* One character.  What turns out not to be an escape sequence is released   *)
(* as single keys.                                                          *)
ReadChar(r, ch) ==
    LET tried == Append(r.escape, ch) IN
    CASE r.escape = <<>> /\ ch = "^[" -> [r EXCEPT !.escape = tried]
      [] r.escape = <<>> /\ ch # "^[" -> [r EXCEPT !.keys = Append(@, KeyOf(ch))]
      [] r.escape # <<>> /\ tried \in DOMAIN EscapeKey ->
            [escape |-> <<>>, keys |-> Append(r.keys, EscapeKey[tried])]
      [] r.escape # <<>> /\ \E s \in DOMAIN EscapeKey : IsStrictPrefix(tried, s) ->
            [r EXCEPT !.escape = tried]
      [] OTHER -> [escape |-> <<>>,
                   keys |-> r.keys \o <<"ESCAPE">>
                                \o [i \in DOMAIN Tail(tried) |-> KeyOf(Tail(tried)[i])]]

HandleRead(chunk) == FoldLeft(ReadChar, [escape |-> escape, keys |-> keys], chunk)

Special == {ControlKey[ch] : ch \in DOMAIN ControlKey}
               \cup {EscapeKey[s] : s \in DOMAIN EscapeKey}
(* The bound: keys that insert, delete or enter. *)
Counted(pressed) ==
    SelectSeq(pressed, LAMBDA key : \/ key \notin Special
                                    \/ key \in {"DELETE_LEFT", "DELETE_RIGHT", "ENTER"})

Read(chunk) ==
    /\ phase = "prompting" /\ keys = <<>>
    /\ escape' = HandleRead(chunk).escape
    /\ keys' = HandleRead(chunk).keys
    /\ Len(Counted(keys')) <= budget
    /\ budget' = budget - Len(Counted(keys'))
    /\ UNCHANGED <<phase, prompt, cursor, items, file, ran, strayed>>

-----------------------------------------------------------------------------
NewSession(lines) ==
    /\ escape' = <<>> /\ keys' = <<>>
    /\ prompt' = NewPrompt
    /\ cursor' = HistoryCursor(lines)
    /\ items' = lines
    /\ ran' = <<>>
    /\ strayed' = FALSE

(* The next prompt, with a key reader of its own. *)
Prompting(lines) ==
    /\ phase' = "prompting"
    /\ NewSession(lines)
    /\ file' = <<>>
    /\ UNCHANGED budget

(* run_repl ends: whatever the reason, the history is saved. *)
Ending(lines) ==
    /\ phase' = "ended"
    /\ NewSession(<<>>)
    /\ file' = <<lines>>
    /\ UNCHANGED budget

(* The client is started and reads the history. *)
Start ==
    /\ phase = "ended"
    /\ Prompting(IF file = <<>> THEN <<>> ELSE HistoryLoad(file[1]))

Pressed(key) == phase = "prompting" /\ keys # <<>> /\ Head(keys) = key

(* The key is done and the prompt is p. *)
Edited(p) ==
    /\ prompt' = p
    /\ keys' = Tail(keys)
    /\ UNCHANGED <<phase, escape, items, file, ran, budget>>

(* The cursor is in the fragment that the selector is open for, or there is  *)
(* none.  Home and End leave it without closing the selector, and at the    *)
(* start of the line the selector opens for another fragment.               *)
Within(p) == Open(p) => p.position \in Sel(p).start..Sel(p).end

Press(key, p) ==
    /\ Pressed(key)
    /\ Edited(p)
    /\ strayed' = (Open(p) /\ (strayed \/ ~Within(p)))
    /\ UNCHANGED cursor

Char ==
    \E key \in ToSet(keys) \ Special : Press(key, Insert(prompt, key))

Erase == Press("DELETE_LEFT", DeleteLeft(prompt)) \/ Press("DELETE_RIGHT", DeleteRight(prompt))
Move == Press("LEFT", CursorLeft(prompt)) \/ Press("RIGHT", CursorRight(prompt))
HomeEnd == Press("HOME", CursorHome(prompt)) \/ Press("END", CursorEnd(prompt))

(* In the selector, or else in the history. *)
Selecting(key, sel) == Open(prompt) /\ Press(key, [prompt EXCEPT !.selector = <<sel>>])
Recall(key, to) ==
    /\ Pressed(key) /\ ~Open(prompt)
    /\ Edited(ReplaceInput(prompt, HistoryLine(items, to)))
    /\ cursor' = to
    /\ UNCHANGED strayed

Up == \/ Selecting("UP", SelectPrevious(Sel(prompt)))
      \/ Recall("UP", HistoryPrevious(cursor))
Down == \/ Selecting("DOWN", SelectNext(Sel(prompt)))
        \/ Recall("DOWN", HistoryNext(items, cursor))
ShiftTab == \/ Selecting("SHIFT_TAB", SelectPrevious(Sel(prompt)))
            \/ ~Open(prompt) /\ Press("SHIFT_TAB", prompt)

Unhandled == \E key \in {"ESCAPE", "UNESCAPE", "CUT_ALL_RIGHT", "WORD_LEFT", "WORD_RIGHT"} :
                 Press(key, prompt)

Leave == (\E key \in {"EOF", "INTERRUPT"} : Pressed(key)) /\ Ending(items)

-----------------------------------------------------------------------------
Offered == Completions(FragmentsBeforeCursor(prompt))

TabNext == Open(prompt) /\ Press("TAB", CompleteNext(prompt))

TabCompletes ==
    /\ ~Open(prompt) /\ ~Offered.raises
    /\ Press("TAB", Complete(prompt, Offered.words))

(* The completer does not answer in time: the line is given up. *)
TabTimesOut ==
    /\ Pressed("TAB") /\ ~Open(prompt) /\ Offered.asks
    /\ Prompting(items)

(* An error while completing ends the session: a wrong keyword before the    *)
(* cursor, or whatever else the completer's requests raise.                 *)
TabFails ==
    /\ Pressed("TAB") /\ ~Open(prompt) /\ (Offered.raises \/ Offered.asks)
    /\ Ending(items)

EnterAccepts == Selected(prompt) /\ Press("ENTER", Accept(prompt))

EnterEmpty == Pressed("ENTER") /\ ~Selected(prompt) /\ prompt.input = <<>> /\ Prompting(items)

EnterRuns ==
    /\ Pressed("ENTER") /\ ~Selected(prompt) /\ prompt.input # <<>>
    /\ phase' = "handling"
    /\ prompt' = Close(prompt)
    /\ items' = HistoryAdd(items, prompt.input)
    /\ ran' = <<Command(Words(prompt.input))>>
    /\ keys' = <<>> /\ escape' = <<>>
    /\ strayed' = FALSE
    /\ UNCHANGED <<cursor, file, budget>>

(* The command answered, was refused, was not found or timed out. *)
Handled ==
    /\ phase = "handling"
    /\ ran[1].error # "duplicate"
    /\ Prompting(items)

(* A keyword given twice, and an error of the command that is none of those  *)
(* prompt() catches, end the session.                                       *)
HandlingFails ==
    /\ phase = "handling"
    /\ ran[1].error \in {"none", "duplicate"}
    /\ Ending(items)

-----------------------------------------------------------------------------
Init ==
    /\ phase = "ended"
    /\ escape = <<>> /\ keys = <<>>
    /\ prompt = NewPrompt
    /\ cursor = -1
    /\ items = <<>>
    /\ ran = <<>>
    /\ strayed = FALSE
    /\ \E b \in Beginnings : file = b.file /\ budget = b.budget

Tab == TabNext \/ TabCompletes \/ TabTimesOut \/ TabFails
Enter == EnterAccepts \/ EnterEmpty \/ EnterRuns \/ Handled \/ HandlingFails

Next ==
    \/ Start
    \/ \E chunk \in Chunks : Read(chunk)
    \/ Char \/ Erase \/ Move \/ HomeEnd
    \/ Up \/ Down \/ ShiftTab \/ Unhandled \/ Leave
    \/ Tab \/ Enter

Spec == Init /\ [][Next]_vars

-----------------------------------------------------------------------------
(* The grammar of add_command's documentation, without the tree: the names   *)
(* and positional arguments in order, then keywords with their values in    *)
(* any order, only a repeated one more than once.                           *)
Extra(c, words) == SubSeq(words, Len(c.path) + 1, Len(words))
Given(rest) == {i \in DOMAIN rest : i % 2 = 1}

Leads(c, words) ==
    LET rest == Extra(c, words) IN
    /\ \A i \in DOMAIN words \cap DOMAIN c.path :
           c.path[i].argument \/ words[i] = c.path[i].name
    /\ \A i \in Given(rest) : \E k \in ToSet(c.keywords) :
           /\ k.name = rest[i]
           /\ k.repeated \/ \A j \in Given(rest) : rest[j] = rest[i] => j = i

Fits(c, words) ==
    /\ Leads(c, words)
    /\ Len(words) >= Len(c.path)
    /\ Len(Extra(c, words)) % 2 = 0

ValuesOf(rest, name) ==
    LET pairs == [n \in 1..(Len(rest) \div 2) |-> Argument(rest[2*n - 1], rest[2*n])]
        named == SelectSeq(pairs, LAMBDA p : p.name = name)
    IN  [n \in DOMAIN named |-> named[n].value]

Meant(c, words) ==
    LET rest == Extra(c, words) IN
    [error |-> "none", handler |-> c.handler,
     args |-> {Argument(c.path[i].name, <<words[i]>>) :
                   i \in {j \in DOMAIN c.path : c.path[j].argument}}
              \cup {Argument(rest[i], ValuesOf(rest, rest[i])) : i \in Given(rest)}]

(* A value that is spelt like its argument's name is taken for a name.       *)
ValueIsName(c, words) ==
    \E i \in DOMAIN c.path : c.path[i].argument /\ words[i] = c.path[i].name

(* c and d begin with the same n names. *)
Alike(c, d, n) ==
    n <= Len(c.path) /\ \A i \in 1..n : i \in DOMAIN d.path /\ c.path[i].name = d.path[i].name

(* Which of two commands that a line fits runs is not for the grammar to     *)
(* say.  Another command that begins alike draws the line away from number  *)
(* k where the two part: when its word there is the one that was typed, or  *)
(* when it has an argument there and came before all that c has in place of *)
(* it.  And a later command of the same path replaces c.                    *)
DrawnAway(k, words) ==
    LET c == Commands[k] IN
    \E l \in DOMAIN Commands \ {k} : LET d == Commands[l] IN
        \/ l > k /\ PathNames(d) = PathNames(c)
        \/ \E i \in DOMAIN d.path \cap DOMAIN words :
              /\ Alike(c, d, i - 1) /\ ~Alike(c, d, i)
              /\ \/ words[i] = d.path[i].name
                 \/ /\ d.path[i].argument
                    /\ i \in DOMAIN c.path => c.path[i].argument
                    /\ \A e \in DOMAIN Commands : Alike(c, Commands[e], i) => l < e

(* Whatever was typed, completed, recalled or erased to get the line: what   *)
(* runs is a command of the documented form that the line fits, with each   *)
(* value under the argument it was given for; and a line that fits one does *)
(* run it, even where words and arguments stand side by side in the tree,   *)
(* unless another command draws the line away or a value is spelt like the  *)
(* name of its argument.                                                    *)
RunsWhatWasTyped ==
    phase = "handling" =>
        LET words == Words(prompt.input)
            fits == {i \in DOMAIN Commands : Fits(Commands[i], words)}
        IN  /\ ran[1].error = "none" => \E i \in fits : ran[1] = Meant(Commands[i], words)
            /\ \A i \in fits :
                   \/ ran[1] = Meant(Commands[i], words)
                   \/ DrawnAway(i, words)
                   \/ ValueIsName(Commands[i], words)

(* What the row of the terminal shows is the line that Enter will run, and   *)
(* the terminal's cursor is where the next key takes effect, through every  *)
(* edit, recall and completion that the row is followed through.            *)
LineShown ==
    phase = "prompting" /\ prompt.followed =>
        /\ Trimmed(prompt.row.text) = Trimmed(prompt.input)
        /\ prompt.row.cursor = prompt.position

(* The completion that Space or Enter would insert is one of those shown,    *)
(* and the window of those shown is as full as the matches allow.           *)
SelectedIsVisible ==
    Open(prompt) =>
        LET sel == Sel(prompt)
            matches == Len(Matching(sel))
        IN  /\ sel.selected # 0 =>
                   sel.selected \in (sel.visible + 1)..(sel.visible + MaxVisible)
            /\ sel.selected \in 0..matches
            /\ sel.visible \in 0..Larger(matches - MaxVisible, 0)

(* Completing at the end of the line replaces the last word only, and if the *)
(* words before it can become a command, so can they with the completion.   *)
CompletionChangesLine ==
    /\ \E key \in {"TAB", " ", "ENTER"} : Pressed(key)
    /\ AtEnd(prompt) /\ ~strayed /\ (Head(keys) = "TAB" \/ Selected(prompt))
    /\ prompt'.input \notin {prompt.input, <<>>}

CompletionLeads ==
    [][CompletionChangesLine =>
           LET before == FragmentsBeforeCursor(prompt)
               after == Words(prompt'.input)
           IN  /\ Len(after) = Len(before) + 1 /\ IsPrefix(before, after)
               /\ (\E i \in DOMAIN Commands : Leads(Commands[i], before))
                      => (\E i \in DOMAIN Commands : Leads(Commands[i], after))]_vars
=============================================================================
