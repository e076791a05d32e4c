---------------------------- MODULE CommandTree ----------------------------
(***************************************************************************)
(* The router of the command line: the tree of the registered commands,    *)
(* what a line of words runs, and what may follow it.  A word is a         *)
(* sequence of characters.  A node of the tree is the sequence of the      *)
(* names on the way to it.                                                 *)
(*                                                                         *)
(* A completer is what it offers; the offers of the agent change, but no   *)
(* part of the router depends on that.                                     *)
(***************************************************************************)
EXTENDS Integers, Sequences, FiniteSets, SequencesExt

CONSTANTS
    Commands,       \* the registered commands, in order
    Offers          \* completer -> the words it offers

(* A fragment of a pattern: a word, or an argument with its completer (in a  *)
(* sequence, which is empty when there is none).  A command is the path in  *)
(* the tree and the keyword arguments, "@name" or, repeated, "*name".       *)
Fragment(name, argument, completer) ==
    [name |-> name, argument |-> argument, completer |-> completer]
Keyword(name, repeated, completer) ==
    [name |-> name, repeated |-> repeated, completer |-> completer]

ASSUME CommandsAssumption ==
    \A i \in DOMAIN Commands : DOMAIN Commands[i] = {"path", "keywords", "handler"}

PathNames(c) == [i \in DOMAIN c.path |-> c.path[i].name]

Below(node) == SelectSeq(Commands, LAMBDA c : IsStrictPrefix(node, PathNames(c)))
At(node) == SelectSeq(Commands, LAMBDA c : PathNames(c) = node)

(* The children, in the order in which they came.  A child belongs to the   *)
(* first command that names it, words and arguments alike.                  *)
Children(node) ==
    FoldLeft(LAMBDA q, c : LET f == c.path[Len(node) + 1] IN
                 IF \E i \in DOMAIN q : q[i].name = f.name THEN q ELSE Append(q, f),
             <<>>, Below(node))

HasHandler(node) == At(node) # <<>>
Handler(node) == Last(At(node)).handler
Keywords(node) == FlattenSeq([i \in DOMAIN At(node) |-> At(node)[i].keywords])

-----------------------------------------------------------------------------
Argument(name, value) == [name |-> name, value |-> value]

(* Mutant: an argument takes a word that names another child.              *)
StepArgumentFirst(d, word) ==
    LET children == Children(d.node)
        arguments == SelectSeq(children, LAMBDA f : f.argument)
    IN  CASE d.rest # <<>> -> [d EXCEPT !.rest = Append(@, word)]
          [] d.rest = <<>> /\ arguments # <<>> ->
                [d EXCEPT !.node = Append(@, Head(arguments).name),
                          !.args = Append(@, Argument(Head(arguments).name, <<word>>))]
          [] OTHER -> IF \E f \in ToSet(children) : d.rest = <<>> /\ f.name = word
                      THEN [d EXCEPT !.node = Append(@, word)]
                      ELSE [d EXCEPT !.rest = <<word>>]

(* One word further down.  A child is looked up by name first, even if it   *)
(* is an argument; else the word is the value of the first argument.  There *)
(* is no way back from a child that turns out to be wrong.                  *)
Step(d, word) ==
    LET children == Children(d.node)
        named == {i \in DOMAIN children : children[i].name = word}
        arguments == SelectSeq(children, LAMBDA f : f.argument)
    IN  CASE d.rest # <<>> -> [d EXCEPT !.rest = Append(@, word)]
          [] d.rest = <<>> /\ named # {} -> [d EXCEPT !.node = Append(@, word)]
          [] d.rest = <<>> /\ named = {} /\ arguments # <<>> ->
                [d EXCEPT !.node = Append(@, Head(arguments).name),
                          !.args = Append(@, Argument(Head(arguments).name, <<word>>))]
          [] OTHER -> [d EXCEPT !.rest = <<word>>]

(* How far the words lead: what they do not name is left for keywords.      *)
Descend(words) == FoldLeft(Step, [node |-> <<>>, args |-> <<>>, rest |-> <<>>], words)

Indices(args, name) == {i \in DOMAIN args : args[i].name = name}

(* One keyword and its value. *)
AddPair(keywords, k, name, value) ==
    LET known == SelectSeq(keywords, LAMBDA f : f.name = name)
        given == Indices(k.args, name)
    IN  CASE k.error # "none" -> k
          [] k.error = "none" /\ known = <<>> -> [k EXCEPT !.error = "invalid"]
          [] k.error = "none" /\ known # <<>> /\ given = {} ->
                [k EXCEPT !.args = Append(@, Argument(name, <<value>>))]
          [] OTHER -> IF Last(known).repeated
                      THEN [k EXCEPT !.args =
                               [i \in DOMAIN @ |-> IF i \in given
                                    THEN [@[i] EXCEPT !.value = Append(@, value)] ELSE @[i]]]
                      ELSE [k EXCEPT !.error = "duplicate"]

(* A keyword without a value; one that was given before keeps its place.    *)
Unvalued(args, name) ==
    IF Indices(args, name) = {} THEN Append(args, Argument(name, <<>>))
    ELSE [i \in DOMAIN args |->
             IF args[i].name = name THEN Argument(name, <<>>) ELSE args[i]]

(* What is left over, in pairs.  The last word may be without a value only   *)
(* while completing.                                                        *)
KeywordArguments(node, rest, completion) ==
    LET pairs == FoldLeft(LAMBDA k, i : AddPair(Keywords(node), k, rest[2*i - 1], rest[2*i]),
                          [error |-> "none", args |-> <<>>],
                          [i \in 1..(Len(rest) \div 2) |-> i])
    IN  IF pairs.error # "none" \/ Len(rest) % 2 = 0 THEN pairs
        ELSE IF ~completion THEN [pairs EXCEPT !.error = "invalid"]
        ELSE [pairs EXCEPT !.args = Unvalued(@, Last(rest))]

Matched(d, completion) ==
    LET keywords == KeywordArguments(d.node, d.rest, completion) IN
        CASE d.rest = <<>> -> [error |-> "none", node |-> d.node, args |-> d.args]
          [] d.rest # <<>> /\ ~HasHandler(d.node) ->
                [error |-> "not found", node |-> d.node, args |-> <<>>]
          [] OTHER -> [error |-> keywords.error, node |-> d.node,
                       args |-> d.args \o keywords.args]

Match(words, completion) == Matched(Descend(words), completion)

(* A word of the path that was taken for an argument by its name gives that  *)
(* argument no value; its handler requires one.                             *)
Required(node) ==
    LET path == Last(At(node)).path IN
    {path[i].name : i \in {j \in DOMAIN path : path[j].argument}}

(* handle_command: what runs, or why nothing does.                          *)
Run(m) ==
    LET given == {m.args[i].name : i \in DOMAIN m.args} IN
        CASE m.error # "none" -> [error |-> m.error]
          [] m.error = "none" /\ ~HasHandler(m.node) -> [error |-> "not found"]
          [] OTHER -> IF Required(m.node) \subseteq given
                      THEN [error |-> "none", handler |-> Handler(m.node),
                            args |-> ToSet(m.args)]
                      ELSE [error |-> "invalid"]

Command(words) == Run(Match(words, FALSE))

-----------------------------------------------------------------------------
OffersOf(f) == FlattenSeq([i \in DOMAIN f.completer |-> Offers[f.completer[i]]])

(* The last argument is a keyword that waits for its value.                 *)
Waiting(m) ==
    IF m.args = <<>> \/ Last(m.args).value # <<>> THEN <<>>
    ELSE SelectSeq(Keywords(m.node), LAMBDA f : f.name = Last(m.args).name)

(* The keywords not given yet, unless one waits for its value.              *)
NextKeywords(m) ==
    IF Waiting(m) # <<>> THEN <<>>
    ELSE SelectSeq(Keywords(m.node), LAMBDA f : Indices(m.args, f.name) = {})

(* get_command_completions: what may follow, and whether a completer had to  *)
(* be asked for it.  A wrong keyword raises.                                *)
Following(m) ==
    LET children == Children(m.node)
        waiting == Waiting(m)
        keywords == NextKeywords(m)
    IN  CASE m.error = "not found" -> [raises |-> FALSE, asks |-> FALSE, words |-> <<>>]
          [] m.error \in {"invalid", "duplicate"} ->
                [raises |-> TRUE, asks |-> FALSE, words |-> <<>>]
          [] m.error = "none" ->
                [raises |-> FALSE,
                 asks |-> \E f \in ToSet(children) \cup ToSet(waiting) : f.completer # <<>>,
                 words |-> FlattenSeq([i \in DOMAIN children |->
                               IF children[i].argument THEN OffersOf(children[i])
                               ELSE <<children[i].name>>])
                           \o FlattenSeq([i \in DOMAIN waiting |-> OffersOf(waiting[i])])
                           \o [i \in DOMAIN keywords |-> keywords[i].name]]

Completions(words) == Following(Match(words, TRUE))
=============================================================================
