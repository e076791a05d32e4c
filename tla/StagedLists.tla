---------------------------- MODULE StagedLists ----------------------------
(***************************************************************************)
(* The repeated fields of a configuration section as sequences, and what   *)
(* the loops of the handlers do to them.  An edit is the set of results it *)
(* may have: empty when the handler raises instead.                        *)
(*                                                                         *)
(* The commands on a section all have one shape: an operation on an item   *)
(* of a list, of the section itself or of one of its entries.              *)
(***************************************************************************)
EXTENDS Integers, Sequences, SequencesExt

CONSTANT NoArgument     \* an optional argument that was not given

Server == <<>>                          \* the list is one of the section
Of(list, key) == <<list, key>>          \* ... or of this entry of that list

Command(op, list, of, item) == [op |-> op, list |-> list, of |-> of, item |-> item]

Given(new, old) == IF new = NoArgument THEN old ELSE new

(* The loop looks for a clash before it appends.                           *)
AddUnless(q, x, Clash(_)) == IF \E i \in DOMAIN q : Clash(q[i]) THEN {} ELSE {Append(q, x)}

(* "for item in list: if ...: item.CopyFrom(msg)"                          *)
ReplaceEvery(q, x, Is(_)) == [i \in DOMAIN q |-> IF Is(q[i]) THEN x ELSE q[i]]

(* "for item in list: if ...: ...; break"                                  *)
ChangeFirst(q, Is(_), Change(_)) ==
    [i \in DOMAIN q |-> IF i = SelectInSeq(q, Is) THEN Change(q[i]) ELSE q[i]]

(* "for i, item in enumerate(list): if ...: del list[i]", without a break:  *)
(* the item behind a deleted one moves into its place and is not looked at. *)
DeleteWhileIterating(q, Is(_)) ==
    LET deleted[i \in 0..Len(q)] == i # 0 /\ Is(q[i]) /\ ~deleted[i - 1]
        kept == SetToSortSeq({i \in DOMAIN q : ~deleted[i]}, <)
    IN  [j \in DOMAIN kept |-> q[kept[j]]]

InList(s, list, edited) == {[s EXCEPT ![list] = q] : q \in edited}

(* The first entry a lookup finds, as a set of positions.                   *)
Found(q, Is(_)) == {i \in DOMAIN q : i = SelectInSeq(q, Is)}

(* An edit inside the entry of a list that a lookup finds; without one the  *)
(* handler raises.                                                          *)
InEntry(s, list, Is(_), Edit(_)) ==
    UNION {{[s EXCEPT ![list][i] = x] : x \in Edit(s[list][i])} : i \in Found(s[list], Is)}
=============================================================================
