---------------------------- MODULE MCNetfilter ----------------------------
(***************************************************************************)
(* Netfilter with two clients, starting from the section of a new          *)
(* installation or from one whose chains hold a rule with a match.         *)
(***************************************************************************)
EXTENDS Netfilter

CONSTANTS lan, eth, host, plain, quoted, value

MCInterfaces == {eth}
MCDescriptions == {plain, quoted}
MCIndexes == {-1, 0}

NoRules == [policy |-> "ACCEPT", rule |-> <<>>]

Empty == [enabled |-> FALSE, zone |-> <<>>, masquerade |-> <<>>,
          input |-> NoRules, forward |-> NoRules]

Listing == [negate |-> FALSE, values |-> [f \in Fields |-> <<value>>]]

Guarded(source) ==
    [policy |-> "DROP",
     rule |-> <<[description |-> plain, verdict |-> "ACCEPT", source_zone |-> source,
                 destination_zone |-> <<>>, match |-> [f \in Families |-> <<Listing>>]]>>]

Populated == [enabled |-> TRUE, zone |-> <<[name |-> lan, interface |-> <<eth>>]>>,
              masquerade |-> <<[interface |-> eth, ip_forward |-> <<host>>]>>,
              input |-> Guarded(<<lan>>), forward |-> Guarded(<<>>)]

MCInitSections == {Empty, Populated}

MCSymmetry == Permutations(Clients)
=============================================================================
