------------------------------ MODULE IPFilter ------------------------------
(***************************************************************************)
(* filter.go: the rules of cfg.Filter compiled into matchers, and          *)
(* filterVMs, the loop that keeps the hosts a run works on.                *)
(*                                                                         *)
(* The text of an address is the sequence of its dot-separated segments;   *)
(* only one of Segments segments parses as an address, and << >> is the    *)
(* empty text of a host without that address.  A segment has Width bits (8 *)
(* in the program).                                                        *)
(*                                                                         *)
(* Abstracted: blanks around a rule, IPv6, and wildcards that stand for a  *)
(* part of a segment; the order of a rule list, since a matcher asks       *)
(* whether any rule matches.                                               *)
(***************************************************************************)
EXTENDS FiniteSets, Lists

CONSTANTS Segments, Width,
          Texts,     \* texts of addresses
          Rules,     \* rules a configuration may hold
          Hosts,     \* the hosts collected, a sequence
          MaxRules   \* bound: rules in one list

Star  == -1  \* in a wildcard rule
Gap   == -2  \* an empty segment, as in "10.0.0."
Blank == [type |-> "blank"]
Bad   == [type |-> "bad"]
Exact(t)   == [type |-> "exact", text |-> t]
CIDR(t, n) == [type |-> "cidr", text |-> t, bits |-> n]
Wild(t)    == [type |-> "wild", text |-> t]

Groups == {"includeIP", "includeEIP", "excludeIP", "excludeEIP"}

VARIABLES rules,    \* cfg.Filter: the rules of every group
          at,       \* where filterVMs stands
          next,     \* the next host
          kept,     \* the hosts kept so far
          dropped   \* the second result

vars == <<rules, at, next, kept, dropped>>

IPFilterTypeOK ==
  /\ rules   \in [Groups -> SUBSET Rules]
  /\ at      \in {"compile", "loop", "error", "done"}
  /\ next    \in 1..(Len(Hosts) + 1)
  /\ kept    \in Seq(InList(Hosts))
  /\ dropped \in 0..Len(Hosts)

-------------------------------------------------------------------------------
(* ipMatcher *)

PowerOfTwo(n) == LET upTo[i \in 0..n] == IF i = 0 THEN 1 ELSE 2 * upTo[i - 1] IN upTo[n]

Size    == PowerOfTwo(Width)
Digit   == 0..(Size - 1)
Segment == Digit \cup {Gap}

\* What a configuration may list.
IsRule(r) ==
  \/ r \in {Blank, Bad}
  \/ r.type = "exact" /\ r.text \in Seq(Segment) \ {<< >>}
  \/ r.type = "cidr"  /\ r.text \in [1..Segments -> Digit] /\ r.bits \in 0..(Segments * Width)
  \/ r.type = "wild"  /\ r.text \in Seq(Segment \cup {Star}) \ {<< >>}

\* The number an address stands for; a netmask keeps its leading bits.
Number(t) == LET upTo[i \in 0..Segments] == IF i = 0 THEN 0 ELSE upTo[i - 1] * Size + t[i]
             IN  upTo[Segments]
Parses(t)        == Len(t) = Segments /\ \A i \in DOMAIN t : t[i] # Gap
Network(t, bits) == Number(t) \div PowerOfTwo(Segments * Width - bits)

\* Mutant: a netmask one bit too wide.
ContainsNarrow(r, t) == Parses(t) /\ (r.bits > 0 => Network(t, r.bits - 1) = Network(r.text, r.bits - 1))

\* net.ParseCIDR and IPNet.Contains
Contains(r, t) == Parses(t) /\ Network(t, r.bits) = Network(r.text, r.bits)

\* wildcardToRegexp: a star is one segment that is not empty.
Fits(r, t) == /\ Len(t) = Len(r.text)
              /\ \A i \in DOMAIN r.text :
                   r.text[i] = t[i] \/ (r.text[i] = Star /\ t[i] # Gap)

Hits(r, t) == \/ r.type = "exact" /\ t = r.text
              \/ r.type = "cidr" /\ Contains(r, t)
              \/ r.type = "wild" /\ Fits(r, t)

Match(R, t) == t # << >> /\ \E r \in R : Hits(r, t)

HasRules(R) == R \ {Blank} # {}

-------------------------------------------------------------------------------
(* filterVMs *)

Included(h) ==
  \/ ~HasRules(rules["includeIP"]) /\ ~HasRules(rules["includeEIP"])
  \/ Match(rules["includeIP"], h.ip)
  \/ Match(rules["includeEIP"], h.eip)

\* Mutant: an included host is not looked up among the excluded.
ExcludedUnlessIncluded(h) ==
  /\ \/ Match(rules["excludeIP"], h.ip)
     \/ Match(rules["excludeEIP"], h.eip)
  /\ ~Match(rules["includeIP"], h.ip)

Excluded(h) ==
  \/ Match(rules["excludeIP"], h.ip)
  \/ Match(rules["excludeEIP"], h.eip)

Begin(written) ==
  /\ rules = written
  /\ at = "compile"
  /\ next = 1
  /\ kept = << >>
  /\ dropped = 0

Init == \E written \in [Groups -> {R \in SUBSET Rules : Cardinality(R) <= MaxRules}] : Begin(written)

Compile ==
  /\ at = "compile"
  /\ at' = IF \E g \in Groups : Bad \in rules[g] THEN "error" ELSE "loop"
  /\ UNCHANGED <<rules, next, kept, dropped>>

Skip ==
  /\ at = "loop" /\ next <= Len(Hosts)
  /\ ~Included(Hosts[next]) \/ Excluded(Hosts[next])
  /\ next' = next + 1
  /\ UNCHANGED <<rules, at, kept, dropped>>

Keep ==
  /\ at = "loop" /\ next <= Len(Hosts)
  /\ Included(Hosts[next]) /\ ~Excluded(Hosts[next])
  /\ next' = next + 1
  /\ kept' = Append(kept, Hosts[next])
  /\ UNCHANGED <<rules, at, dropped>>

\* Mutant: the difference the wrong way round.
ReturnNegative ==
  /\ at = "loop" /\ next > Len(Hosts)
  /\ at' = "done"
  /\ dropped' = Len(kept) - Len(Hosts)
  /\ UNCHANGED <<rules, next, kept>>

Return ==
  /\ at = "loop" /\ next > Len(Hosts)
  /\ at' = "done"
  /\ dropped' = Len(Hosts) - Len(kept)
  /\ UNCHANGED <<rules, next, kept>>

Next == Compile \/ Skip \/ Keep \/ Return
Spec == Init /\ [][Next]_vars

-------------------------------------------------------------------------------
(* Properties *)

\* The reference: the texts a rule is documented to name (README.md:158).  A
\* network is the range from its first address to its last.
Named(r) ==
  CASE r.type = "exact" -> {r.text}
    [] r.type = "cidr"  -> LET width == PowerOfTwo(Segments * Width - r.bits)
                               first == Number(r.text) - (Number(r.text) % width)
                           IN  {t \in Texts : /\ Len(t) = Segments /\ Gap \notin {t[i] : i \in DOMAIN t}
                                              /\ Number(t) \in first..(first + width - 1)}
    [] r.type = "wild"  -> {t \in Texts : \E f \in [DOMAIN r.text -> Digit] :
                                            t = [i \in DOMAIN r.text |->
                                                   IF r.text[i] = Star THEN f[i] ELSE r.text[i]]}
    [] OTHER            -> {}

NamedBy(g) == UNION {Named(r) : r \in rules[g]}

Open  == (rules["includeIP"] \cup rules["includeEIP"]) \subseteq {Blank}
Meant == {h \in InList(Hosts) :
            /\ Open \/ h.ip \in NamedBy("includeIP") \/ h.eip \in NamedBy("includeEIP")
            /\ h.ip \notin NamedBy("excludeIP") /\ h.eip \notin NamedBy("excludeEIP")}

\* The hosts a finished filter keeps are those an include list names by their
\* address of that kind, or all if no include list names anything, less those an
\* exclude list names; in their order, and the rest is counted (README.md:159).
KeptIsMeant == at = "done" => kept = Only(Hosts, Meant) /\ Len(kept) + dropped = Len(Hosts)

\* A rule can be rewritten in another kind without changing what its list
\* matches: an address as the full-length network, a wildcard for the last
\* segment as the network of the others (README.md:158).
RulesAgree ==
  at = "compile" =>
    \A g \in Groups, t, u \in {x \in Texts : Parses(x)} :
      LET With(r) == Match(rules[g] \cup {r}, u)
      IN  /\ With(CIDR(t, Segments * Width)) <=> With(Exact(t))
          /\ With(CIDR(t, (Segments - 1) * Width)) <=> With(Wild([t EXCEPT ![Segments] = Star]))

\* The filter keeps what its rules mean, in whichever kind they are written.
FilterInv == IPFilterTypeOK /\ KeptIsMeant /\ RulesAgree
=============================================================================
