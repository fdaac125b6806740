---------------------------- MODULE MCPreparation ----------------------------
(* Instances of Preparation for TLC.                                          *)
EXTENDS Preparation

-----------------------------------------------------------------------------
(* Collect: three virtual machines on two pages, and one bare-metal server; n1 *)
(* is the one that may appear.                                                *)

CONSTANTS e1, e2, e3, n1, b1

BothKinds == <<"ecs", "bms">>
Start     == [ecs |-> <<e1, e2, e3>>, bms |-> <<b1>>]

-----------------------------------------------------------------------------
(* IPFilter: addresses of two segments of one bit, texts that are no address,  *)
(* and rules of every kind.                                                   *)

Star == -1   \* as in IPFilter
Gap  == -2

SomeTexts == {<< >>, <<1>>, <<1, Gap>>} \cup ({0, 1} \X {0, 1})

SomeRules ==
       {[type |-> "blank"], [type |-> "bad"]}
  \cup {[type |-> "exact", text |-> t] : t \in {<<0, 0>>, <<1>>}}
  \cup {[type |-> "cidr", text |-> c[1], bits |-> c[2]] : c \in {<< <<1, 1>>, 1>>, << <<0, 1>>, 0>>, << <<1, 0>>, 2>>}}
  \cup {[type |-> "wild", text |-> t] : t \in {<<1, Star>>, <<Star, 0>>, <<Star>>}}

Host(a, b) == [ip |-> a, eip |-> b]

SomeHosts == <<Host(<<0, 0>>, << >>), Host(<<1, 0>>, <<0, 1>>), Host(<<1, 1>>, <<0, 0>>),
               Host(<< >>, <<1, 1>>), Host(<<1, Gap>>, <<1>>), Host(<< >>, << >>)>>

-----------------------------------------------------------------------------
(* Configuration: one step with every combination of a few good and bad fields *)
(* of its type, a pair of steps, no list and an empty one; every good and bad  *)
(* value of the fields around the list.                                       *)

NoText  == ""   \* as in Configuration
Bad     == "bad"
NoRule  == [local |-> NoText, remote |-> NoText, mode |-> << >>]
NewStep == [type |-> NoText, target |-> NoText, run |-> NoText, onError |-> NoText, rule |-> NoRule,
            given |-> {}, timeout |-> NoText, workdir |-> NoText, names |-> {}]
Absent      == [given |-> FALSE, steps |-> << >>]
Exec(steps) == [given |-> TRUE, steps |-> steps]

Rule(l, r, m) == [local |-> l, remote |-> r, mode |-> m]
TransferRules ==
  {NoRule, Rule("a", "/file", << >>), Rule("a", "/dir/", <<0, 7, 5, 5>>), Rule("", "/file", << >>),
   Rule("a", "file", << >>), Rule("a", "/file", <<6, 4, 4>>), Rule("a", "/file", <<0>>),
   Rule("a", "/file", <<8>>), Rule("a", "", << >>)}

Policies == [run : {NoText, "once", "always", Bad}, onError : {NoText, "stop", "continue", Bad}]
With(s, p) == [s EXCEPT !.run = p.run, !.onError = p.onError]

FilesSteps == {[NewStep EXCEPT !.type = "files", !.target = t, !.rule = r] :
                 t \in {NoText, "push", "pull", "local", Bad}, r \in TransferRules}
CommandSteps ==
  {[NewStep EXCEPT !.type = "command", !.target = t, !.given = g, !.timeout = d, !.workdir = w] :
     t \in {NoText, "local", "remote", "push"}, g \in SUBSET {"command", "script", "scriptPath"},
     d \in {NoText, "5s", Bad}, w \in {NoText, "dir", "/dir/"}}
CheckSteps == {[NewStep EXCEPT !.type = k, !.target = t, !.names = n] :
                 k \in {"services", "status", NoText, Bad}, t \in {NoText, "remote", "local"},
                 n \in SUBSET {"nginx", Bad}}
Plain == [NewStep EXCEPT !.type = "command", !.given = {"command"}]

SomeSteps == CommandSteps \cup
  {With(s, p) : s \in FilesSteps \cup CheckSteps \cup {Plain, [Plain EXCEPT !.target = "local"]}, p \in Policies}

NewConfig == [access |-> "given", resource |-> NoText, useIP |-> NoText, pageSize |-> 0, port |-> 0,
              workers |-> 0, execList |-> Absent, services |-> {}, filter |-> NoText]

SomeConfigs ==
     {[NewConfig EXCEPT !.execList = Exec(<<s>>)] : s \in SomeSteps}
  \cup {[NewConfig EXCEPT !.execList = Exec(<<Plain, s>>)] : s \in {Plain, [Plain EXCEPT !.type = Bad]}}
  \cup {[NewConfig EXCEPT !.execList = l, !.services = n] :
          l \in {Absent, Exec(<< >>)}, n \in SUBSET {"nginx", Bad}}
  \cup {[NewConfig EXCEPT !.access = a, !.resource = r, !.useIP = u, !.filter = f] :
          a \in {NoText, "given"}, r \in {NoText, "ecs", "bms", "all", Bad},
          u \in {NoText, "internal", "eip", "internal-then-eip", Bad}, f \in {NoText, Bad}}
  \cup {[NewConfig EXCEPT !.pageSize = p, !.port = q, !.workers = w] :
          p \in {-1, 0, 1, 100, 101}, q \in {-1, 0, 22}, w \in {0, 5}}

-----------------------------------------------------------------------------
(* Projects: lists of up to three, on two pages, in which a and b are clear,   *)
(* ambiguous, listed under either only, or unknown.                           *)

P(i, n) == [id |-> i, name |-> n]

SomeSettings ==
  [name : {"a", "all"},
   names : {<< >>, <<"b">>, <<"a", "b">>, <<"b", "a">>, <<"a", "a">>, <<"a", "all">>}]

SomeCatalogs ==
  [list  : {<< >>, <<P("1", "a")>>, <<P("1", "a"), P("2", "b")>>,
            <<P("1", "a"), P("2", "a"), P("3", "b")>>, <<P("3", "b"), P("1", "a"), P("2", "a")>>},
   disks : {<< >>, <<P("1", NoText), P("3", "b")>>, <<P("3", "b"), P("3", "b"), P("1", "a")>>,
            <<P("1", "b"), P("1", "b"), P("2", "b")>>, <<P(NoText, "b"), P(NoText, NoText), P("1", "b"), P("1", "a")>>}]

-----------------------------------------------------------------------------
(* Details: two virtual machines and bare metal with two cards, over lists     *)
(* whose entries name them, name nobody, or name each other.                  *)

Server(i, m, c, p) == [id |-> i, metal |-> m, cards |-> c, project |-> p]
SomeFound    == <<Server("v1", FALSE, << >>, "1"), Server("b1", TRUE, <<"c1", "c2">>, "2"),
                  Server("v2", FALSE, << >>, "3")>>
SomeResolved == [i \in {"1"} |-> "a"]

Card(i, v, m) == [id |-> i, server |-> v, mac |-> m]
Disk(d, s, a, p) == [disk |-> d, system |-> s, attached |-> a, project |-> p]

SomeGateways ==
  [enis : {<< >>,
           <<Card("c0", "v1", "m0"), Card("c1", NoText, "m1"), Card("c3", "v1", "m0")>>,
           <<Card("c1", "b1", "m1"), Card("c2", NoText, "m2"), Card("c2", "v2", "m3")>>,
           <<Card("c0", "v1", NoText), Card("c0", "v1", "m4"), Card("c9", NoText, "m5")>>},
   disks : {<< >>,
            <<Disk("d1", FALSE, <<"v1">>, P("1", "x")), Disk("d2", TRUE, <<"v1">>, P("2", "b")),
              Disk("d3", FALSE, <<"v2", "v1">>, P("2", "c"))>>,
            <<Disk("d1", FALSE, <<"b1", NoText>>, P("3", NoText)), Disk("d2", FALSE, << >>, P(NoText, "c")),
              Disk("d3", FALSE, <<"v2", "v2">>, P("3", "y"))>>},
   projects : {<< >>, <<P("2", "z"), P("1", "q"), P("3", "w")>>}]
=============================================================================
