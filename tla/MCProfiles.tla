----------------------------- MODULE MCProfiles -----------------------------
(* Instances of Profiles for TLC: texts with and without a description, with     *)
(* one below a blank line, which is mistaken for that of the profile, without    *)
(* YAML and with wrong YAML; a description with blanks around it and a further   *)
(* line that is no YAML; two requests, which may be at one profile.  And of      *)
(* FileManager: a file, a folder, two files in it.  And of Artifacts: two runs   *)
(* of one profile, hosts without steps, of one name and without an address,      *)
(* steps of one name, and names that differ but are put together to one.         *)
EXTENDS Directories, TLC

CONSTANTS c1, c2, n1, n2, h1, h2

Yaml  == Line("yaml", "")
Blank == Line("blank", "")
Wrong == Line("wrong", "")

SomeSent ==
  {View(NoDesc, <<DescLine("old"), Blank, Yaml>>),
   View(NoDesc, <<Blank, DescLine("old"), Yaml>>),
   View(Desc(" old ", <<Wrong>>), <<Yaml>>),
   View(NoDesc, <<Blank>>),
   View(NoDesc, <<Yaml, Blank, Wrong>>)}
SomeWords == [w \in {"", "old", " old "} |-> IF w = " old " THEN "old" ELSE w]

Interchangeable == Permutations({c1, c2}) \cup Permutations({n1, n2}) \cup Permutations({h1, h2})

Root  == <<>>
Top   == <<"a">>
Sub   == <<"d">>
SubA  == <<"d", "a">>
SubB  == <<"d", "b">>
SomePaths == {Root, Top, Sub, SubA, SubB}

SomeLists == {<<>>, <<Top>>, <<SubA, SubB>>, <<Top, Top>>, <<Top, <<"..">>>>, <<SubB, Top>>}

OldFile(p) == [kind |-> "file", id |-> p, text |-> <<"old", 0>>]
Holding(dirs, files) ==
  [p \in SomePaths |-> CASE p \in dirs  -> [kind |-> "dir"]
                         [] p \in files -> OldFile(p)
                         [] OTHER       -> [kind |-> "missing"]]
SomeTrees == {Holding({}, {}), Holding({Root}, {Top, Sub}), Holding({Root, Sub}, {SubA, SubB})}

Step(name, command, ran) == [name |-> name, command |-> command, ran |-> ran]
Host(name, ip, steps)    == [name |-> name, ip |-> ip, steps |-> steps]

SomeProfiles == [r \in {1, 2} |-> <<"web", "/", "1">>]
SomeHosts ==
  <<<<Host(<<"a">>, <<"1">>, <<Step(<<"s">>, TRUE, TRUE), Step(<<"t">>, FALSE, TRUE)>>),
      Host(<<"b">>, <<"2">>, << >>),
      Host(<<"a">>, << >>, <<Step(<<"s">>, TRUE, FALSE), Step(<<"s">>, TRUE, TRUE)>>)>>,
    <<Host(<<"a", " ", "1">>, <<"1">>, <<Step(<<"s">>, TRUE, TRUE)>>),
      Host(<<"a">>, <<"1">>, <<Step(<<"1", "_", "s">>, TRUE, TRUE)>>)>>>>
=============================================================================
