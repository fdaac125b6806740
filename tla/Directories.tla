----------------------------- MODULE Directories -----------------------------
(***************************************************************************)
(* The directories the program keeps: that of the configuration profiles   *)
(* (Profiles), that of the files (FileManager) and that of the output      *)
(* (Artifacts).  What is done in one has nothing in common with what is    *)
(* done in another, so a behaviour is about one of them.                   *)
(***************************************************************************)
EXTENDS Profiles

CONSTANTS Handlers, Paths, Lists, Trees,                  \* of FileManager
          Runs, ProfileOf, HostsOf, MaxClock   \* of Artifacts

VARIABLES area,
          tree, req, intactTree, contested,
          beside, clock, stage, folder, todo, lost, logs, book, books

Manager == INSTANCE FileManager WITH intact <- intactTree
Outputs == INSTANCE Artifacts WITH at <- stage

managerVars == <<tree, req, intactTree, contested>>
outputVars  == <<beside, clock, stage, folder, todo, lost, logs, book, books>>

\* The files of an upload have names; what the directory holds before was stored by
\* somebody else, and whole.
ASSUME TreesAssumption ==
  /\ << >> \in Paths /\ Paths \subseteq Seq(STRING)
  /\ \A p \in Paths : \A n \in 0..Len(p) : SubSeq(p, 1, n) \in Paths
  /\ Lists \subseteq Seq(Seq(STRING) \ {<< >>})
  /\ \A t \in Trees :
       /\ DOMAIN t = Paths
       /\ \A p \in Paths :
            \/ t[p] \in {Manager!Missing, Manager!Dir}
            \/ /\ t[p] = Manager!File(t[p].id, t[p].text)
               /\ t[p].id \notin Handlers \X Nat /\ t[p].text \notin {Manager!Part, Manager!Garbled}
       /\ \A p, q \in Paths :
            /\ Manager!IsStrictPrefix(q, p) /\ t[p] # Manager!Missing => t[q] = Manager!Dir
            /\ t[p].kind = "file" /\ t[q].kind = "file" /\ t[p].id = t[q].id => p = q

\* A run has hosts with steps, and these have names, of pieces.
ASSUME RunsAssumption ==
  /\ MaxClock \in Nat
  /\ \A r \in Runs : HostsOf[r] \in Seq([name : Seq(STRING), ip : Seq(STRING),
       steps : Seq([name : Seq(STRING), command : BOOLEAN, ran : BOOLEAN])])

DirectoriesInit ==
  /\ area \in {"configs", "files", "output"}
  /\ Init /\ Manager!Init /\ Outputs!Init
  /\ area # "files"  => tree = CHOOSE t \in Trees : TRUE
  /\ area # "output" => ~beside

DirectoriesNext ==
  \/ area = "configs" /\ Next         /\ UNCHANGED <<area, managerVars, outputVars>>
  \/ area = "files"   /\ Manager!Next /\ UNCHANGED <<area, vars, outputVars>>
  \/ area = "output"  /\ Outputs!Next /\ UNCHANGED <<area, vars, managerVars>>

DirectoriesSpec == DirectoriesInit /\ [][DirectoriesNext]_<<area, vars, managerVars, outputVars>>

\* Uploads, downloads and removals keep what their answers promise, whatever other
\* requests do to the tree meanwhile (web.go:1063, 1136, 1147).
ManagedFilesInv == area = "files" => Manager!ManagedFilesInv

\* What a run leaves behind, its workbook and its logs, is its own and complete
\* (output.go:289, 424, sshcheck.go:1137).
ArtifactsInv == area = "output" => Outputs!ArtifactsInv
=============================================================================
