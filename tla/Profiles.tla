------------------------------ MODULE Profiles ------------------------------
(***************************************************************************)
(* The configuration profiles of the web mode (web.go, handleConfigs and   *)
(* handleConfigItem): one file per profile, its first line may be a        *)
(* comment that describes it.  Requests share nothing but the directory;   *)
(* os.WriteFile truncates the file and then writes it.                     *)
(*                                                                         *)
(* A text is a sequence of lines: a description, a blank line, a line of   *)
(* YAML, a line that is no YAML.  A description is what a request gives:   *)
(* a word, which may have blanks around it, and further lines.             *)
(*                                                                         *)
(* Abstracted: names that are refused, the meta data of the list.          *)
(***************************************************************************)
EXTENDS Naturals, Sequences

CONSTANTS Clients,   \* requests that change the directory
          Pages,     \* pages with an editor
          Names,
          Sent,      \* the descriptions and texts that are sent to be saved
          TrimSpace  \* strings.TrimSpace: the words and what is left of them

Words == DOMAIN TrimSpace

Line(k, of) == [kind |-> k, of |-> of]
DescLine(w) == Line("desc", w)
TextLine    == [kind : {"desc", "blank", "yaml", "wrong", "rest"}, of : Words]

Desc(w, more) == [head |-> w, more |-> more]
NoDesc        == Desc("", <<>>)

Missing     == [is |-> "missing", lines |-> <<>>]
File(lines) == [is |-> "text", lines |-> lines]

\* Two writes over each other, or one that failed on its way: YAML by chance.
Fragments == {<<Line("rest", "")>>, <<Line("wrong", "")>>}

VARIABLES dir,    \* [Names -> file]
          at,     \* where a request stands
          op,     \* its profile, what it was asked and what it writes
          form,   \* [Pages -> what the editor holds]
          told,   \* what the last answer about a profile promised, if it still counts
          mixed,  \* the profiles two requests were writing at once, until one is alone again
          odd     \* those whose text is not what a save has looked at

vars == <<dir, at, op, form, told, mixed, odd>>

View(d, t) == [desc |-> d, text |-> t]
Nothing    == View(NoDesc, <<>>)

\* What is sent is lines, what trims has nothing more to trim.
ASSUME TextsAssumption ==
  /\ Sent \subseteq [desc : [head : Words, more : Seq(TextLine)], text : Seq(TextLine)]
  /\ "" \in Words /\ TrimSpace[""] = ""
  /\ \A w \in Words : TrimSpace[w] \in Words /\ TrimSpace[TrimSpace[w]] = TrimSpace[w]

-----------------------------------------------------------------------------
(* splitDesc *)

Trimmed(ls) ==
  IF \A i \in DOMAIN ls : ls[i].kind = "blank" THEN <<>>
  ELSE LET first == CHOOSE i \in DOMAIN ls : /\ ls[i].kind # "blank"
                                             /\ \A j \in 1..(i - 1) : ls[j].kind = "blank"
       IN  SubSeq(ls, first, Len(ls))

Described(ls) == ls # <<>> /\ Head(ls).kind = "desc"

SplitDesc(ls) ==
  IF Described(ls) THEN View(Desc(TrimSpace[Head(ls).of], <<>>), Trimmed(Tail(ls)))
                   ELSE View(NoDesc, Trimmed(ls))

\* What a save stores and announces: the description of the request comes first.
Accepted(d, ls) ==
  LET s == SplitDesc(ls) IN View(IF d = NoDesc THEN s.desc ELSE d, s.text)

\* Mutant: the text is checked for syntax only.
ProbeSyntax(v) == \A i \in DOMAIN v.text : v.text[i].kind # "wrong"

\* The text alone is looked at, not the description.
Probe(v) ==
  /\ \E i \in DOMAIN v.text : v.text[i].kind # "blank"
  /\ \A i \in DOMAIN v.text : v.text[i].kind # "wrong"

\* Mutant: the description line goes before the text as it was sent.
JoinedTwice(d, ls) ==
  LET v == Accepted(d, ls) IN
  IF v.desc = NoDesc THEN ls ELSE <<DescLine(v.desc.head)>> \o v.desc.more \o ls

\* The description as it came, its further lines with it.
Joined(d, ls) ==
  LET v == Accepted(d, ls) IN
  IF v.desc = NoDesc THEN v.text ELSE <<DescLine(v.desc.head)>> \o (v.desc.more \o v.text)

-----------------------------------------------------------------------------

Idle(c)         == at[c] = "idle"
WritesTo(c, n)  == at[c] = "write" /\ op[c].new = n
Shared(c, n)    == \E b \in Clients \ {c} : WritesTo(b, n)
BeingWritten(n) == \E c \in Clients : WritesTo(c, n)

\* whole: what is written is text that a save has looked at.
Op(k, n, new, lines, v, whole) ==
  [kind |-> k, name |-> n, new |-> new, lines |-> lines, promise |-> v, whole |-> whole]
NoOp == Op("none", "", "", <<>>, Nothing, TRUE)
Done(c) == at' = [at EXCEPT ![c] = "idle"] /\ op' = [op EXCEPT ![c] = NoOp]

Init ==
  /\ dir = [n \in Names |-> Missing]
  /\ at = [c \in Clients |-> "idle"]
  /\ op = [c \in Clients |-> NoOp]
  /\ form = [p \in Pages |-> Nothing]
  /\ told = [n \in Names |-> Nothing]
  /\ mixed = {} /\ odd = {}

\* POST /api/configs, with what the editor holds or with anything else.
Save(c, n, v) ==
  LET saved == Accepted(v.desc, v.text) IN
  /\ Idle(c)
  /\ Probe(saved)
  /\ op' = [op EXCEPT ![c] =
       Op("save", n, n, Joined(v.desc, v.text), saved, saved.desc.more = <<>>)]
  /\ at' = [at EXCEPT ![c] = "truncate"]
  /\ UNCHANGED <<dir, form, told, mixed, odd>>

\* GET /api/configs/name, for the editor.
Edit(p, n) ==
  /\ dir[n] # Missing
  /\ form' = [form EXCEPT ![p] = SplitDesc(dir[n].lines)]
  /\ UNCHANGED <<dir, at, op, told, mixed, odd>>

\* Mutant: the new name is not looked up.
CopyUnchecked(c, n, new) ==
  /\ Idle(c) /\ dir[n] # Missing
  /\ op' = [op EXCEPT ![c] = Op("copy", n, new, <<>>, Nothing, TRUE)]
  /\ at' = [at EXCEPT ![c] = "read"]
  /\ UNCHANGED <<dir, form, told, mixed, odd>>

\* POST /api/configs/name: both names are looked up, then the source is read.
Copy(c, n, new) ==
  /\ Idle(c) /\ dir[n] # Missing /\ dir[new] = Missing
  /\ op' = [op EXCEPT ![c] = Op("copy", n, new, <<>>, Nothing, TRUE)]
  /\ at' = [at EXCEPT ![c] = "read"]
  /\ UNCHANGED <<dir, form, told, mixed, odd>>

ReadSource(c) ==
  LET n == op[c].name IN
  /\ at[c] = "read"
  /\ IF dir[n] = Missing
     THEN Done(c)
     ELSE /\ at' = [at EXCEPT ![c] = "truncate"]
          /\ op' = [op EXCEPT ![c] = Op("copy", n, op[c].new, dir[n].lines, SplitDesc(dir[n].lines),
                                        n \notin mixed \cup odd /\ ~BeingWritten(n))]
  /\ UNCHANGED <<dir, form, told, mixed, odd>>

\* os.WriteFile: open with O_TRUNC, which may fail and leaves the file alone, and write.
Truncate(c) ==
  /\ at[c] = "truncate"
  /\ LET n == op[c].new IN
     \/ /\ dir' = [dir EXCEPT ![n] = File(<<>>)]
        /\ told' = [told EXCEPT ![n] = Nothing]
        /\ mixed' = IF Shared(c, n) THEN mixed \cup {n} ELSE mixed \ {n}
        /\ at' = [at EXCEPT ![c] = "write"]
        /\ UNCHANGED op
     \/ Done(c) /\ UNCHANGED <<dir, told, mixed>>
  /\ UNCHANGED <<form, odd>>

\* On an empty file, or on what another has written into it meanwhile.
Write(c) ==
  /\ at[c] = "write"
  /\ LET n == op[c].new IN
     /\ \E ls \in {op[c].lines} \cup (IF dir[n].lines = <<>> THEN {} ELSE Fragments) :
          dir' = [dir EXCEPT ![n] = File(ls)]
     /\ told' = [told EXCEPT ![n] = op[c].promise]
     /\ odd' = IF op[c].whole THEN odd \ {n} ELSE odd \cup {n}
  /\ Done(c)
  /\ UNCHANGED <<form, mixed>>

\* A write that fails leaves the file as it found it, or with a part of the text.
WriteFails(c) ==
  /\ at[c] = "write"
  /\ LET n == op[c].new IN
     /\ \E ls \in {dir[n].lines} \cup Fragments : dir' = [dir EXCEPT ![n] = File(ls)]
     /\ odd' = odd \cup {n}
  /\ Done(c)
  /\ UNCHANGED <<form, told, mixed>>

\* What is still being written goes where nobody looks: its file has no name any more.
Delete(c, n) ==
  /\ Idle(c) /\ dir[n] # Missing
  /\ dir' = [dir EXCEPT ![n] = Missing]
  /\ told' = [told EXCEPT ![n] = Nothing]
  /\ at' = [b \in Clients |-> IF WritesTo(b, n) THEN "lost" ELSE at[b]]
  /\ mixed' = mixed \ {n} /\ odd' = odd \ {n}
  /\ UNCHANGED <<op, form>>

WriteLost(c) ==
  /\ at[c] = "lost"
  /\ Done(c)
  /\ UNCHANGED <<dir, form, told, mixed, odd>>

ClientNext(c) ==
  \/ \E n \in Names, v \in Sent : Save(c, n, v)
  \/ \E n \in Names, p \in Pages : form[p] # Nothing /\ Save(c, n, form[p])
  \/ \E n \in Names : Delete(c, n)
  \/ \E n, new \in Names : Copy(c, n, new)
  \/ ReadSource(c) \/ Truncate(c) \/ Write(c) \/ WriteFails(c) \/ WriteLost(c)

Next ==
  \/ \E c \in Clients : ClientNext(c)
  \/ \E p \in Pages, n \in Names : Edit(p, n)

Spec == Init /\ [][Next]_vars

-----------------------------------------------------------------------------
(* Properties *)

\* A request has its text at hand when it writes, and writes to another file only
\* as a copy; the file it writes to is there.
ProfilesTypeOK ==
  /\ at \in [Clients -> {"idle", "read", "truncate", "write", "lost"}]
  /\ \A c \in Clients : /\ at[c] = "read" => op[c].kind = "copy"
                        /\ op[c].kind = "copy" => op[c].new # op[c].name
                        /\ at[c] = "write" => dir[op[c].new] # Missing
  /\ \A n \in Names : dir[n].is \in {"missing", "text"}
  /\ mixed \subseteq Names /\ odd \subseteq Names

\* A description nobody gave, and a text that begins with one: it becomes the description.
Mistaken(v) == v.desc = NoDesc /\ Described(v.text)

\* A description of one line, without blanks around it.
Tidy(d) == d.more = <<>> /\ TrimSpace[d.head] = d.head

\* A file shows what was announced, where that can be shown.
Shows(ls, v) == Tidy(v.desc) /\ ~Mistaken(v) => SplitDesc(ls) = v

\* Some text, and all of it YAML.
HasText(ls) ==
  /\ \E i \in DOMAIN ls : ls[i].kind # "blank"
  /\ \A i \in DOMAIN ls : ls[i].kind # "wrong"

\* A profile that was saved or copied, and not deleted since, shows in the list and in
\* the editor the description and the YAML the answer promised (web.go:544, 598), if the
\* description has one line without blanks around it; whatever others did before, even
\* to this profile, and unless they are writing it now or were when this one began.
SavedIsShown ==
  \A n \in Names \ mixed : told[n] # Nothing => dir[n] # Missing /\ Shows(dir[n].lines, told[n])

\* A profile that nobody is writing has some text and all of it is YAML, which a save
\* insists on (web.go:527 "YAML 内容为空", 533 "YAML 语法错误"), unless two wrote it at once,
\* its last write failed, its description brought further lines with it, or it was copied
\* from such a one or from one that was being written.
EveryProfileHasText ==
  \A n \in Names \ (mixed \cup odd) :
    dir[n] # Missing /\ ~BeingWritten(n) => HasText(dir[n].lines)

\* Profiles have text and show what was saved.
ProfilesInv == ProfilesTypeOK /\ SavedIsShown /\ EveryProfileHasText

\* What was saved without a description is shown without one.
\* Not satisfied by the code: the description is looked for in the first line, blank
\* lines are taken off after that, and the next reader finds one.
SavedIsShownAlways ==
  \A n \in Names \ mixed : told[n] # Nothing /\ Tidy(told[n].desc) => SplitDesc(dir[n].lines) = told[n]

\* The description in the answer to a save is the one the list shows (web.go:544).
\* Not satisfied by the code: it is stored and answered as it came, and shown without
\* the blanks around it and without its further lines.
AnsweredIsShown ==
  \A n \in Names \ mixed : told[n] # Nothing /\ ~Mistaken(told[n]) => SplitDesc(dir[n].lines) = told[n]

\* What a save is about to store has been looked at: text, and all of it YAML
\* (web.go:530 语法校验, web_http_test.go:150).
\* Not satisfied by the code: the further lines of a description are stored unseen.
StoredIsProbed ==
  \A c \in Clients : op[c].kind = "save" => HasText(op[c].lines)

\* A copy never touches a profile that is there already (web.go:586 "配置已存在").
\* Not satisfied by the code: the name is looked up before the source is read.
CopyNeverOverwrites ==
  [][\A c \in Clients :
       op[c].kind = "copy" /\ at[c] = "truncate" /\ at'[c] = "write" => dir[op[c].new] = Missing]_vars
=============================================================================
