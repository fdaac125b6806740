------------------------------ MODULE Settings ------------------------------
(***************************************************************************)
(* settings.go and handleSettings: the settings of the web mode, in memory *)
(* and in settings.yaml.  The handler changes the one copy in memory field *)
(* by field as it checks the request, without a lock, and saves it at the  *)
(* end; a request that is rejected half-way leaves what it changed.        *)
(*                                                                         *)
(* A salt is known by who drew it, a hash by the password and the salt it  *)
(* was made from.  addr stands for the listening address, the directories  *)
(* and the history size, which are checked after the password.             *)
(*                                                                         *)
(* Sessions has the logins.                                                *)
(*                                                                         *)
(* Abstracted: the -web-configs override, defaults of single fields, the   *)
(* user name that setPassword reads and writes back.                       *)
(***************************************************************************)
EXTENDS Integers

CONSTANTS Posts,      \* requests to change the settings
          Bodies,     \* [user, password, addr], "" for what is left out
          Files,      \* what settings.yaml may be when the program is first started
          MaxCrashes  \* bound: crashes

Short == "short"  \* a password of less than four characters
Bad   == "bad"    \* an address or directory that cannot be used

Missing == [kind |-> "missing"]
Empty   == [kind |-> "empty"]    \* truncated, not yet written
Garbled == [kind |-> "garbled"]  \* two writes over each other

VARIABLES serial,   \* the operator's habit: requests come one at a time
          mem,      \* s.settings, Missing while the program is not serving
          file,     \* settings.yaml
          at,       \* where a request stands
          body,     \* its content
          digest,   \* the hash it has computed
          data,     \* what it is writing to the file
          boot,     \* where the start of the program stands
          crashes,
          last,     \* history: what was accepted last, Missing before
          torn,     \* history: a save has truncated the file since
          ahead     \* history: a request was turned down since the last start or save

history == <<last, torn, ahead>>
vars == <<serial, mem, file, at, body, digest, data, boot, crashes, history>>

Hash(p, s)   == [password |-> p, salt |-> s]
NoSalt       == <<"none", 0>>
BootSalt     == <<"boot", crashes>>
Salt(q)      == <<q, 0>>
NoHash       == Hash("", NoSalt)
Kept(u, p, s, h, a) == [kind |-> "settings", user |-> u, plain |-> p, salt |-> s, hash |-> h, addr |-> a]
Default      == Kept("admin", "", NoSalt, NoHash, "default")
Hashless(s)  == s.hash = NoHash \/ s.salt = NoSalt

\* A file of the operator's has a password in clear, none, or what the program left there.
ASSUME FilesAssumption ==
  \A f \in Files :
    \/ f = Missing
    \/ /\ f = Kept(f.user, f.plain, f.salt, f.hash, f.addr)
       /\ f.plain = "" /\ ~Hashless(f) => f.hash.password # "" /\ f.hash = Hash(f.hash.password, f.salt)

ASSUME CrashesAssumption == MaxCrashes \in Nat
ASSUME PostsAssumption == "none" \notin Posts   \* who draws a salt is told from nobody

Ended   == {"idle", "rejected", "failed", "accepted", "lost"}
Busy(q) == at[q] \notin Ended
Serving == boot = "up"
Quiet   == Serving /\ \A q \in Posts : ~Busy(q)

SettingsTypeOK ==
  /\ serial \in BOOLEAN
  /\ boot \in {"down", "truncate", "write", "up", "refused"}
  /\ at   \in [Posts -> Ended \cup {"password", "hash", "store", "addr", "marshal", "truncate", "write"}]
  /\ \A q \in Posts : at[q] \in {"hash", "store"} => body[q].password \notin {"", Short}
  /\ file.kind \in {"missing", "empty", "garbled", "settings"}
  /\ boot \in {"truncate", "write", "up"} <=> mem.kind = "settings"
  /\ crashes \in 0..MaxCrashes
  /\ torn \in BOOLEAN /\ ahead \in BOOLEAN

Init ==
  /\ serial \in BOOLEAN
  /\ mem = Missing
  /\ file \in Files
  /\ at = [q \in Posts |-> "idle"]
  /\ body = [q \in Posts |-> [user |-> "", password |-> "", addr |-> ""]]
  /\ digest = [q \in Posts |-> NoHash]
  /\ data = [q \in Posts |-> Missing]
  /\ boot = "down"
  /\ crashes = 0
  /\ last = Missing /\ torn = FALSE /\ ahead = FALSE

-------------------------------------------------------------------------------
(* loadSettings *)

\* setPassword with a fresh salt.
WithPassword(s, u, p) == [s EXCEPT !.user = u, !.salt = BootSalt, !.hash = Hash(p, BootSalt)]

Loaded == IF file.kind = "settings" THEN file ELSE Default

\* Mutant: the password in clear is hashed and stays in the file.
NormalizedKeepsPlain ==
  CASE Loaded.plain # ""                       -> WithPassword(Loaded, Loaded.user, Loaded.plain)
    [] Loaded.plain = "" /\ Hashless(Loaded)   -> WithPassword(Loaded, "admin", "admin")
    [] Loaded.plain = "" /\ ~Hashless(Loaded)  -> Loaded

\* Mutant: a start without a password in clear gets admin/admin.
NormalizedForgets ==
  IF Loaded.plain # "" THEN [WithPassword(Loaded, Loaded.user, Loaded.plain) EXCEPT !.plain = ""]
  ELSE WithPassword(Loaded, "admin", "admin")

\* A password in clear is hashed; a file without a hash, or none, gets admin/admin.
Normalized ==
  CASE Loaded.plain # ""                       -> [WithPassword(Loaded, Loaded.user, Loaded.plain)
                                                     EXCEPT !.plain = ""]
    [] Loaded.plain = "" /\ Hashless(Loaded)   -> WithPassword(Loaded, "admin", "admin")
    [] Loaded.plain = "" /\ ~Hashless(Loaded)  -> Loaded

Load ==
  /\ boot = "down"
  /\ IF file = Garbled
     THEN boot' = "refused" /\ UNCHANGED mem
     ELSE /\ mem' = Normalized
          /\ boot' = IF mem' = file THEN "up" ELSE "truncate"
  /\ ahead' = FALSE
  /\ UNCHANGED <<serial, file, at, body, digest, data, crashes, last, torn>>

BootTruncate ==
  /\ boot = "truncate"
  /\ file' = Empty
  /\ boot' = "write"
  /\ UNCHANGED <<serial, mem, at, body, digest, data, crashes, history>>

BootWrite ==
  /\ boot = "write"
  /\ file' = mem
  /\ boot' = "up"
  /\ UNCHANGED <<serial, mem, at, body, digest, data, crashes, history>>

-------------------------------------------------------------------------------
(* handleSettings *)

To(q, there) == at' = [at EXCEPT ![q] = there]

Receive(q, b) ==
  /\ Serving /\ at[q] = "idle"
  /\ serial => Quiet
  /\ body' = [body EXCEPT ![q] = b]
  /\ mem' = IF b.user = "" THEN mem ELSE [mem EXCEPT !.user = b.user]
  /\ To(q, "password")
  /\ UNCHANGED <<serial, file, digest, data, boot, crashes, history>>

NoPassword(q) ==
  /\ at[q] = "password" /\ body[q].password = ""
  /\ To(q, "addr")
  /\ UNCHANGED <<serial, mem, file, body, digest, data, boot, crashes, history>>

PasswordShort(q) ==
  /\ at[q] = "password" /\ body[q].password = Short
  /\ To(q, "rejected")
  /\ ahead' = TRUE
  /\ UNCHANGED <<serial, mem, file, body, digest, data, boot, crashes, last, torn>>

\* Mutant: the length of the password is not looked at.
DrawSaltAnyway(q) ==
  /\ at[q] = "password" /\ body[q].password # ""
  /\ mem' = [mem EXCEPT !.salt = Salt(q)]
  /\ To(q, "hash")
  /\ UNCHANGED <<serial, file, body, digest, data, boot, crashes, history>>

\* setPassword: the salt, the hash of the password with the salt that is there, the store.
DrawSalt(q) ==
  /\ at[q] = "password" /\ body[q].password \notin {"", Short}
  /\ mem' = [mem EXCEPT !.salt = Salt(q)]
  /\ To(q, "hash")
  /\ UNCHANGED <<serial, file, body, digest, data, boot, crashes, history>>

ComputeHash(q) ==
  /\ at[q] = "hash"
  /\ digest' = [digest EXCEPT ![q] = Hash(body[q].password, mem.salt)]
  /\ To(q, "store")
  /\ UNCHANGED <<serial, mem, file, body, data, boot, crashes, history>>

\* Mutant: the hash is stored only if there was none.
StoreFirstHash(q) ==
  /\ at[q] = "store"
  /\ mem' = IF mem.hash = NoHash THEN [mem EXCEPT !.hash = digest[q]] ELSE mem
  /\ To(q, "addr")
  /\ UNCHANGED <<serial, file, body, digest, data, boot, crashes, history>>

StoreHash(q) ==
  /\ at[q] = "store"
  /\ mem' = [mem EXCEPT !.hash = digest[q]]
  /\ To(q, "addr")
  /\ UNCHANGED <<serial, file, body, digest, data, boot, crashes, history>>

AddrBad(q) ==
  /\ at[q] = "addr" /\ body[q].addr = Bad
  /\ To(q, "rejected")
  /\ ahead' = TRUE
  /\ UNCHANGED <<serial, mem, file, body, digest, data, boot, crashes, last, torn>>

SetAddr(q) ==
  /\ at[q] = "addr" /\ body[q].addr # Bad
  /\ mem' = IF body[q].addr = "" THEN mem ELSE [mem EXCEPT !.addr = body[q].addr]
  /\ To(q, "marshal")
  /\ UNCHANGED <<serial, file, body, digest, data, boot, crashes, history>>

\* Mutant: only a new password is saved.
MarshalPassword(q) ==
  /\ at[q] = "marshal"
  /\ data' = [data EXCEPT ![q] = mem]
  /\ To(q, IF body[q].password = "" THEN "accepted" ELSE "truncate")
  /\ UNCHANGED <<serial, mem, file, body, digest, boot, crashes, history>>

Marshal(q) ==
  /\ at[q] = "marshal"
  /\ data' = [data EXCEPT ![q] = mem]
  /\ To(q, "truncate")
  /\ UNCHANGED <<serial, mem, file, body, digest, boot, crashes, history>>

Truncate(q) ==
  /\ at[q] = "truncate"
  /\ \/ file' = Empty /\ To(q, "write") /\ torn' = TRUE /\ UNCHANGED ahead
     \/ file' = file /\ To(q, "failed") /\ ahead' = TRUE /\ UNCHANGED torn
  /\ UNCHANGED <<serial, mem, body, digest, data, boot, crashes, last>>

\* A write over the text of another leaves its tail if that was longer.
Write(q) ==
  /\ at[q] = "write"
  /\ file' \in {data[q]} \cup IF file \in {Empty, data[q]} THEN {} ELSE {Garbled}
  /\ To(q, "accepted")
  /\ last' = data[q] /\ torn' = FALSE /\ ahead' = FALSE
  /\ UNCHANGED <<serial, mem, body, digest, data, boot, crashes>>

WriteFails(q) ==
  /\ at[q] = "write"
  /\ To(q, "failed")
  /\ ahead' = TRUE
  /\ UNCHANGED <<serial, mem, file, body, digest, data, boot, crashes, last, torn>>

-------------------------------------------------------------------------------

\* The process ends at any moment and is started again.
Crash ==
  /\ boot \in {"truncate", "write", "up"} /\ crashes < MaxCrashes
  /\ crashes' = crashes + 1
  /\ boot' = "down"
  /\ mem' = Missing
  /\ at' = [q \in Posts |-> IF Busy(q) THEN "lost" ELSE at[q]]
  /\ UNCHANGED <<serial, file, body, digest, data, history>>

PostNext(q) ==
  \/ \E b \in Bodies : Receive(q, b)
  \/ NoPassword(q) \/ PasswordShort(q) \/ DrawSalt(q) \/ ComputeHash(q) \/ StoreHash(q)
  \/ AddrBad(q) \/ SetAddr(q) \/ Marshal(q) \/ Truncate(q) \/ Write(q) \/ WriteFails(q)

Next == Load \/ BootTruncate \/ BootWrite \/ Crash \/ \E q \in Posts : PostNext(q)
Spec == Init /\ [][Next]_vars

-------------------------------------------------------------------------------
(* Properties *)

\* checkPassword
CanLogIn(u, p) == u = mem.user /\ Hash(p, mem.salt) = mem.hash

\* When no request is under way somebody can log in: the stored hash is that of a
\* password with the stored salt, also after rejected requests, failed saves and
\* crashes (settings.go:107).  Two requests at once may mix salt and hash.
SomebodyCanLogIn ==
  serial /\ Quiet => CanLogIn(mem.user, mem.hash.password) /\ mem.hash.password # ""

\* What was accepted last is in the file, and nothing else, whatever is turned down,
\* crashes or starts anew after it, until a later save truncates the file: a save
\* that cannot begin, a request that is rejected and a start do not touch it.  And
\* what is in memory is in the file unless a request was turned down since the last
\* start or save, so a restart forgets what such a request left there, and no more
\* (settings.go:76-91, 104; web.go:464).  For requests that come one at a time.
AcceptedIsSaved ==
  serial => /\ last # Missing /\ ~torn => file = last
            /\ Quiet /\ ~ahead => file = mem

\* Not satisfied by the code.  What was accepted stays until something else is
\* accepted: a save that truncates the file and does not get to write it, as the
\* program crashes or the disk is full, loses the settings, and the next start sets
\* admin/admin (settings.go:104).
AcceptedSurvives ==
  serial /\ Quiet /\ last # Missing => file = last

\* While the program serves, its file holds no password in clear, however many
\* requests write it at once and whenever it was restarted
\* (settings.go:26 "文件里不保留明文").
PlainIsGone ==
  Serving /\ file.kind = "settings" => file.plain = ""

\* What starts, requests and crashes make of the file: no password in clear, what was
\* accepted until a later save truncates it, and states of requests that fit their
\* bodies (settings.go:26, web.go:464).
SettingsInv == SettingsTypeOK /\ PlainIsGone /\ AcceptedIsSaved
=============================================================================
