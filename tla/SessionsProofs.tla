---------------------------- MODULE SessionsProofs ----------------------------
(***************************************************************************)
(* Proofs about Settings and Sessions, for any number of logins, requests  *)
(* and changes of the settings.  With one change at a time somebody can    *)
(* log in, and what was accepted is in the file until a later save         *)
(* truncates it.  In any overlap, who is logged in knew a name and a       *)
(* password in force while the login ran, and who is served was logged in  *)
(* when the request came, or brought the daemon's token to end it.         *)
(***************************************************************************)
EXTENDS Sessions, TLAPS

-------------------------------------------------------------------------------
(* The settings *)

\* A record of settings, one that lets somebody in, and a file that can be started with.
Filled(s) == s = Kept(s.user, s.plain, s.salt, s.hash, s.addr)
Opens(s)  == s.salt # NoSalt /\ \E w : w # "" /\ s.hash = Hash(w, s.salt)
Works(s)  == Hashless(s) \/ Opens(s)

States == Ended \cup {"password", "hash", "store", "addr", "marshal", "truncate", "write"}

PlacesInv ==
  /\ serial \in BOOLEAN /\ torn \in BOOLEAN /\ ahead \in BOOLEAN
  /\ crashes \in 0..MaxCrashes
  /\ boot \in {"down", "truncate", "write", "up", "refused"}
  /\ at \in [Posts -> States]
  /\ body = [q \in Posts |-> body[q]]
  /\ digest = [q \in Posts |-> digest[q]]
  /\ data = [q \in Posts |-> data[q]]

\* In memory no password is in clear, and somebody can log in unless a change of the
\* password is half done.
MemoryInv ==
  IF boot \in {"truncate", "write", "up"}
  THEN /\ Filled(mem) /\ mem.plain = ""
       /\ serial = TRUE /\ (\A q \in Posts : at[q] \notin {"hash", "store"}) => Opens(mem)
  ELSE mem = Missing

FileInv ==
  \/ file \in {Missing, Empty, Garbled}
  \/ /\ Filled(file)
     /\ Serving => file.plain = ""
     /\ serial = TRUE /\ file.plain = "" => Works(file)

\* A request under way has what its next step takes; by itself, memory and file do
\* not change under its hands.
PostInv(q) ==
  /\ at[q] \in {"hash", "store"} => body[q].password \notin {"", Short}
  /\ at[q] \in {"truncate", "write"} => Filled(data[q]) /\ data[q].plain = ""
  /\ Busy(q) => Serving
  /\ serial = TRUE =>
       /\ at[q] \in {"truncate", "write"} => data[q] = mem
       /\ at[q] = "write" => file = Empty
       /\ at[q] \in {"hash", "store"} => mem.salt # NoSalt
       /\ at[q] = "store" => digest[q] = Hash(body[q].password, mem.salt)

\* What was accepted is settings a start has nothing to make of.
LastInv ==
  serial = TRUE /\ last # Missing =>
    /\ Filled(last) /\ last.plain = "" /\ Opens(last)
    /\ torn = FALSE => file = last /\ boot \notin {"truncate", "write"}

\* What is in memory is saved.
SavedInv == serial = TRUE /\ ahead = FALSE /\ Quiet => file = mem

Apart == serial = TRUE => \A q, r \in Posts : Busy(q) /\ Busy(r) => q = r

AccountInv == /\ PlacesInv /\ MemoryInv /\ FileInv /\ (\A q \in Posts : PostInv(q))
              /\ Apart /\ LastInv /\ SavedInv

-------------------------------------------------------------------------------

\* A record of settings with one field changed.
LEMMA KeptChanges ==
  ASSUME NEW s, Filled(s), NEW x
  PROVE  /\ [s EXCEPT !.user = x]  = Kept(x, s.plain, s.salt, s.hash, s.addr)
         /\ [s EXCEPT !.plain = x] = Kept(s.user, x, s.salt, s.hash, s.addr)
         /\ [s EXCEPT !.salt = x]  = Kept(s.user, s.plain, x, s.hash, s.addr)
         /\ [s EXCEPT !.hash = x]  = Kept(s.user, s.plain, s.salt, x, s.addr)
         /\ [s EXCEPT !.addr = x]  = Kept(s.user, s.plain, s.salt, s.hash, x)
<1>1. s = [kind |-> "settings", user |-> s.user, plain |-> s.plain, salt |-> s.salt,
           hash |-> s.hash, addr |-> s.addr]
  BY DEF Filled, Kept
<1>2. [s EXCEPT !.user = x] = Kept(x, s.plain, s.salt, s.hash, s.addr)
  BY <1>1 DEF Kept
<1>3. [s EXCEPT !.plain = x] = Kept(s.user, x, s.salt, s.hash, s.addr)
  BY <1>1 DEF Kept
<1>4. [s EXCEPT !.salt = x] = Kept(s.user, s.plain, x, s.hash, s.addr)
  BY <1>1 DEF Kept
<1>5. [s EXCEPT !.hash = x] = Kept(s.user, s.plain, s.salt, x, s.addr)
  BY <1>1 DEF Kept
<1>6. [s EXCEPT !.addr = x] = Kept(s.user, s.plain, s.salt, s.hash, x)
  BY <1>1 DEF Kept
<1> QED BY <1>2, <1>3, <1>4, <1>5, <1>6

\* What a record of settings consists of.
LEMMA KeptFields ==
  ASSUME NEW m, NEW u, NEW p, NEW s, NEW h, NEW a, m = Kept(u, p, s, h, a)
  PROVE  Filled(m) /\ m.kind = "settings" /\ m.plain = p /\ m.salt = s /\ m.hash = h
BY DEF Filled, Kept

\* What is no record of settings.
LEMMA Kinds ==
  /\ Missing.kind = "missing" /\ Empty.kind = "empty" /\ Garbled.kind = "garbled"
  /\ \A s : Filled(s) => s.kind = "settings"
<1>1. Missing.kind = "missing" /\ Empty.kind = "empty" /\ Garbled.kind = "garbled"
  BY DEF Missing, Empty, Garbled
<1>2. ASSUME NEW s, Filled(s) PROVE s.kind = "settings"
  BY <1>2, KeptFields DEF Filled
<1> QED BY <1>1, <1>2

\* The invariant gives what the runs check.
LEMMA SettingsFollow == AccountInv => SettingsInv /\ SomebodyCanLogIn
<1> SUFFICES ASSUME AccountInv PROVE SettingsInv /\ SomebodyCanLogIn
  OBVIOUS
<1>1. boot \in {"truncate", "write", "up"} <=> mem.kind = "settings"
  BY Kinds DEF AccountInv, MemoryInv
<1>2. file.kind \in {"missing", "empty", "garbled", "settings"}
  BY Kinds DEF AccountInv, FileInv
<1>3. SettingsTypeOK
  <2>1. \A q \in Posts : at[q] \in {"hash", "store"} => body[q].password \notin {"", Short}
    BY DEF AccountInv, PostInv
  <2> QED BY <1>1, <1>2, <2>1 DEF SettingsTypeOK, AccountInv, PlacesInv, States
<1>4. PlainIsGone
  BY Kinds DEF AccountInv, FileInv, PlainIsGone
<1>5. ASSUME serial, Quiet
      PROVE  CanLogIn(mem.user, mem.hash.password) /\ mem.hash.password # ""
  <2>1. \A q \in Posts : at[q] \notin {"hash", "store"}
    BY <1>5 DEF Quiet, Busy, Ended
  <2>2. serial = TRUE
    BY <1>5 DEF AccountInv, PlacesInv
  <2>3. Opens(mem)
    BY <1>5, <2>1, <2>2 DEF AccountInv, MemoryInv, Quiet, Serving
  <2>4. PICK w : w # "" /\ mem.hash = Hash(w, mem.salt)
    BY <2>3 DEF Opens
  <2>5. Hash(w, mem.salt).password = w
    BY DEF Hash
  <2>6. mem.hash.password = w
    BY <2>4, <2>5
  <2> QED BY <2>4, <2>6 DEF CanLogIn
<1> QED
  <2>1. AcceptedIsSaved
    BY DEF AcceptedIsSaved, AccountInv, PlacesInv, LastInv, SavedInv
  <2> QED BY <1>3, <1>4, <1>5, <2>1 DEF SettingsInv, SomebodyCanLogIn

\* What a step of a request has to see to.
LEMMA PostFrame ==
  ASSUME AccountInv, NEW q \in Posts, NEW there \in States \ {"idle"},
         boot = "up", UNCHANGED <<serial, boot, crashes>>,
         serial = TRUE => \A r \in Posts \ {q} : ~Busy(r),
         at' = [at EXCEPT ![q] = there],
         body' = [r \in Posts |-> body'[r]], digest' = [r \in Posts |-> digest'[r]],
         data' = [r \in Posts |-> data'[r]],
         \A r \in Posts \ {q} : body'[r] = body[r] /\ digest'[r] = digest[r] /\ data'[r] = data[r],
         Filled(mem'), mem'.plain = "",
         serial = TRUE /\ there \notin {"hash", "store"} => Opens(mem'),
         file' \in {Missing, Empty, Garbled} \/
           (Filled(file') /\ file'.plain = "" /\ (serial = TRUE => Works(file'))),
         PostInv(q)', torn' \in BOOLEAN, ahead' \in BOOLEAN,
         there \in {"rejected", "failed"} => ahead' = TRUE,
         serial = TRUE /\ there \notin {"rejected", "failed"} /\ there \in Ended =>
           file' = mem' /\ last' = mem',
         \/ there \in Ended \ {"rejected", "failed"}
         \/ last' = last /\ (torn' = TRUE \/ (torn' = torn /\ file' = file))
  PROVE  AccountInv'
<1>1. at' \in [Posts -> States] /\ at'[q] = there /\ \A r \in Posts \ {q} : at'[r] = at[r]
  BY DEF AccountInv, PlacesInv
<1>2. PlacesInv'
  BY <1>1 DEF AccountInv, PlacesInv
<1>3. MemoryInv'
  BY <1>1 DEF MemoryInv
<1>4. FileInv'
  BY DEF FileInv, Serving
<1>5. ASSUME NEW r \in Posts PROVE PostInv(r)'
  <2>1. CASE r = q
    BY <2>1
  <2>2. CASE r # q
    <3>1. /\ PostInv(r) /\ at'[r] = at[r] /\ body'[r] = body[r] /\ data'[r] = data[r]
          /\ serial = TRUE => ~Busy(r)
      BY <1>1, <2>2 DEF AccountInv
    <3> QED BY <3>1 DEF PostInv, Busy, Ended, Serving
  <2> QED BY <2>1, <2>2
<1>6. Apart'
  BY <1>1 DEF Apart, Busy
<1>7. SavedInv'
  <2>1. serial' = TRUE /\ Quiet' => serial = TRUE /\ there \in Ended
    BY <1>1 DEF Quiet, Busy
  <2> QED BY <2>1 DEF SavedInv
<1>8. LastInv'
  <2>1. CASE there \in Ended \ {"rejected", "failed"}
    BY <2>1 DEF LastInv, Ended
  <2>2. CASE last' = last /\ (torn' = TRUE \/ (torn' = torn /\ file' = file))
    BY <2>2 DEF LastInv, AccountInv
  <2> QED BY <2>1, <2>2
<1> QED BY <1>2, <1>3, <1>4, <1>5, <1>6, <1>7, <1>8 DEF AccountInv

\* What the step of a request finds.
LEMMA PostFinds ==
  ASSUME AccountInv, NEW q \in Posts, Busy(q)
  PROVE  /\ boot = "up" /\ PostInv(q)
         /\ serial = TRUE => \A r \in Posts \ {q} : ~Busy(r)
         /\ Filled(mem) /\ mem.plain = ""
         /\ serial = TRUE /\ at[q] \notin {"hash", "store"} => Opens(mem)
         /\ file \in {Missing, Empty, Garbled} \/
              (Filled(file) /\ file.plain = "" /\ (serial = TRUE => Works(file)))
         /\ at \in [Posts -> States] /\ torn \in BOOLEAN /\ ahead \in BOOLEAN
         /\ body = [r \in Posts |-> body[r]]
         /\ digest = [r \in Posts |-> digest[r]]
         /\ data = [r \in Posts |-> data[r]]
<1>1. boot = "up" /\ PostInv(q)
  BY DEF AccountInv, PostInv, Serving
<1>2. serial = TRUE => \A r \in Posts \ {q} : ~Busy(r)
  BY DEF AccountInv, Apart
<1>3. Filled(mem) /\ mem.plain = ""
  BY <1>1 DEF AccountInv, MemoryInv
<1>4. serial = TRUE /\ at[q] \notin {"hash", "store"} => Opens(mem)
  <2>1. serial = TRUE => \A r \in Posts \ {q} : at[r] \notin {"hash", "store"}
    BY <1>2 DEF Busy, Ended
  <2> QED BY <1>1, <2>1 DEF AccountInv, MemoryInv
<1>5. file \in {Missing, Empty, Garbled} \/
        (Filled(file) /\ file.plain = "" /\ (serial = TRUE => Works(file)))
  BY <1>1 DEF AccountInv, FileInv, Serving
<1> QED BY <1>1, <1>2, <1>3, <1>4, <1>5 DEF AccountInv, PlacesInv

\* A request begins when, under serial, nobody else is at work.
LEMMA ReceiveStep ==
  ASSUME AccountInv, NEW q \in Posts, NEW b, Receive(q, b)
  PROVE  AccountInv'
<1>1. /\ boot = "up" /\ at[q] = "idle" /\ (serial => Quiet)
      /\ UNCHANGED <<serial, file, digest, data, boot, crashes, history>>
      /\ at' = [at EXCEPT ![q] = "password"] /\ body' = [body EXCEPT ![q] = b]
      /\ mem' = IF b.user = "" THEN mem ELSE [mem EXCEPT !.user = b.user]
  BY DEF Receive, Serving, To
<1>2. serial = TRUE => \A r \in Posts : ~Busy(r)
  BY <1>1 DEF Quiet
<1>3. Filled(mem) /\ mem.plain = "" /\ (serial = TRUE => Opens(mem))
  BY <1>1, <1>2 DEF AccountInv, MemoryInv, Busy, Ended
<1>4. Filled(mem') /\ mem'.plain = "" /\ mem'.salt = mem.salt /\ mem'.hash = mem.hash
  <2>1. CASE b.user = ""
    BY <1>1, <1>3, <2>1
  <2>2. CASE b.user # ""
    <3>1. mem' = Kept(b.user, mem.plain, mem.salt, mem.hash, mem.addr)
      BY <1>1, <1>3, <2>2, KeptChanges
    <3>2. Filled(mem') /\ mem'.plain = mem.plain /\ mem'.salt = mem.salt /\ mem'.hash = mem.hash
      BY <3>1, KeptFields
    <3> QED BY <1>3, <3>2
  <2> QED BY <2>1, <2>2
<1>5. serial = TRUE => Opens(mem')
  BY <1>3, <1>4 DEF Opens
<1>6. file' \in {Missing, Empty, Garbled} \/
        (Filled(file') /\ file'.plain = "" /\ (serial = TRUE => Works(file')))
  BY <1>1 DEF AccountInv, FileInv, Serving
<1>7. at'[q] = "password" /\ torn \in BOOLEAN /\ ahead \in BOOLEAN
  BY <1>1 DEF AccountInv, PlacesInv
<1>8. PostInv(q)'
  BY <1>1, <1>7 DEF PostInv, Serving
<1>9. /\ body' = [r \in Posts |-> body'[r]] /\ digest' = [r \in Posts |-> digest'[r]]
      /\ data' = [r \in Posts |-> data'[r]]
      /\ \A r \in Posts \ {q} : body'[r] = body[r] /\ digest'[r] = digest[r] /\ data'[r] = data[r]
  BY <1>1 DEF AccountInv, PlacesInv
<1> QED
  BY <1>1, <1>2, <1>4, <1>5, <1>6, <1>8, <1>7, <1>9, PostFrame DEF States, Ended, history

\* A request that only moves on.
LEMMA MoveStep ==
  ASSUME AccountInv, NEW q \in Posts,
         NoPassword(q) \/ PasswordShort(q) \/ AddrBad(q) \/ WriteFails(q)
  PROVE  AccountInv'
<1>1. PICK there \in {"addr", "rejected", "failed"} :
        /\ at' = [at EXCEPT ![q] = there] /\ at[q] \in {"password", "addr", "write"}
        /\ UNCHANGED <<serial, mem, file, body, digest, data, boot, crashes, last, torn>>
        /\ ahead' = IF there = "addr" THEN ahead ELSE TRUE
  BY DEF NoPassword, PasswordShort, AddrBad, WriteFails, To, history
<1>2. Busy(q)
  BY <1>1 DEF Busy, Ended
<1>3. at'[q] = there
  BY <1>1 DEF AccountInv, PlacesInv
<1>4. PostInv(q)'
  BY <1>1, <1>2, <1>3, PostFinds DEF PostInv, Serving
<1> QED
  BY <1>1, <1>2, <1>4, PostFinds, PostFrame DEF States, Ended, history

\* From here to StoreHash the hash in memory is not that of the salt.
LEMMA DrawSaltStep ==
  ASSUME AccountInv, NEW q \in Posts, DrawSalt(q)
  PROVE  AccountInv'
<1>1. /\ at[q] = "password" /\ body[q].password \notin {"", Short}
      /\ mem' = [mem EXCEPT !.salt = Salt(q)] /\ at' = [at EXCEPT ![q] = "hash"]
      /\ UNCHANGED <<serial, file, body, digest, data, boot, crashes, history>>
  BY DEF DrawSalt, To
<1>2. Busy(q)
  BY <1>1 DEF Busy, Ended
<1>3. Filled(mem') /\ mem'.plain = "" /\ mem'.salt # NoSalt
  <2>1. mem' = Kept(mem.user, mem.plain, Salt(q), mem.hash, mem.addr)
    BY <1>1, <1>2, PostFinds, KeptChanges
  <2>2. Filled(mem') /\ mem'.plain = mem.plain /\ mem'.salt = Salt(q)
    BY <2>1, KeptFields
  <2>3. Salt(q) # NoSalt
    BY PostsAssumption DEF Salt, NoSalt
  <2> QED BY <1>2, <2>2, <2>3, PostFinds
<1>4. at'[q] = "hash"
  BY <1>1 DEF AccountInv, PlacesInv
<1>5. PostInv(q)'
  BY <1>1, <1>2, <1>3, <1>4, PostFinds DEF PostInv, Serving
<1> QED
  BY <1>1, <1>2, <1>3, <1>5, PostFinds, PostFrame DEF States, Ended, history

\* The digest is made with the salt in memory, by itself that of the request.
LEMMA ComputeHashStep ==
  ASSUME AccountInv, NEW q \in Posts, ComputeHash(q)
  PROVE  AccountInv'
<1>1. /\ at[q] = "hash" /\ digest' = [digest EXCEPT ![q] = Hash(body[q].password, mem.salt)]
      /\ at' = [at EXCEPT ![q] = "store"]
      /\ UNCHANGED <<serial, mem, file, body, data, boot, crashes, history>>
  BY DEF ComputeHash, To
<1>2. Busy(q)
  BY <1>1 DEF Busy, Ended
<1>3. /\ digest' = [r \in Posts |-> digest'[r]]
      /\ digest'[q] = Hash(body[q].password, mem.salt)
      /\ \A r \in Posts \ {q} : digest'[r] = digest[r]
  BY <1>1 DEF AccountInv, PlacesInv
<1>4. at'[q] = "store"
  BY <1>1 DEF AccountInv, PlacesInv
<1>5. PostInv(q)'
  BY <1>1, <1>2, <1>3, <1>4, PostFinds DEF PostInv, Serving
<1> QED
  BY <1>1, <1>2, <1>3, <1>5, PostFinds, PostFrame DEF States, Ended, history

\* By itself, the hash stored is that of the salt stored.
LEMMA StoreHashStep ==
  ASSUME AccountInv, NEW q \in Posts, StoreHash(q)
  PROVE  AccountInv'
<1>1. /\ at[q] = "store" /\ mem' = [mem EXCEPT !.hash = digest[q]]
      /\ at' = [at EXCEPT ![q] = "addr"]
      /\ UNCHANGED <<serial, file, body, digest, data, boot, crashes, history>>
  BY DEF StoreHash, To
<1>2. Busy(q)
  BY <1>1 DEF Busy, Ended
<1>3. Filled(mem') /\ mem'.plain = "" /\ mem'.salt = mem.salt /\ mem'.hash = digest[q]
  <2>1. mem' = Kept(mem.user, mem.plain, mem.salt, digest[q], mem.addr)
    BY <1>1, <1>2, PostFinds, KeptChanges
  <2>2. Filled(mem') /\ mem'.plain = mem.plain /\ mem'.salt = mem.salt /\ mem'.hash = digest[q]
    BY <2>1, KeptFields
  <2> QED BY <1>2, <2>2, PostFinds
<1>4. serial = TRUE => Opens(mem')
  <2>1. body[q].password # ""
        /\ (serial = TRUE => digest[q] = Hash(body[q].password, mem.salt) /\ mem.salt # NoSalt)
    BY <1>1, <1>2, PostFinds DEF PostInv
  <2> QED BY <1>3, <2>1 DEF Opens
<1>5. at'[q] = "addr"
  BY <1>1 DEF AccountInv, PlacesInv
<1>6. PostInv(q)'
  BY <1>1, <1>2, <1>5, PostFinds DEF PostInv, Serving
<1> QED
  BY <1>1, <1>2, <1>3, <1>4, <1>6, PostFinds, PostFrame DEF States, Ended, history

\* The last check, and the last field.
LEMMA SetAddrStep ==
  ASSUME AccountInv, NEW q \in Posts, SetAddr(q)
  PROVE  AccountInv'
<1>1. /\ at[q] = "addr" /\ at' = [at EXCEPT ![q] = "marshal"]
      /\ mem' = IF body[q].addr = "" THEN mem ELSE [mem EXCEPT !.addr = body[q].addr]
      /\ UNCHANGED <<serial, file, body, digest, data, boot, crashes, history>>
  BY DEF SetAddr, To
<1>2. Busy(q)
  BY <1>1 DEF Busy, Ended
<1>3. Filled(mem') /\ mem'.plain = "" /\ mem'.salt = mem.salt /\ mem'.hash = mem.hash
  <2>1. CASE body[q].addr = ""
    BY <1>1, <1>2, <2>1, PostFinds
  <2>2. CASE body[q].addr # ""
    <3>1. Filled(mem) /\ mem' = [mem EXCEPT !.addr = body[q].addr]
      BY <1>1, <1>2, <2>2, PostFinds
    <3>2. \A a : [mem EXCEPT !.addr = a] = Kept(mem.user, mem.plain, mem.salt, mem.hash, a)
      BY <3>1, KeptChanges
    <3>3. mem' = Kept(mem.user, mem.plain, mem.salt, mem.hash, body[q].addr)
      BY <3>1, <3>2
    <3>4. Filled(mem') /\ mem'.plain = mem.plain /\ mem'.salt = mem.salt /\ mem'.hash = mem.hash
      BY <3>3, KeptFields
    <3> QED BY <1>2, <3>4, PostFinds
  <2> QED BY <2>1, <2>2
<1>4. serial = TRUE => Opens(mem')
  BY <1>1, <1>2, <1>3, PostFinds DEF Opens
<1>5. at'[q] = "marshal"
  BY <1>1 DEF AccountInv, PlacesInv
<1>6. PostInv(q)'
  BY <1>1, <1>2, <1>5, PostFinds DEF PostInv, Serving
<1> QED
  BY <1>1, <1>2, <1>3, <1>4, <1>6, PostFinds, PostFrame DEF States, Ended, history

\* What will be written is what is in memory.
LEMMA MarshalStep ==
  ASSUME AccountInv, NEW q \in Posts, Marshal(q)
  PROVE  AccountInv'
<1>1. /\ at[q] = "marshal" /\ data' = [data EXCEPT ![q] = mem]
      /\ at' = [at EXCEPT ![q] = "truncate"]
      /\ UNCHANGED <<serial, mem, file, body, digest, boot, crashes, history>>
  BY DEF Marshal, To
<1>2. Busy(q)
  BY <1>1 DEF Busy, Ended
<1>3. /\ data' = [r \in Posts |-> data'[r]] /\ data'[q] = mem
      /\ \A r \in Posts \ {q} : data'[r] = data[r]
  BY <1>1 DEF AccountInv, PlacesInv
<1>4. at'[q] = "truncate"
  BY <1>1 DEF AccountInv, PlacesInv
<1>5. PostInv(q)'
  BY <1>1, <1>2, <1>3, <1>4, PostFinds DEF PostInv, Serving
<1> QED
  BY <1>1, <1>2, <1>3, <1>5, PostFinds, PostFrame DEF States, Ended, history

\* A file that cannot be opened stays, with what it had.
LEMMA TruncateStep ==
  ASSUME AccountInv, NEW q \in Posts, Truncate(q)
  PROVE  AccountInv'
<1>1. PICK there \in {"write", "failed"} :
        /\ at[q] = "truncate" /\ at' = [at EXCEPT ![q] = there]
        /\ file' = IF there = "write" THEN Empty ELSE file
        /\ torn' = IF there = "write" THEN TRUE ELSE torn
        /\ ahead' = IF there = "failed" THEN TRUE ELSE ahead
        /\ UNCHANGED <<serial, mem, body, digest, data, boot, crashes, last>>
  BY DEF Truncate, To
<1>2. Busy(q)
  BY <1>1 DEF Busy, Ended
<1>3. at'[q] = there
  BY <1>1 DEF AccountInv, PlacesInv
<1>4. PostInv(q)'
  BY <1>1, <1>2, <1>3, PostFinds DEF PostInv, Serving
<1>5. file' \in {Missing, Empty, Garbled} \/
        (Filled(file') /\ file'.plain = "" /\ (serial = TRUE => Works(file')))
  BY <1>1, <1>2, PostFinds
<1> QED
  BY <1>1, <1>2, <1>4, <1>5, PostFinds, PostFrame DEF States, Ended, history

\* By itself, a request finds the file empty, so that it is whole afterwards.
LEMMA WriteStep ==
  ASSUME AccountInv, NEW q \in Posts, Write(q)
  PROVE  AccountInv'
<1>1. /\ at[q] = "write" /\ at' = [at EXCEPT ![q] = "accepted"]
      /\ file' = data[q] \/ (file \notin {Empty, data[q]} /\ file' = Garbled)
      /\ last' = data[q] /\ torn' = FALSE /\ ahead' = FALSE
      /\ UNCHANGED <<serial, mem, body, digest, data, boot, crashes>>
  BY DEF Write, To
<1>2. Busy(q)
  BY <1>1 DEF Busy, Ended
<1>3. at'[q] = "accepted"
  BY <1>1 DEF AccountInv, PlacesInv
<1>4. PostInv(q)'
  BY <1>1, <1>3 DEF PostInv, Busy, Ended
<1>5. serial = TRUE => file' = mem /\ last' = mem
  BY <1>1, <1>2, PostFinds DEF PostInv
<1>6. file' \in {Missing, Empty, Garbled} \/
        (Filled(file') /\ file'.plain = "" /\ (serial = TRUE => Works(file')))
  BY <1>1, <1>2, <1>5, PostFinds DEF PostInv, Works
<1> QED
  BY <1>1, <1>2, <1>4, <1>5, <1>6, PostFinds, PostFrame DEF States, Ended, history

\* Every step of a request keeps the invariant.
LEMMA PostStep ==
  ASSUME AccountInv, NEW q \in Posts, PostNext(q)
  PROVE  AccountInv'
BY ReceiveStep, MoveStep, DrawSaltStep, ComputeHashStep, StoreHashStep, SetAddrStep, MarshalStep,
   TruncateStep, WriteStep DEF PostNext

-------------------------------------------------------------------------------

\* The start makes settings that let somebody in of whatever the file is.
LEMMA NormalizedWorks ==
  ASSUME AccountInv, boot = "down", file # Garbled
  PROVE  Filled(Normalized) /\ Normalized.plain = "" /\ (serial = TRUE => Opens(Normalized))
<1>1. (Loaded = file /\ Filled(file)) \/ Loaded = Default
  BY Kinds DEF AccountInv, FileInv, Loaded
<1>2. Filled(Default) /\ Default.plain = "" /\ Hashless(Default)
  <2>1. Filled(Default) /\ Default.plain = "" /\ Default.salt = NoSalt
    BY DEF Default, Kept, Filled
  <2> QED BY <2>1 DEF Hashless
<1>3. Filled(Loaded) /\ (serial = TRUE /\ Loaded.plain = "" => Works(Loaded))
  BY <1>1, <1>2, Kinds DEF AccountInv, FileInv, Works
<1>a. BootSalt # NoSalt
  BY DEF BootSalt, NoSalt
<1>4. ASSUME NEW u, NEW p, p # ""
      PROVE  WithPassword(Loaded, u, p) = Kept(u, Loaded.plain, BootSalt, Hash(p, BootSalt), Loaded.addr)
  <2> DEFINE named  == [Loaded EXCEPT !.user = u]
             salted == [named EXCEPT !.salt = BootSalt]
             hashed == [salted EXCEPT !.hash = Hash(p, BootSalt)]
  <2>1. Loaded = Kept(Loaded.user, Loaded.plain, Loaded.salt, Loaded.hash, Loaded.addr)
    BY <1>3 DEF Filled
  <2>2. named = Kept(u, Loaded.plain, Loaded.salt, Loaded.hash, Loaded.addr)
    BY <1>3, KeptChanges
  <2>3. salted = Kept(u, Loaded.plain, BootSalt, Loaded.hash, Loaded.addr)
    <3> HIDE DEF named
    <3> QED BY <2>2 DEF Kept
  <2>4. hashed = Kept(u, Loaded.plain, BootSalt, Hash(p, BootSalt), Loaded.addr)
    <3> HIDE DEF salted
    <3> QED BY <2>3 DEF Kept
  <2> QED BY <2>4 DEF WithPassword
<1>5. CASE Loaded.plain # ""
  <2> DEFINE made == WithPassword(Loaded, Loaded.user, Loaded.plain)
  <2>1. made = Kept(Loaded.user, Loaded.plain, BootSalt, Hash(Loaded.plain, BootSalt), Loaded.addr)
    BY <1>4, <1>5
  <2>2. Normalized = [made EXCEPT !.plain = ""]
    BY <1>5 DEF Normalized
  <2> HIDE DEF made
  <2>3. Normalized = Kept(Loaded.user, "", BootSalt, Hash(Loaded.plain, BootSalt), Loaded.addr)
    BY <2>1, <2>2 DEF Kept
  <2>4. Filled(Normalized) /\ Normalized.plain = "" /\ Normalized.salt = BootSalt
        /\ Normalized.hash = Hash(Loaded.plain, BootSalt)
    BY <2>3 DEF Kept, Filled
  <2> QED BY <1>5, <1>a, <2>4 DEF Opens
<1>6. CASE Loaded.plain = "" /\ Hashless(Loaded)
  <2>1. Normalized = Kept("admin", "", BootSalt, Hash("admin", BootSalt), Loaded.addr)
    BY <1>4, <1>6 DEF Normalized
  <2>2. Filled(Normalized) /\ Normalized.plain = "" /\ Normalized.salt = BootSalt
        /\ Normalized.hash = Hash("admin", BootSalt)
    BY <2>1 DEF Kept, Filled
  <2> QED BY <1>a, <2>2 DEF Opens
<1>7. CASE Loaded.plain = "" /\ ~Hashless(Loaded)
  <2>1. Normalized = Loaded
    BY <1>7 DEF Normalized
  <2> QED BY <1>3, <1>7, <2>1 DEF Works
<1> QED BY <1>5, <1>6, <1>7

\* A start touches memory and file only, and nobody is served meanwhile.
LEMMA StartKeeps ==
  ASSUME AccountInv, boot # "up", boot' # "down", UNCHANGED <<serial, at, body, digest, data, crashes, last, torn>>,
         boot' \in {"truncate", "write", "up", "refused"},
         IF boot' = "refused" THEN mem' = Missing
         ELSE Filled(mem') /\ mem'.plain = "" /\ (serial = TRUE => Opens(mem')),
         FileInv', boot' = "up" => file' = mem', ahead' \in BOOLEAN,
         serial = TRUE /\ last # Missing /\ torn = FALSE =>
           file' = file /\ boot' \notin {"truncate", "write"}
  PROVE  AccountInv'
<1>1. \A q \in Posts : ~Busy(q)
  BY DEF AccountInv, PostInv, Serving
<1>2. PlacesInv' /\ MemoryInv'
  BY DEF AccountInv, PlacesInv, MemoryInv
<1>3. ASSUME NEW q \in Posts PROVE PostInv(q)'
  BY <1>1 DEF PostInv, Busy, Ended
<1>4. Apart' /\ SavedInv'
  BY <1>1 DEF Apart, Busy, SavedInv, Quiet, Serving
<1>5. LastInv'
  BY DEF LastInv, AccountInv
<1> QED BY <1>2, <1>3, <1>4, <1>5 DEF AccountInv

\* A start that needs no new hash finds the file as it is in memory.
LEMMA LoadStep ==
  ASSUME AccountInv, Load
  PROVE  AccountInv'
<1>1. /\ boot = "down" /\ ahead' = FALSE
      /\ UNCHANGED <<serial, file, at, body, digest, data, crashes, last, torn>>
  BY DEF Load
<1>2. CASE file = Garbled
  <2>1. boot' = "refused" /\ mem' = Missing
    BY <1>1, <1>2 DEF Load, AccountInv, MemoryInv
  <2>2. FileInv'
    BY <1>1, <1>2 DEF FileInv
  <2>3. ~(serial = TRUE /\ last # Missing /\ torn = FALSE)
    BY <1>2, Kinds DEF AccountInv, LastInv
  <2> QED BY <1>1, <2>1, <2>2, <2>3, StartKeeps
<1>3. CASE file # Garbled
  <2>1. mem' = Normalized /\ boot' = IF mem' = file THEN "up" ELSE "truncate"
    BY <1>3 DEF Load
  <2>2. Filled(mem') /\ mem'.plain = "" /\ (serial = TRUE => Opens(mem'))
    BY <1>1, <1>3, <2>1, NormalizedWorks
  <2>3. FileInv'
    BY <1>1, <2>1, <2>2 DEF AccountInv, FileInv, Serving, Works
  <2>4. ASSUME serial = TRUE, last # Missing, torn = FALSE
        PROVE  boot' = "up"
    <3>1. file = last /\ Filled(file) /\ file.plain = "" /\ Opens(file)
      BY <2>4 DEF AccountInv, LastInv
    <3>2. Loaded = file
      BY <3>1, Kinds DEF Loaded
    <3>3. ~Hashless(file)
      <4>1. PICK w : w # "" /\ file.hash = Hash(w, file.salt)
        BY <3>1 DEF Opens
      <4>a. Hash(w, file.salt).password = w
        BY DEF Hash
      <4>2. file.hash.password = w
        BY <4>1, <4>a
      <4>3. NoHash.password = ""
        BY DEF NoHash, Hash
      <4> QED BY <3>1, <4>1, <4>2, <4>3 DEF Opens, Hashless
    <3>4. Normalized = file
      BY <3>1, <3>2, <3>3 DEF Normalized
    <3> QED BY <2>1, <3>4
  <2> QED BY <1>1, <2>1, <2>2, <2>3, <2>4, StartKeeps
<1> QED BY <1>2, <1>3

\* Otherwise it writes it before it serves.
LEMMA BootStep ==
  ASSUME AccountInv, BootTruncate \/ BootWrite
  PROVE  AccountInv'
<1>1. /\ boot \in {"truncate", "write"} /\ boot' \in {"write", "up"}
      /\ UNCHANGED <<serial, mem, at, body, digest, data, crashes, last, torn, ahead>>
      /\ file' = IF boot' = "up" THEN mem ELSE Empty
  BY DEF BootTruncate, BootWrite, history
<1>2. \A q \in Posts : at[q] \notin {"hash", "store"}
  BY <1>1 DEF AccountInv, PostInv, Serving, Busy, Ended
<1>3. Filled(mem') /\ mem'.plain = "" /\ (serial = TRUE => Opens(mem'))
  BY <1>1, <1>2 DEF AccountInv, MemoryInv
<1>4. FileInv'
  BY <1>1, <1>3 DEF FileInv, Works
<1>5. ahead \in BOOLEAN /\ ~(serial = TRUE /\ last # Missing /\ torn = FALSE)
  BY <1>1 DEF AccountInv, LastInv, PlacesInv
<1> QED BY <1>1, <1>3, <1>4, <1>5, StartKeeps

\* What a crash leaves of the file is the file, none or an empty one.
LEMMA CrashStep ==
  ASSUME AccountInv, Crash
  PROVE  AccountInv'
<1>1. /\ boot' = "down" /\ mem' = Missing /\ crashes < MaxCrashes /\ crashes' = crashes + 1
      /\ at' = [q \in Posts |-> IF Busy(q) THEN "lost" ELSE at[q]]
      /\ UNCHANGED <<serial, file, body, digest, data, last, torn, ahead>>
  BY DEF Crash, history
<1>2. crashes' \in 0..MaxCrashes
  BY <1>1, CrashesAssumption DEF AccountInv, PlacesInv
<1>3. \A q \in Posts : at'[q] \in Ended
  BY <1>1 DEF Busy, Ended
<1>4. at' \in [Posts -> States]
  BY <1>1, <1>3 DEF States
<1>5. PlacesInv' /\ MemoryInv' /\ FileInv'
  BY <1>1, <1>2, <1>4 DEF AccountInv, PlacesInv, MemoryInv, FileInv, Serving
<1>6. ASSUME NEW q \in Posts PROVE PostInv(q)'
  BY <1>3 DEF PostInv, Busy, Ended
<1>7. Apart' /\ SavedInv' /\ LastInv'
  BY <1>1, <1>3 DEF Apart, Busy, SavedInv, LastInv, AccountInv, Quiet, Serving
<1> QED BY <1>5, <1>6, <1>7 DEF AccountInv

\* The files of an operator are such that the first start gets along with them.
LEMMA AccountInit == Init => AccountInv
<1> SUFFICES ASSUME Init PROVE AccountInv
  OBVIOUS
<1>1. PlacesInv /\ MemoryInv
  <2>1. 0 \in 0..MaxCrashes
    BY CrashesAssumption
  <2>2. PlacesInv
    BY <2>1 DEF Init, PlacesInv, States, Ended
  <2> QED BY <2>2 DEF Init, MemoryInv
<1>2. FileInv
  <2>1. CASE file = Missing
    BY <2>1 DEF FileInv
  <2>2. CASE file # Missing
    <3>1. Filled(file)
      BY <2>2, FilesAssumption DEF Init, Filled
    <3>2. ~Serving
      BY DEF Init, Serving
    <3>3. file.plain = "" => Works(file)
      <4>1. SUFFICES ASSUME file.plain = "", ~Hashless(file) PROVE Opens(file)
        BY DEF Works
      <4>2. file.hash.password # "" /\ file.hash = Hash(file.hash.password, file.salt)
        BY <2>2, <4>1, FilesAssumption DEF Init
      <4>3. file.salt # NoSalt
        BY <4>1 DEF Hashless
      <4> QED BY <4>2, <4>3 DEF Opens
    <3> QED BY <3>1, <3>2, <3>3 DEF FileInv
  <2> QED BY <2>1, <2>2
<1>3. ASSUME NEW q \in Posts PROVE PostInv(q) /\ ~Busy(q)
  BY DEF Init, PostInv, Busy, Ended
<1>4. Apart /\ SavedInv /\ LastInv
  BY <1>3 DEF Init, Apart, SavedInv, LastInv, Quiet, Serving
<1> QED BY <1>1, <1>2, <1>3, <1>4 DEF AccountInv

\* All steps together.
LEMMA AccountStep == AccountInv /\ [Next]_vars => AccountInv'
<1> SUFFICES ASSUME AccountInv, [Next]_vars PROVE AccountInv'
  OBVIOUS
<1>1. CASE UNCHANGED vars
  BY <1>1 DEF vars, AccountInv, PlacesInv, MemoryInv, FileInv, PostInv, Apart, LastInv, SavedInv,
              Quiet, Serving, Busy, history
<1> QED
  BY <1>1, PostStep, LoadStep, BootStep, CrashStep DEF Next

\* However often the program crashes and is started again, and whatever requests are turned
\* down half-way: one at a time they leave settings with which somebody can log in, what was
\* accepted last is in the file until a later save truncates it, and what is in memory is
\* there unless a request was turned down; no start leaves a password in clear
\* (settings.go:26, 104, 107).
THEOREM SettingsCorrect == Spec => [](SettingsInv /\ SomebodyCanLogIn)
<1> QED BY AccountInit, AccountStep, SettingsFollow, PTL DEF Spec

\* Logins and requests change the settings by the steps of Settings alone.
LEMMA SessionsKeepSettings == [SessionsNext]_allVars => [Next]_vars
<1> SUFFICES ASSUME [SessionsNext]_allVars PROVE [Next]_vars
  OBVIOUS
<1>1. Changes \subseteq Posts /\ ChangeBodies \subseteq Bodies
  BY ChangeAssumption
<1>2. ASSUME ChangeSettings PROVE Next
  BY <1>1, <1>2 DEF ChangeSettings, PostNext, Next
<1>3. ASSUME StartUp \/ LoseSessions PROVE Next
  BY <1>3 DEF StartUp, LoseSessions, Next
<1> QED BY <1>2, <1>3 DEF SessionsNext, allVars

\* The same with logins, and with changes that have to pass auth.
THEOREM AccountCorrect == SessionsSpec => [](SettingsInv /\ SomebodyCanLogIn)
<1>1. SessionsInit => Init
  BY DEF SessionsInit
<1> QED BY <1>1, SessionsKeepSettings, SettingsCorrect, PTL DEF SessionsSpec, Spec

-------------------------------------------------------------------------------
(* The sessions *)

\* What logins and requests are made of.
IsLogin(l) == l = [at |-> l.at, user |-> l.user, password |-> l.password, salt |-> l.salt,
                   pairs |-> l.pairs]
IsVisit(v) == v = [at |-> v.at, cookie |-> v.cookie, ended |-> v.ended,
                   shutdown |-> v.shutdown, token |-> v.token, here |-> v.here]

LoginShape == login = [l \in Logins |-> login[l]] /\ \A l \in Logins : IsLogin(login[l])
VisitShape == visit = [r \in Requests |-> visit[r]] /\ \A r \in Requests : IsVisit(visit[r])

Shapes == LoginShape /\ VisitShape /\ sessions \in [Logins -> {"none", "live", "late"}]

\* A login runs on a serving program and has seen the pair in force; who passed the
\* comparison of the name gave one of the names seen.
InForce == <<mem.user, mem.hash.password>>

LoginInv(l) ==
  /\ login[l].at \in {"idle", "name", "salt", "hash", "insert", "in", "denied", "lost"}
  /\ Under(l) => Serving /\ InForce \in login[l].pairs
  /\ login[l].at \in {"salt", "hash", "insert", "in"} =>
       \E pair \in login[l].pairs : pair[1] = login[l].user
  /\ login[l].at \in {"insert", "in"} =>
       \E pair \in login[l].pairs : pair[2] = login[l].password
  /\ sessions[l] # "none" => login[l].at = "in"

\* A cookie is one of a login that got in, so its session never comes alive again.
VisitInv(r) ==
  /\ visit[r].at \in {"idle", "arrived", "served", "refused", "lost"}
  /\ visit[r].at = "arrived" /\ visit[r].cookie # NoCookie =>
       visit[r].cookie \in Logins /\ login[visit[r].cookie].at = "in"
  /\ visit[r].at = "arrived" /\ visit[r].ended => ~Live(visit[r].cookie)
  /\ ~visit[r].shutdown => visit[r].here
  /\ visit[r].at = "served" =>
       /\ visit[r].ended => visit[r].shutdown /\ visit[r].token = shutdownToken /\ shutdownToken # NoToken
       /\ visit[r].here

SInv == Shapes /\ (\A l \in Logins : LoginInv(l)) /\ (\A r \in Requests : VisitInv(r))

-------------------------------------------------------------------------------

\* A step of one login changes that login alone.
LEMMA OneLogin ==
  ASSUME LoginShape, NEW l \in Logins, NEW r, login' = [login EXCEPT ![l] = r], IsLogin(r)
  PROVE  /\ LoginShape'
         /\ login'[l] = r
         /\ \A m \in Logins \ {l} : login'[m] = login[m]
<1>1. login' = [m \in Logins |-> IF m = l THEN r ELSE login[m]]
  BY DEF LoginShape
<1>2. login'[l] = r /\ \A m \in Logins \ {l} : login'[m] = login[m]
  BY <1>1
<1>3. login' = [m \in Logins |-> login'[m]]
  BY <1>1
<1>4. ASSUME NEW m \in Logins PROVE IsLogin(login'[m])
  BY <1>2 DEF LoginShape
<1> QED BY <1>2, <1>3, <1>4 DEF LoginShape

\* A login that moves on keeps what it is about.
LEMMA LoginMoves ==
  ASSUME LoginShape, NEW l \in Logins, NEW there, login' = [login EXCEPT ![l].at = there]
  PROVE  /\ LoginShape'
         /\ login'[l] = [at |-> there, user |-> login[l].user, password |-> login[l].password,
                         salt |-> login[l].salt, pairs |-> login[l].pairs]
         /\ \A m \in Logins \ {l} : login'[m] = login[m]
<1> DEFINE moved == [at |-> there, user |-> login[l].user, password |-> login[l].password,
                     salt |-> login[l].salt, pairs |-> login[l].pairs]
<1>1. login[l] = [at |-> login[l].at, user |-> login[l].user, password |-> login[l].password,
                  salt |-> login[l].salt, pairs |-> login[l].pairs]
  BY DEF LoginShape, IsLogin
<1>2. [login[l] EXCEPT !.at = there] = moved
  BY <1>1
<1>3. login' = [login EXCEPT ![l] = moved]
  BY <1>2
<1>4. IsLogin(moved)
  BY DEF IsLogin
<1> HIDE DEF moved
<1>5. /\ LoginShape'
      /\ login'[l] = moved
      /\ \A m \in Logins \ {l} : login'[m] = login[m]
  BY <1>3, <1>4, OneLogin
<1> QED BY <1>5 DEF moved

\* So does a step of one request.
LEMMA OneVisit ==
  ASSUME VisitShape, NEW r \in Requests, NEW v, visit' = [visit EXCEPT ![r] = v], IsVisit(v)
  PROVE  /\ VisitShape'
         /\ visit'[r] = v
         /\ \A q \in Requests \ {r} : visit'[q] = visit[q]
<1>1. visit' = [q \in Requests |-> IF q = r THEN v ELSE visit[q]]
  BY DEF VisitShape
<1>2. visit'[r] = v /\ \A q \in Requests \ {r} : visit'[q] = visit[q]
  BY <1>1
<1>3. visit' = [q \in Requests |-> visit'[q]]
  BY <1>1
<1>4. ASSUME NEW q \in Requests PROVE IsVisit(visit'[q])
  BY <1>2 DEF VisitShape
<1> QED BY <1>2, <1>3, <1>4 DEF VisitShape

-------------------------------------------------------------------------------
(* The steps of a login *)

\* What a step of a login has to see to: the requests do not notice as long as who is
\* in stays in and no session of theirs comes alive.
LEMMA LoginFrame ==
  ASSUME SInv, NEW l \in Logins, UNCHANGED <<vars, guarded, shutdownToken, visit>>, LoginShape',
         \A m \in Logins \ {l} : login'[m] = login[m] /\ sessions'[m] = sessions[m],
         sessions' \in [Logins -> {"none", "live", "late"}],
         login[l].at = "in" => /\ login'[l].at = "in"
                               /\ sessions'[l] = "live" => sessions[l] = "live",
         LoginInv(l)'
  PROVE  SInv'
<1>1. UNCHANGED <<mem, boot>>
  BY DEF vars
<1>2. Shapes'
  BY DEF SInv, Shapes, VisitShape
<1>3. ASSUME NEW m \in Logins PROVE LoginInv(m)'
  <2>1. CASE m = l
    BY <2>1
  <2>2. CASE m # l
    BY <1>1, <2>2 DEF SInv, LoginInv, Under, InForce, Serving
  <2> QED BY <2>1, <2>2
<1>4. ASSUME NEW r \in Requests PROVE VisitInv(r)'
  <2>1. VisitInv(r)
    BY DEF SInv
  <2>2. ASSUME visit[r].at = "arrived", visit[r].cookie # NoCookie
        PROVE  visit[r].cookie \in Logins /\ login'[visit[r].cookie].at = "in"
    BY <2>1, <2>2 DEF VisitInv
  <2>3. ASSUME visit[r].at = "arrived", ~Live(visit[r].cookie)
        PROVE  ~(Live(visit[r].cookie)')
    BY <2>1, <2>3 DEF VisitInv, Live
  <2> QED BY <2>1, <2>2, <2>3 DEF VisitInv
<1> QED BY <1>2, <1>3, <1>4 DEF SInv

\* Every step of a login keeps the invariant.
LEMMA LoginStep ==
  ASSUME SInv, NEW l \in Logins, LoginNext(l), UNCHANGED <<vars, guarded, shutdownToken>>
  PROVE  SInv'
<1>a. LoginShape /\ sessions \in [Logins -> {"none", "live", "late"}] /\ LoginInv(l)
  BY DEF SInv, Shapes
<1>b. UNCHANGED <<mem, boot>>
  BY DEF vars
<1>1. ASSUME NEW u \in Names, NEW p \in Words, LogIn(l, u, p) PROVE SInv'
  <2> DEFINE new == [at |-> "name", user |-> u, password |-> p, salt |-> NoSalt,
                     pairs |-> {InForce}]
  <2>1. login' = [login EXCEPT ![l] = new] /\ UNCHANGED <<sessions, visit>>
        /\ Serving /\ login[l].at = "idle"
    BY <1>1 DEF LogIn, InForce
  <2>2. IsLogin(new)
    BY DEF IsLogin
  <2>3. LoginShape' /\ login'[l] = new /\ \A m \in Logins \ {l} : login'[m] = login[m]
    BY <1>a, <2>1, <2>2, OneLogin
  <2>4. LoginInv(l)'
    BY <1>a, <1>b, <2>1, <2>3 DEF LoginInv, Under, Serving, InForce
  <2> QED BY <1>a, <2>1, <2>3, <2>4, LoginFrame
<1>2. ASSUME NEW there, there \in {"salt", "hash", "insert", "in", "denied"}, Under(l),
             login' = [login EXCEPT ![l].at = there], UNCHANGED visit,
             there = "salt" => login[l].at = "name" /\ login[l].user = mem.user,
             there = "hash" => login[l].at = "salt",
             there = "insert" => login[l].at = "hash" /\ login[l].password = mem.hash.password,
             there = "in" => login[l].at = "insert",
             sessions' = IF there = "in" THEN [sessions EXCEPT ![l] = "live"] ELSE sessions
      PROVE  SInv'
  <2>1. /\ LoginShape' /\ \A m \in Logins \ {l} : login'[m] = login[m]
        /\ login'[l] = [at |-> there, user |-> login[l].user, password |-> login[l].password,
                        salt |-> login[l].salt, pairs |-> login[l].pairs]
    BY <1>a, <1>2, LoginMoves
  <2>2. InForce[1] = mem.user /\ InForce[2] = mem.hash.password
    BY DEF InForce
  <2>3. Serving /\ InForce \in login[l].pairs
    BY <1>a, <1>2 DEF LoginInv
  <2>4. there # "denied" => \E pair \in login[l].pairs : pair[1] = login[l].user
    BY <1>a, <1>2, <2>2, <2>3 DEF LoginInv
  <2>5. there \in {"insert", "in"} => \E pair \in login[l].pairs : pair[2] = login[l].password
    BY <1>a, <1>2, <2>2, <2>3 DEF LoginInv
  <2>6. /\ sessions' \in [Logins -> {"none", "live", "late"}]
        /\ \A m \in Logins \ {l} : sessions'[m] = sessions[m]
        /\ sessions'[l] # "none" => there = "in"
    BY <1>a, <1>2 DEF LoginInv, Under
  <2>7. LoginInv(l)'
    BY <1>b, <1>2, <2>1, <2>3, <2>4, <2>5, <2>6 DEF LoginInv, Under, Serving, InForce
  <2>8. login[l].at # "in"
    BY <1>2 DEF Under
  <2> QED BY <1>2, <2>1, <2>6, <2>7, <2>8, LoginFrame
<1>3. ASSUME CompareName(l) PROVE SInv'
  <2>1. CASE login[l].user = mem.user
    BY <1>2, <1>3, <2>1 DEF CompareName, Step, Under
  <2>2. CASE login[l].user # mem.user
    BY <1>2, <1>3, <2>2 DEF CompareName, Step, Under
  <2> QED BY <2>1, <2>2
<1>4. ASSUME ReadSalt(l) PROVE SInv'
  <2> DEFINE new == [at |-> "hash", user |-> login[l].user, password |-> login[l].password,
                     salt |-> mem.salt, pairs |-> login[l].pairs]
  <2>1. login[l].at = "salt" /\ UNCHANGED <<sessions, visit>>
        /\ login' = [login EXCEPT ![l].at = "hash", ![l].salt = mem.salt]
    BY <1>4 DEF ReadSalt
  <2>2. login' = [login EXCEPT ![l] = new]
    <3> DEFINE first == [login EXCEPT ![l].at = "hash"]
    <3>1. login[l] = [at |-> login[l].at, user |-> login[l].user, password |-> login[l].password,
                      salt |-> login[l].salt, pairs |-> login[l].pairs]
      BY <1>a DEF LoginShape, IsLogin
    <3>2. first[l] = [login[l] EXCEPT !.at = "hash"]
      BY <1>a DEF LoginShape
    <3>3. [first[l] EXCEPT !.salt = mem.salt] = new
      BY <3>1, <3>2
    <3>4. login' = [first EXCEPT ![l] = [first[l] EXCEPT !.salt = mem.salt]]
      BY <2>1
    <3>5. login' = [first EXCEPT ![l] = new]
      BY <3>3, <3>4
    <3>6. [first EXCEPT ![l] = new] = [login EXCEPT ![l] = new]
      BY <1>a DEF LoginShape
    <3> QED BY <3>5, <3>6
  <2>3. IsLogin(new)
    BY DEF IsLogin
  <2>4. LoginShape' /\ login'[l] = new /\ \A m \in Logins \ {l} : login'[m] = login[m]
    BY <1>a, <2>2, <2>3, OneLogin
  <2>5. LoginInv(l)'
    <3>1. Serving /\ InForce \in login[l].pairs /\ sessions[l] = "none"
          /\ \E pair \in login[l].pairs : pair[1] = login[l].user
      BY <1>a, <2>1 DEF LoginInv, Under
    <3>2. login'[l].at = "hash" /\ login'[l].user = login[l].user /\ login'[l].pairs = login[l].pairs
      BY <2>4
    <3> QED BY <1>b, <2>1, <3>1, <3>2 DEF LoginInv, Under, Serving, InForce
  <2> QED BY <1>a, <2>1, <2>4, <2>5, LoginFrame
<1>5. ASSUME CompareHash(l) PROVE SInv'
  <2>1. CASE Hash(login[l].password, login[l].salt) = mem.hash
    <3>1. login[l].password = mem.hash.password
      BY <2>1 DEF Hash
    <3> QED BY <1>2, <1>5, <2>1, <3>1 DEF CompareHash, Step, Under
  <2>2. CASE Hash(login[l].password, login[l].salt) # mem.hash
    BY <1>2, <1>5, <2>2 DEF CompareHash, Step, Under
  <2> QED BY <2>1, <2>2
<1>6. ASSUME InsertSession(l) PROVE SInv'
  BY <1>2, <1>6 DEF InsertSession, Step, Under
<1>7. ASSUME LogOut(l) \/ Age(l) PROVE SInv'
  <2>1. UNCHANGED <<login, visit>> /\ login[l].at = "in"
        /\ (sessions' = [sessions EXCEPT ![l] = "none"] \/ sessions' = [sessions EXCEPT ![l] = "late"])
    BY <1>a, <1>7 DEF LogOut, Age, LoginInv
  <2>2. /\ sessions' \in [Logins -> {"none", "live", "late"}] /\ sessions'[l] # "live"
        /\ \A m \in Logins \ {l} : sessions'[m] = sessions[m]
    BY <1>a, <2>1
  <2>3. LoginShape'
    BY <1>a, <2>1 DEF LoginShape
  <2>4. LoginInv(l)'
    BY <1>a, <1>b, <2>1 DEF LoginInv, Under, Serving, InForce
  <2> QED BY <2>1, <2>2, <2>3, <2>4, LoginFrame
<1> QED
  BY <1>1, <1>3, <1>4, <1>5, <1>6, <1>7 DEF LoginNext

-------------------------------------------------------------------------------
(* The steps of a request *)

\* A request sees to itself; a session it sweeps away was late.
LEMMA VisitFrame ==
  ASSUME SInv, NEW r \in Requests, UNCHANGED <<vars, guarded, shutdownToken, login>>, VisitShape',
         \A q \in Requests \ {r} : visit'[q] = visit[q],
         sessions' \in [Logins -> {"none", "live", "late"}],
         \A m \in Logins : sessions'[m] # sessions[m] => sessions[m] # "none" /\ sessions'[m] = "none",
         VisitInv(r)'
  PROVE  SInv'
<1>1. UNCHANGED <<mem, boot>>
  BY DEF vars
<1>2. Shapes'
  BY DEF SInv, Shapes, LoginShape
<1>3. ASSUME NEW m \in Logins PROVE LoginInv(m)'
  BY <1>1 DEF SInv, LoginInv, Under, InForce, Serving
<1>4. ASSUME NEW q \in Requests PROVE VisitInv(q)'
  <2>1. CASE q = r
    BY <2>1
  <2>2. CASE q # r
    <3>1. VisitInv(q) /\ visit'[q] = visit[q]
      BY <2>2 DEF SInv
    <3>2. ASSUME visit[q].at = "arrived", ~Live(visit[q].cookie)
          PROVE  ~(visit[q].cookie # NoCookie /\ sessions'[visit[q].cookie] = "live")
      BY <3>1, <3>2 DEF VisitInv, Live
    <3> QED BY <3>1, <3>2 DEF VisitInv, Live
  <2> QED BY <2>1, <2>2
<1> QED BY <1>2, <1>3, <1>4 DEF SInv

\* A request that is answered, or lost, keeps what it is about.
LEMMA VisitMoves ==
  ASSUME VisitShape, NEW r \in Requests, NEW there, visit' = [visit EXCEPT ![r].at = there]
  PROVE  /\ VisitShape'
         /\ visit'[r] = [at |-> there, cookie |-> visit[r].cookie, ended |-> visit[r].ended,
                         shutdown |-> visit[r].shutdown, token |-> visit[r].token,
                         here |-> visit[r].here]
         /\ \A q \in Requests \ {r} : visit'[q] = visit[q]
<1> DEFINE moved == [at |-> there, cookie |-> visit[r].cookie, ended |-> visit[r].ended,
                     shutdown |-> visit[r].shutdown, token |-> visit[r].token,
                     here |-> visit[r].here]
<1>1. visit[r] = [at |-> visit[r].at, cookie |-> visit[r].cookie, ended |-> visit[r].ended,
                  shutdown |-> visit[r].shutdown, token |-> visit[r].token,
                  here |-> visit[r].here]
  BY DEF VisitShape, IsVisit
<1>2. [visit[r] EXCEPT !.at = there] = moved
  BY <1>1
<1>3. visit' = [visit EXCEPT ![r] = moved]
  BY <1>2
<1>4. IsVisit(moved)
  BY DEF IsVisit
<1> HIDE DEF moved
<1>5. /\ VisitShape'
      /\ visit'[r] = moved
      /\ \A q \in Requests \ {r} : visit'[q] = visit[q]
  BY <1>3, <1>4, OneVisit
<1> QED BY <1>5 DEF moved

\* What Arrive writes is a request with its cookie and what that is worth.
LEMMA VisitArrives ==
  ASSUME VisitShape, NEW r \in Requests, NEW c, NEW e \in BOOLEAN,
         visit' = [visit EXCEPT ![r].at = "arrived", ![r].cookie = c, ![r].ended = e]
  PROVE  /\ VisitShape'
         /\ visit'[r] = [at |-> "arrived", cookie |-> c, ended |-> e,
                         shutdown |-> visit[r].shutdown, token |-> visit[r].token,
                         here |-> visit[r].here]
         /\ \A q \in Requests \ {r} : visit'[q] = visit[q]
<1> DEFINE first  == [visit EXCEPT ![r].at = "arrived"]
           second == [first EXCEPT ![r].cookie = c]
           new    == [at |-> "arrived", cookie |-> c, ended |-> e,
                      shutdown |-> visit[r].shutdown, token |-> visit[r].token,
                      here |-> visit[r].here]
<1>1. visit[r] = [at |-> visit[r].at, cookie |-> visit[r].cookie, ended |-> visit[r].ended,
                  shutdown |-> visit[r].shutdown, token |-> visit[r].token,
                  here |-> visit[r].here]
  BY DEF VisitShape, IsVisit
<1>2. first[r] = [at |-> "arrived", cookie |-> visit[r].cookie, ended |-> visit[r].ended,
                  shutdown |-> visit[r].shutdown, token |-> visit[r].token,
                  here |-> visit[r].here]
  <2>1. first[r] = [visit[r] EXCEPT !.at = "arrived"]
    BY DEF VisitShape
  <2> QED BY <1>1, <2>1
<1>3. second[r] = [at |-> "arrived", cookie |-> c, ended |-> visit[r].ended,
                   shutdown |-> visit[r].shutdown, token |-> visit[r].token,
                   here |-> visit[r].here]
  <2>1. second[r] = [first[r] EXCEPT !.cookie = c]
    BY DEF VisitShape
  <2> QED BY <1>2, <2>1
<1>4. [second[r] EXCEPT !.ended = e] = new
  <2> HIDE DEF second
  <2> QED BY <1>3
<1>5. visit' = [second EXCEPT ![r] = [second[r] EXCEPT !.ended = e]]
  OBVIOUS
<1>6. visit' = [second EXCEPT ![r] = new]
  BY <1>4, <1>5
<1>7. [second EXCEPT ![r] = new] = [visit EXCEPT ![r] = new]
  BY DEF VisitShape
<1>8. visit' = [visit EXCEPT ![r] = new]
  BY <1>6, <1>7
<1>9. IsVisit(new)
  BY DEF IsVisit
<1> HIDE DEF new
<1>10. /\ VisitShape'
       /\ visit'[r] = new
       /\ \A q \in Requests \ {r} : visit'[q] = visit[q]
  BY <1>8, <1>9, OneVisit
<1> QED BY <1>10 DEF new

\* A request that comes has the cookie of somebody who got in, or none.
LEMMA ArriveStep ==
  ASSUME SInv, NEW r \in Requests, NEW c \in Cookies, UNCHANGED <<vars, guarded, shutdownToken>>,
         Arrive(r, c) \/ \E t, here : ArriveToEnd(r, c, t, here)
  PROVE  SInv'
<1>a. VisitShape /\ sessions \in [Logins -> {"none", "live", "late"}] /\ VisitInv(r)
      /\ UNCHANGED <<sessions, login>>
  BY DEF SInv, Shapes, Arrive, ArriveToEnd
<1>b. c # NoCookie => c \in Logins /\ login[c].at = "in"
  BY DEF Cookies
<1>c. PICK e \in BOOLEAN : e = ~Live(c)
  BY DEF Live
<1>1. CASE Arrive(r, c)
  <2>1. /\ VisitShape' /\ \A q \in Requests \ {r} : visit'[q] = visit[q]
        /\ visit'[r] = [at |-> "arrived", cookie |-> c, ended |-> e,
                        shutdown |-> visit[r].shutdown, token |-> visit[r].token,
                        here |-> visit[r].here]
    <3>1. visit' = [visit EXCEPT ![r].at = "arrived", ![r].cookie = c, ![r].ended = e]
      BY <1>c, <1>1 DEF Arrive
    <3> QED BY <1>a, <3>1, VisitArrives
  <2>2. visit'[r].at = "arrived" /\ visit'[r].cookie = c /\ visit'[r].ended = e
        /\ visit'[r].shutdown = visit[r].shutdown /\ visit'[r].here = visit[r].here
    BY <2>1
  <2>3. VisitInv(r)'
    BY <1>a, <1>b, <1>c, <2>2 DEF VisitInv, Live
  <2> QED BY <1>a, <2>1, <2>3, VisitFrame
<1>2. ASSUME NEW t, NEW here, ArriveToEnd(r, c, t, here) PROVE SInv'
  <2> DEFINE new == [at |-> "arrived", cookie |-> c, ended |-> e,
                     shutdown |-> TRUE, token |-> t, here |-> here]
  <2>1. visit' = [visit EXCEPT ![r] = new] /\ IsVisit(new)
    BY <1>c, <1>2 DEF ArriveToEnd, IsVisit
  <2>2. VisitShape' /\ visit'[r] = new /\ \A q \in Requests \ {r} : visit'[q] = visit[q]
    BY <1>a, <2>1, OneVisit
  <2>3. visit'[r].at = "arrived" /\ visit'[r].cookie = c /\ visit'[r].ended = e
        /\ visit'[r].shutdown = TRUE
    BY <2>2
  <2>4. VisitInv(r)'
    BY <1>a, <1>b, <1>c, <2>3 DEF VisitInv, Live
  <2> QED BY <1>a, <2>2, <2>4, VisitFrame
<1> QED BY <1>1, <1>2

\* A request is served for a session that is live, and one to end the program for the token.
LEMMA AdmitStep ==
  ASSUME SInv, NEW r \in Requests, UNCHANGED <<vars, guarded, shutdownToken>>,
         Admit(r) \/ AdmitToEnd(r)
  PROVE  SInv'
<1>a. VisitShape /\ sessions \in [Logins -> {"none", "live", "late"}] /\ VisitInv(r)
      /\ UNCHANGED login /\ visit[r].at = "arrived"
  BY DEF SInv, Shapes, Admit, AdmitToEnd
<1>1. /\ sessions' \in [Logins -> {"none", "live", "late"}]
      /\ \A m \in Logins : sessions'[m] # sessions[m] => sessions[m] # "none" /\ sessions'[m] = "none"
  <2>1. sessions' = sessions \/ \E c : sessions[c] = "late" /\ sessions' = [sessions EXCEPT ![c] = "none"]
    BY DEF Admit, AdmitToEnd, Swept
  <2> QED BY <1>a, <2>1
<1>2. PICK good \in BOOLEAN :
        /\ Answer(r, good)
        /\ good => /\ visit[r].here
                   /\ \/ Live(visit[r].cookie)
                      \/ /\ visit[r].shutdown
                         /\ shutdownToken # NoToken /\ visit[r].token = shutdownToken
  <2>1. CASE Admit(r)
    BY <1>a, <2>1 DEF Admit, VisitInv, Live
  <2>2. CASE AdmitToEnd(r)
    <3> DEFINE ok == visit[r].here /\ \/ Live(visit[r].cookie)
                                      \/ shutdownToken # NoToken /\ visit[r].token = shutdownToken
    <3>1. CASE ok
      <4>1. Answer(r, TRUE)
        BY <2>2, <3>1 DEF AdmitToEnd, Answer
      <4> QED BY <2>2, <3>1, <4>1 DEF AdmitToEnd
    <3>2. CASE ~ok
      <4>1. Answer(r, FALSE)
        BY <2>2, <3>2 DEF AdmitToEnd, Answer
      <4> QED BY <4>1
    <3> QED BY <3>1, <3>2
  <2> QED BY <2>1, <2>2
<1>3. PICK there : /\ visit' = [visit EXCEPT ![r].at = there]
                   /\ there = IF good THEN "served" ELSE "refused"
  BY <1>2 DEF Answer
<1>4. /\ VisitShape' /\ \A q \in Requests \ {r} : visit'[q] = visit[q]
      /\ visit'[r] = [at |-> there, cookie |-> visit[r].cookie, ended |-> visit[r].ended,
                      shutdown |-> visit[r].shutdown, token |-> visit[r].token,
                      here |-> visit[r].here]
  BY <1>a, <1>3, VisitMoves
<1>5. VisitInv(r)'
  BY <1>a, <1>2, <1>3, <1>4 DEF VisitInv
<1> QED BY <1>a, <1>1, <1>4, <1>5, VisitFrame

\* Every step of a request keeps it.
LEMMA VisitStep ==
  ASSUME SInv, VisitNext, UNCHANGED <<vars, guarded, shutdownToken>>
  PROVE  SInv'
<1>1. ASSUME NEW r \in Visits \cup Changes, NEW c \in Cookies, Arrive(r, c) PROVE SInv'
  <2>1. CASE r \in Requests
    BY <1>1, <2>1, ArriveStep
  <2>2. CASE r \notin Requests
    <3>1. UNCHANGED <<sessions, login, visit>>
      BY <1>1, <2>2 DEF Arrive, SInv, Shapes, VisitShape
    <3> QED BY <3>1 DEF SInv, Shapes, LoginShape, VisitShape, LoginInv, VisitInv, Under, InForce,
                        Serving, Live, vars
  <2> QED BY <2>1, <2>2
<1>2. ASSUME NEW v \in Visits, NEW c \in Cookies, NEW t, NEW here, ArriveToEnd(v, c, t, here) PROVE SInv'
  BY <1>2, ArriveStep DEF Requests
<1>3. ASSUME NEW r \in Requests, Admit(r) \/ AdmitToEnd(r) PROVE SInv'
  BY <1>3, AdmitStep
<1> QED BY <1>1, <1>2, <1>3 DEF VisitNext, Requests

-------------------------------------------------------------------------------
(* The steps of the settings and of the program *)

\* A change of the settings adds to what the logins under way have seen.
LEMMA ChangeStep ==
  ASSUME SInv, ChangeSettings, UNCHANGED <<guarded, shutdownToken>>
  PROVE  SInv'
<1>a. LoginShape /\ VisitShape /\ UNCHANGED <<sessions, visit>>
  BY DEF SInv, Shapes, ChangeSettings
<1>1. boot' = boot
  <2>1. (\E q \in Posts : PostNext(q)) \/ \E q \in Posts, b \in Bodies : Receive(q, b)
    BY ChangeAssumption DEF ChangeSettings
  <2> QED
    BY <2>1 DEF PostNext, Receive, NoPassword, PasswordShort, DrawSalt, ComputeHash, StoreHash, AddrBad,
                SetAddr, Marshal, Truncate, Write, WriteFails
<1>2. login' = [l \in Logins |-> login'[l]]
  BY DEF ChangeSettings, Witnessed
<1>3. ASSUME NEW l \in Logins
      PROVE  /\ IsLogin(login'[l])
             /\ login'[l].at = login[l].at
             /\ login'[l].user = login[l].user
             /\ login'[l].password = login[l].password
             /\ login[l].pairs \subseteq login'[l].pairs
             /\ Under(l) => InForce' \in login'[l].pairs
  <2> DEFINE wider == login[l].pairs \cup {InForce'}
  <2>1. login[l] = [at |-> login[l].at, user |-> login[l].user, password |-> login[l].password,
                    salt |-> login[l].salt, pairs |-> login[l].pairs]
    BY <1>a DEF LoginShape, IsLogin
  <2>2. CASE Under(l)
    <3>1. login'[l] = [login[l] EXCEPT !.pairs = wider]
      BY <2>2 DEF ChangeSettings, Witnessed, InForce
    <3>2. login[l].pairs \subseteq wider /\ InForce' \in wider
      OBVIOUS
    <3> HIDE DEF wider
    <3>3. login'[l] = [at |-> login[l].at, user |-> login[l].user,
                       password |-> login[l].password, salt |-> login[l].salt, pairs |-> wider]
      BY <2>1, <3>1
    <3> QED BY <3>2, <3>3 DEF IsLogin
  <2>3. CASE ~Under(l)
    <3>1. login'[l] = login[l]
      BY <2>3 DEF ChangeSettings, Witnessed
    <3> QED BY <1>a, <2>3, <3>1 DEF LoginShape, IsLogin
  <2> QED BY <2>2, <2>3
<1>4. Shapes'
  BY <1>a, <1>2, <1>3 DEF SInv, Shapes, LoginShape, VisitShape
<1>5. ASSUME NEW l \in Logins PROVE LoginInv(l)'
  <2>1. LoginInv(l) /\ sessions'[l] = sessions[l]
    BY <1>a DEF SInv
  <2>2. Under(l) => InForce' \in login'[l].pairs
    BY <1>3
  <2>3. \A pair \in login[l].pairs : pair \in login'[l].pairs
    BY <1>3
  <2> QED BY <1>1, <1>3, <2>1, <2>2, <2>3 DEF LoginInv, Under, Serving
<1>6. ASSUME NEW r \in Requests PROVE VisitInv(r)'
  <2>1. VisitInv(r)
    BY DEF SInv
  <2> QED BY <1>a, <1>3, <2>1 DEF VisitInv, Live
<1> QED BY <1>4, <1>5, <1>6 DEF SInv

\* The program starts with nobody logging in.
LEMMA StartStep ==
  ASSUME SInv, StartUp, UNCHANGED <<guarded, shutdownToken>>
  PROVE  SInv'
<1>1. boot # "up" /\ UNCHANGED <<sessions, login, visit>>
  BY DEF StartUp, sessionVars, Load, BootTruncate, BootWrite
<1>2. Shapes'
  BY <1>1 DEF SInv, Shapes, LoginShape, VisitShape
<1>3. ASSUME NEW l \in Logins PROVE LoginInv(l)'
  <2>1. LoginInv(l)
    BY DEF SInv
  <2> QED BY <1>1, <2>1 DEF LoginInv, Under, Serving
<1>4. ASSUME NEW r \in Requests PROVE VisitInv(r)'
  <2>1. VisitInv(r)
    BY DEF SInv
  <2> QED BY <1>1, <2>1 DEF VisitInv, Live
<1> QED BY <1>2, <1>3, <1>4 DEF SInv

\* The end of the program loses what is under way and every session.
LEMMA LoseStep ==
  ASSUME SInv, LoseSessions, UNCHANGED <<guarded, shutdownToken>>
  PROVE  SInv'
<1>a. LoginShape /\ VisitShape
  BY DEF SInv, Shapes
<1>1. sessions' = [l \in Logins |-> "none"]
  BY DEF LoseSessions
<1>2. ASSUME NEW l \in Logins
      PROVE  \E there : /\ login'[l] = [at |-> there, user |-> login[l].user,
                                       password |-> login[l].password, salt |-> login[l].salt,
                                       pairs |-> login[l].pairs]
                       /\ there = IF Under(l) THEN "lost" ELSE login[l].at
  <2>1. login[l] = [at |-> login[l].at, user |-> login[l].user, password |-> login[l].password,
                    salt |-> login[l].salt, pairs |-> login[l].pairs]
    BY <1>a DEF LoginShape, IsLogin
  <2>2. CASE Under(l)
    <3>1. login'[l] = [login[l] EXCEPT !.at = "lost"]
      BY <2>2 DEF LoseSessions
    <3>2. login'[l] = [at |-> "lost", user |-> login[l].user, password |-> login[l].password,
                       salt |-> login[l].salt, pairs |-> login[l].pairs]
      BY <2>1, <3>1
    <3> QED BY <2>2, <3>2
  <2>3. CASE ~Under(l)
    <3>1. login'[l] = login[l]
      BY <2>3 DEF LoseSessions
    <3> QED BY <2>1, <2>3, <3>1
  <2> QED BY <2>2, <2>3
<1>3. ASSUME NEW r \in Requests
      PROVE  \E there : /\ visit'[r] = [at |-> there, cookie |-> visit[r].cookie,
                                       ended |-> visit[r].ended, shutdown |-> visit[r].shutdown,
                                       token |-> visit[r].token, here |-> visit[r].here]
                       /\ there = IF visit[r].at = "arrived" THEN "lost" ELSE visit[r].at
  <2>1. visit[r] = [at |-> visit[r].at, cookie |-> visit[r].cookie, ended |-> visit[r].ended,
                    shutdown |-> visit[r].shutdown, token |-> visit[r].token,
                    here |-> visit[r].here]
    BY <1>a DEF VisitShape, IsVisit
  <2>2. CASE visit[r].at = "arrived"
    <3>1. visit'[r] = [visit[r] EXCEPT !.at = "lost"]
      BY <2>2 DEF LoseSessions
    <3>2. visit'[r] = [at |-> "lost", cookie |-> visit[r].cookie, ended |-> visit[r].ended,
                       shutdown |-> visit[r].shutdown, token |-> visit[r].token,
                       here |-> visit[r].here]
      BY <2>1, <3>1
    <3> QED BY <2>2, <3>2
  <2>3. CASE visit[r].at # "arrived"
    <3>1. visit'[r] = visit[r]
      BY <2>3 DEF LoseSessions
    <3> QED BY <2>1, <2>3, <3>1
  <2> QED BY <2>2, <2>3
<1>4. ASSUME NEW l \in Logins
      PROVE  /\ IsLogin(login'[l])
             /\ login'[l].user = login[l].user /\ login'[l].password = login[l].password
             /\ login'[l].pairs = login[l].pairs
             /\ login'[l].at = IF Under(l) THEN "lost" ELSE login[l].at
  <2>1. PICK there : /\ login'[l] = [at |-> there, user |-> login[l].user,
                                    password |-> login[l].password, salt |-> login[l].salt,
                                    pairs |-> login[l].pairs]
                     /\ there = IF Under(l) THEN "lost" ELSE login[l].at
    BY <1>2
  <2> QED BY <2>1 DEF IsLogin
<1>5. ASSUME NEW r \in Requests
      PROVE  /\ IsVisit(visit'[r])
             /\ visit'[r].ended = visit[r].ended /\ visit'[r].shutdown = visit[r].shutdown
             /\ visit'[r].token = visit[r].token /\ visit'[r].here = visit[r].here
             /\ visit'[r].at = IF visit[r].at = "arrived" THEN "lost" ELSE visit[r].at
  <2>1. PICK there : /\ visit'[r] = [at |-> there, cookie |-> visit[r].cookie,
                                    ended |-> visit[r].ended, shutdown |-> visit[r].shutdown,
                                    token |-> visit[r].token, here |-> visit[r].here]
                     /\ there = IF visit[r].at = "arrived" THEN "lost" ELSE visit[r].at
    BY <1>3
  <2> QED BY <2>1 DEF IsVisit
<1>6. Shapes'
  <2>1. login' = [l \in Logins |-> login'[l]] /\ visit' = [r \in Requests |-> visit'[r]]
    BY DEF LoseSessions
  <2> QED BY <1>1, <1>4, <1>5, <2>1 DEF Shapes, LoginShape, VisitShape
<1>7. ASSUME NEW l \in Logins PROVE LoginInv(l)'
  <2>1. LoginInv(l) /\ sessions'[l] = "none"
    BY <1>1 DEF SInv
  <2> QED BY <1>4, <2>1 DEF LoginInv, Under
<1>8. ASSUME NEW r \in Requests PROVE VisitInv(r)'
  <2>1. VisitInv(r)
    BY DEF SInv
  <2> QED BY <1>5, <2>1 DEF VisitInv
<1> QED BY <1>6, <1>7, <1>8 DEF SInv

-------------------------------------------------------------------------------

\* Nobody is logged in at first.
LEMMA SInvInit == SessionsInit => SInv
<1> SUFFICES ASSUME SessionsInit PROVE SInv
  OBVIOUS
<1>1. ASSUME NEW l \in Logins PROVE IsLogin(login[l]) /\ LoginInv(l)
  BY DEF SessionsInit, NewLogin, IsLogin, LoginInv, Under
<1>2. ASSUME NEW r \in Requests PROVE IsVisit(visit[r]) /\ VisitInv(r)
  BY DEF SessionsInit, NewVisit, IsVisit, VisitInv
<1>3. /\ login = [l \in Logins |-> login[l]] /\ visit = [r \in Requests |-> visit[r]]
      /\ sessions \in [Logins -> {"none", "live", "late"}]
  BY DEF SessionsInit
<1> QED BY <1>1, <1>2, <1>3 DEF SInv, Shapes, LoginShape, VisitShape

\* All steps together.
LEMMA SInvStep == SInv /\ [SessionsNext]_allVars => SInv'
<1> SUFFICES ASSUME SInv, [SessionsNext]_allVars PROVE SInv'
  OBVIOUS
<1>1. CASE ChangeSettings /\ UNCHANGED <<guarded, shutdownToken>>
  BY <1>1, ChangeStep
<1>2. CASE StartUp /\ UNCHANGED <<guarded, shutdownToken>>
  BY <1>2, StartStep
<1>3. CASE LoseSessions /\ UNCHANGED <<guarded, shutdownToken>>
  BY <1>3, LoseStep
<1>4. ASSUME NEW l \in Logins, LoginNext(l), UNCHANGED <<vars, guarded, shutdownToken>> PROVE SInv'
  BY <1>4, LoginStep
<1>5. CASE VisitNext /\ UNCHANGED <<vars, guarded, shutdownToken>>
  BY <1>5, VisitStep
<1>6. CASE UNCHANGED allVars
  BY <1>6 DEF SInv, Shapes, LoginShape, VisitShape, LoginInv, VisitInv, Under, InForce, Serving, Live,
              allVars, sessionVars, vars
<1> QED
  BY <1>1, <1>2, <1>3, <1>4, <1>5, <1>6 DEF SessionsNext

\* So the invariant holds throughout.
LEMMA SInvHolds == SessionsSpec => []SInv
<1> QED BY SInvInit, SInvStep, PTL DEF SessionsSpec

\* Whoever holds a session gave a name and a password that were in force while the login
\* ran, and nobody is served without a session that lives or the daemon's token, for any
\* number of logins, requests and changes of the settings, in any overlap, rejected ones
\* and crashes included (web.go:317, 361, 382).
THEOREM SessionsCorrect == SessionsSpec => []SessionsInv
<1>1. ASSUME SInv PROVE SessionsInv
  <2>1. SessionsTypeOK
    BY <1>1 DEF SInv, Shapes, LoginInv, VisitInv, SessionsTypeOK
  <2>2. ServedHadSession
    BY <1>1 DEF SInv, VisitInv, ServedHadSession
  <2>3. LoginKnew
    BY <1>1 DEF SInv, LoginInv, LoginKnew
  <2> QED BY <2>1, <2>2, <2>3 DEF SessionsInv
<1> QED BY <1>1, SInvHolds, PTL

==============================================================================
