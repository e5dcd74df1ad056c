--------------------------- MODULE AccountsProofs ---------------------------
(***************************************************************************)
(* Proofs about Accounts, for any names, passwords and size of the table.  *)
(***************************************************************************)
EXTENDS Accounts, SequenceTheorems, TLAPS

Idle == pc \in {"boot", "idle"}

(* The table in memory: no name twice, root first. *)
TableOk ==
  /\ \A i, j \in 1..Len(users) : users[i].name = users[j].name => i = j
  /\ Len(users) > 0 => users[1].name = Root
  /\ pc = "boot" => Len(users) = 0
  /\ pc # "boot" => Len(users) > 0

(* /passwd holds k users and then zeroes. *)
DiskLen(k) ==
  /\ \A i \in 1..k : passwd[i] \in Entries
  /\ \A i \in 1..MAX_USER : i > k => passwd[i] = NoUser

(* So does loadUsers() find them: no name twice, root first. *)
DiskOk ==
  /\ \E k \in 0..MAX_USER : DiskLen(k)
  /\ \A i, j \in 1..MAX_USER :
       passwd[i] # NoUser /\ passwd[j] # NoUser /\ passwd[i].name = passwd[j].name => i = j
  /\ passwd[1] # NoUser => passwd[1].name = Root

(* What flushUsers() has written so far. *)
FlushOk ==
  /\ pc = "write" =>
       /\ off <= Len(users)
       /\ \A i \in 1..off : passwd[i] = users[i]
       /\ \A i \in 1..MAX_USER : i > off => passwd[i] = NoUser
  /\ pc \in {"mkdir", "chown"} => \A i \in 1..Len(users) : passwd[i] = users[i]

(* The running call and the table it has changed. *)
CallOk ==
  /\ Idle => call = NoCall
  /\ ~Idle => /\ call.name \in Names /\ call.op \in {"lbegin", "add", "delete"}
              /\ call.op # "delete" => users[Len(users)].name = call.name
              /\ call.op = "delete" =>
                   /\ pc \notin {"mkdir", "chown"}
                   /\ \A i \in 1..Len(users) : users[i].name # call.name
              /\ call.op = "lbegin" => session = NoUser

(* Who is logged in. *)
SessionOk ==
  /\ SessionKept
  /\ session = NoUser => userIdx \in {-1, 0}
  /\ pc = "boot" => session = NoUser

(* What the calls that returned 0 have promised is in memory, except       *)
(* before lbegin(), and on the disk, except while flushUsers() writes.     *)
AckOk == \A n \in Names \ {Root} :
  /\ acked[n] \in Passwords =>
       /\ home[n] = n
       /\ pc # "boot" =>
            \E i \in 1..Len(users) : users[i].name = n /\ users[i].pw = acked[n]
       /\ pc # "write" =>
            \E i \in 1..MAX_USER :
              passwd[i] # NoUser /\ passwd[i].name = n /\ passwd[i].pw = acked[n]
  /\ acked[n] = Deleted =>
       /\ \A i \in 1..Len(users) : users[i].name # n
       /\ \A i \in 1..MAX_USER : passwd[i] # NoUser => passwd[i].name # n

IInv == TypeOK /\ TableOk /\ DiskOk /\ FlushOk /\ CallOk /\ SessionOk /\ AckOk

-----------------------------------------------------------------------------
USE AccountsConstants, AccountsValues

(* The entries of /passwd and NoUser are told apart. *)
LEMMA EntryFacts ==
  ASSUME NEW e \in Entries
  PROVE  e # NoUser /\ e.name \in Names /\ e.pw \in Passwords /\ e.name # NoUser
BY DEF Entries

(* What loadUsers() finds is what is before the zeroes. *)
LEMMA OnDiskIs ==
  ASSUME NEW k \in 0..MAX_USER, DiskLen(k)
  PROVE  OnDisk = [i \in 1..k |-> passwd[i]]
<1> DEFINE P(n) == /\ \A i \in 1..n : passwd[i] # NoUser
                   /\ n = MAX_USER \/ passwd[n + 1] = NoUser
           m == CHOOSE n \in 0..MAX_USER : P(n)
<1>1. P(k)
  BY EntryFacts DEF DiskLen
<1>2. m \in 0..MAX_USER /\ P(m)
  BY <1>1
<1>3. ASSUME NEW n \in 0..MAX_USER, P(n)  PROVE n = k
  <2>1. CASE n > k
    <3>1. n \in 1..n /\ n \in 1..MAX_USER
      BY <2>1
    <3> QED BY <3>1, <2>1, <1>3 DEF DiskLen
  <2>2. CASE n < k
    <3>1. n + 1 \in 1..k /\ n # MAX_USER
      BY <2>2
    <3> QED BY <3>1, <1>3, EntryFacts DEF DiskLen
  <2> QED BY <2>1, <2>2
<1>4. m = k
  BY <1>2, <1>3
<1> HIDE DEF P
<1> QED BY <1>4 DEF OnDisk, P

(* ... as a sequence. *)
LEMMA OnDiskSeq ==
  ASSUME NEW k \in 0..MAX_USER, DiskLen(k)
  PROVE  /\ OnDisk \in Seq(Entries) /\ Len(OnDisk) = k /\ DOMAIN OnDisk = 1..k
         /\ \A i \in 1..k : OnDisk[i] = passwd[i]
         /\ OnDisk = <<>> <=> k = 0
<1>1. OnDisk = [i \in 1..k |-> passwd[i]]
  BY OnDiskIs
<1>2. OnDisk \in Seq(Entries) /\ Len(OnDisk) = k /\ DOMAIN OnDisk = 1..k
  BY <1>1 DEF DiskLen
<1>3. OnDisk = <<>> <=> Len(OnDisk) = 0
  BY <1>2
<1> QED BY <1>1, <1>2, <1>3

(* deleteUser() moves the entries after the user's down by one. *)
LEMMA Removed ==
  ASSUME NEW s \in Seq(Entries), NEW i \in 1..Len(s)
  PROVE  /\ RemoveAt(s, i) \in Seq(Entries) /\ Len(RemoveAt(s, i)) = Len(s) - 1
         /\ \A j \in 1..(Len(s) - 1) : RemoveAt(s, i)[j] = s[IF j < i THEN j ELSE j + 1]
<1> DEFINE a == SubSeq(s, 1, i - 1)
           b == SubSeq(s, i + 1, Len(s))
<1>1. a \in Seq(Entries) /\ Len(a) = i - 1 /\ \A j \in 1..(i - 1) : a[j] = s[j]
  BY SubSeqProperties
<1>2. b \in Seq(Entries) /\ Len(b) = Len(s) - i /\ \A j \in 1..(Len(s) - i) : b[j] = s[i + j]
  BY SubSeqProperties
<1> HIDE DEF a, b
<1>3. a \o b \in Seq(Entries) /\ Len(a \o b) = Len(s) - 1
  BY <1>1, <1>2
<1>4. ASSUME NEW j \in 1..(Len(s) - 1)
      PROVE  (a \o b)[j] = s[IF j < i THEN j ELSE j + 1]
  <2>1. (a \o b)[j] = IF j <= Len(a) THEN a[j] ELSE b[j - Len(a)]
    BY <1>1, <1>2, ConcatProperties
  <2>2. CASE j < i
    BY <2>1, <2>2, <1>1
  <2>3. CASE ~(j < i)
    <3>1. j - (i - 1) \in 1..(Len(s) - i) /\ i + (j - (i - 1)) = j + 1
      BY <2>3
    <3> QED BY <3>1, <2>1, <2>3, <1>1, <1>2
  <2> QED BY <2>2, <2>3
<1> QED BY <1>3, <1>4 DEF RemoveAt, a, b

(* addUser() keeps the entries and adds one. *)
LEMMA Appended ==
  ASSUME NEW s \in Seq(Entries), NEW e \in Entries
  PROVE  /\ Append(s, e) \in Seq(Entries) /\ Len(Append(s, e)) = Len(s) + 1
         /\ \A j \in 1..Len(s) : Append(s, e)[j] = s[j]
         /\ Append(s, e)[Len(s) + 1] = e
OBVIOUS

-----------------------------------------------------------------------------
(* The users of the table have names and passwords. *)
LEMMA UserFacts ==
  ASSUME TypeOK, NEW i \in 1..Len(users)
  PROVE  users[i] \in Entries /\ users[i].name \in Names /\ users[i].pw \in Passwords
<1>1. users[i] \in Entries
  BY DEF TypeOK
<1> QED BY <1>1, EntryFacts

(* So do the entries of /passwd. *)
LEMMA PasswdFacts ==
  ASSUME TypeOK, NEW i \in 1..MAX_USER, passwd[i] # NoUser
  PROVE  passwd[i] \in Entries /\ passwd[i].name \in Names /\ passwd[i].pw \in Passwords
<1>1. passwd[i] \in Entries
  BY DEF TypeOK
<1> QED BY <1>1, EntryFacts

(* whoami() reads an entry that there is. *)
LEMMA WhoamiType ==
  ASSUME IInv
  PROVE  whoami \in Names \union {NoUser}
<1>1. CASE users # <<>> /\ userIdx # -1
  <2>1. Len(users) > 0
    BY <1>1 DEF IInv, TypeOK
  <2>2. userIdx + 1 \in 1..Len(users)
    BY <1>1, <2>1 DEF IInv, TypeOK, SessionOk, SessionKept
  <2> QED BY <2>2, <1>1, UserFacts DEF whoami, IInv
<1> QED BY <1>1 DEF whoami

(* The names that loadUsers() finds. *)
LEMMA DiskNames ==
  ASSUME TypeOK, DiskOk
  PROVE  /\ NamesOf(OnDisk) = {passwd[i].name : i \in {j \in 1..MAX_USER : passwd[j] # NoUser}}
         /\ Range(OnDisk) = {passwd[i] : i \in {j \in 1..MAX_USER : passwd[j] # NoUser}}
<1>1. PICK k \in 0..MAX_USER : DiskLen(k)
  BY DEF DiskOk
<1>2. DOMAIN OnDisk = 1..k /\ \A i \in 1..k : OnDisk[i] = passwd[i]
  BY <1>1, OnDiskSeq
<1>3. {j \in 1..MAX_USER : passwd[j] # NoUser} = 1..k
  BY <1>1, EntryFacts DEF DiskLen
<1> QED BY <1>2, <1>3 DEF NamesOf, Range

(* The strengthened invariant implies the three properties. *)
LEMMA Implied ==
  ASSUME IInv
  PROVE  RootFirst /\ Acknowledged /\ SessionKept
<1> USE DEF IInv
<1>1. PICK k \in 0..MAX_USER : DiskLen(k)
  BY DEF DiskOk
<1>2. WellFormed(OnDisk)
  <2>1. /\ DOMAIN OnDisk = 1..k /\ \A i \in 1..k : OnDisk[i] = passwd[i]
        /\ OnDisk = <<>> <=> k = 0
    BY <1>1, OnDiskSeq
  <2>2. \A i \in 1..k : i \in 1..MAX_USER /\ passwd[i] # NoUser
    BY <1>1, EntryFacts DEF DiskLen
  <2> QED BY <2>1, <2>2 DEF WellFormed, DiskOk
<1>3. WellFormed(users) /\ (pc = "idle" => users # <<>>)
  <2>1. DOMAIN users = 1..Len(users) /\ (users # <<>> <=> Len(users) > 0)
    BY DEF TypeOK
  <2> QED BY <2>1 DEF WellFormed, TableOk
<1>4. Acknowledged
  <2> SUFFICES ASSUME NEW n \in Names \ {Root}
      PROVE  /\ acked[n] \in Passwords =>
                  /\ pc # "write" => [name |-> n, pw |-> acked[n]] \in Range(OnDisk)
                  /\ home[n] = n
             /\ acked[n] = Deleted => n \notin NamesOf(users) \union NamesOf(OnDisk)
    BY DEF Acknowledged
  <2>1. ASSUME acked[n] \in Passwords, pc # "write"
        PROVE  [name |-> n, pw |-> acked[n]] \in Range(OnDisk)
    <3>1. PICK i \in 1..MAX_USER :
            passwd[i] # NoUser /\ passwd[i].name = n /\ passwd[i].pw = acked[n]
      BY <2>1 DEF AckOk
    <3>2. passwd[i] = [name |-> n, pw |-> acked[n]]
      BY <3>1, PasswdFacts DEF Entries
    <3> QED BY <3>1, <3>2, DiskNames
  <2>2. ASSUME acked[n] = Deleted
        PROVE  n \notin NamesOf(users) \union NamesOf(OnDisk)
    <3>1. n \notin NamesOf(OnDisk)
      BY <2>2, DiskNames DEF AckOk
    <3>2. n \notin NamesOf(users)
      BY <2>2 DEF AckOk, NamesOf, TypeOK
    <3> QED BY <3>1, <3>2
  <2> QED BY <2>1, <2>2 DEF AckOk
<1> QED BY <1>2, <1>3, <1>4 DEF RootFirst, SessionOk

-----------------------------------------------------------------------------
(* The first state. *)
LEMMA InitIInv ==
  ASSUME Init
  PROVE  IInv
<1> USE DEF Init
<1>1. TypeOK
  BY DEF TypeOK, NoCall
<1>2. TableOk /\ FlushOk /\ CallOk
  BY DEF TableOk, FlushOk, CallOk, Idle
<1>3. DiskOk
  <2>1. DiskLen(0) /\ 0 \in 0..MAX_USER
    BY DEF DiskLen
  <2> QED BY <2>1 DEF DiskOk
<1>4. SessionOk /\ AckOk
  BY DEF SessionOk, SessionKept, AckOk
<1> QED BY <1>1, <1>2, <1>3, <1>4 DEF IInv

(* flushUsers() opens /passwd. *)
LEMMA OpenStep ==
  ASSUME IInv, FlushOpen
  PROVE  IInv'
<1> USE DEF IInv, FlushOpen, disk
<1>1. TypeOK'
  BY DEF TypeOK
<1>2. TableOk'
  BY DEF TableOk
<1>3. DiskOk'
  BY DEF DiskOk, DiskLen
<1>4. FlushOk'
  BY DEF FlushOk
<1>5. CallOk'
  BY DEF CallOk, Idle
<1>6. SessionOk'
  BY DEF SessionOk, SessionKept
<1>7. AckOk'
  BY DEF AckOk
<1> QED BY <1>1, <1>2, <1>3, <1>4, <1>5, <1>6, <1>7

(* chmod() of /passwd. *)
LEMMA ChmodStep ==
  ASSUME IInv, NEW m \in SUBSET {"usr", "oth"}, Chmod(m)
  PROVE  IInv'
<1> USE DEF IInv, Chmod
<1>1. TypeOK'
  BY DEF TypeOK
<1>2. TableOk'
  BY DEF TableOk
<1>3. DiskOk'
  BY DEF DiskOk, DiskLen
<1>4. FlushOk'
  BY DEF FlushOk
<1>5. CallOk'
  BY DEF CallOk, Idle
<1>6. SessionOk'
  BY DEF SessionOk, SessionKept
<1>7. AckOk'
  BY DEF AckOk
<1> QED BY <1>1, <1>2, <1>3, <1>4, <1>5, <1>6, <1>7

(* login() names an entry of the table. *)
LEMMA LoginStep ==
  ASSUME IInv, NEW n \in Names, Login(n)
  PROVE  IInv'
<1> USE DEF IInv, Login, disk
<1>1. TypeOK'
  BY DEF TypeOK
<1>2. TableOk'
  BY DEF TableOk
<1>3. DiskOk'
  BY DEF DiskOk, DiskLen
<1>4. FlushOk'
  BY DEF FlushOk
<1>5. CallOk'
  BY DEF CallOk, Idle, NoCall
<1>6. SessionOk'
  BY DEF SessionOk, SessionKept, TypeOK
<1>7. AckOk'
  BY DEF AckOk
<1> QED BY <1>1, <1>2, <1>3, <1>4, <1>5, <1>6, <1>7

(* flushUsers() may not write: the call returns -1. *)
LEMMA DeniedStep ==
  ASSUME IInv, FlushDenied
  PROVE  IInv'
<1> USE DEF IInv, FlushDenied, Return, disk
<1>1. acked' = acked
  BY DEF TypeOK
<1>2. TypeOK'
  <2>1. userIdx' \in -1..(MAX_USER - 1) /\ off' \in 0..MAX_USER
    BY DEF TypeOK
  <2>2. call' \in [op : {"none", "lbegin", "add", "delete"}, name : Names \union {NoUser}]
    BY DEF NoCall
  <2> QED BY <1>1, <2>1, <2>2 DEF TypeOK
<1>3. TableOk'
  BY DEF TableOk
<1>4. DiskOk'
  BY DEF DiskOk, DiskLen
<1>5. FlushOk'
  BY DEF FlushOk
<1>6. CallOk'
  BY DEF CallOk, Idle
<1>7. SessionOk'
  BY DEF SessionOk, SessionKept, CallOk, Idle
<1>8. AckOk'
  BY <1>1 DEF AckOk
<1> QED BY <1>2, <1>3, <1>4, <1>5, <1>6, <1>7, <1>8

(* cleari() of /passwd. *)
LEMMA ClearStep ==
  ASSUME IInv, FlushClear
  PROVE  IInv'
<1> USE DEF IInv, FlushClear
<1>1. TypeOK'
  BY DEF TypeOK
<1>2. TableOk'
  BY DEF TableOk
<1>3. DiskOk'
  <2>1. DiskLen(0)' /\ 0 \in 0..MAX_USER
    BY DEF DiskLen
  <2> QED BY <2>1 DEF DiskOk
<1>4. FlushOk'
  BY DEF FlushOk, TypeOK
<1>5. CallOk'
  BY DEF CallOk, Idle
<1>6. SessionOk'
  BY DEF SessionOk, SessionKept
<1>7. AckOk'
  BY DEF AckOk
<1> QED BY <1>1, <1>2, <1>3, <1>4, <1>5, <1>6, <1>7

(* filewrite() of the next user. *)
LEMMA WriteStep ==
  ASSUME IInv, FlushWrite
  PROVE  IInv'
<1> USE DEF IInv, FlushWrite
<1>1. off + 1 \in 1..Len(users) /\ off + 1 \in 1..MAX_USER /\ off \in 0..MAX_USER
  BY DEF TypeOK
<1>2. /\ passwd'[off + 1] = users[off + 1]
      /\ \A i \in 1..MAX_USER : i # off + 1 => passwd'[i] = passwd[i]
  BY <1>1 DEF TypeOK
<1>3. \A i \in 1..(off + 1) : i \in 1..Len(users) /\ i \in 1..MAX_USER /\ passwd'[i] = users[i]
  <2> SUFFICES ASSUME NEW i \in 1..(off + 1)
      PROVE  i \in 1..Len(users) /\ i \in 1..MAX_USER /\ passwd'[i] = users[i]
    OBVIOUS
  <2>1. i \in 1..Len(users) /\ i \in 1..MAX_USER
    BY <1>1 DEF TypeOK
  <2>2. i # off + 1 => i \in 1..off
    BY <1>1
  <2> QED BY <2>1, <2>2, <1>2 DEF FlushOk
<1>4. \A i \in 1..MAX_USER : i > off + 1 => passwd'[i] = NoUser
  BY <1>1, <1>2 DEF FlushOk
<1>5. TypeOK'
  BY <1>1, UserFacts DEF TypeOK
<1>6. TableOk'
  BY DEF TableOk
<1>7. DiskOk'
  <2>1. PICK k \in 0..MAX_USER : k = off + 1
    BY <1>1
  <2>2. DiskLen(k)'
    BY <2>1, <1>3, <1>4, UserFacts DEF DiskLen
  <2>3. \A i \in 1..MAX_USER : passwd'[i] # NoUser => i \in 1..Len(users) /\ passwd'[i] = users[i]
    BY <1>1, <1>3, <1>4
  <2>4. 1 \in 1..MAX_USER
    OBVIOUS
  <2>5. DiskLen(k)' => (\E n \in 0..MAX_USER : DiskLen(n))'
    OBVIOUS
  <2> QED BY <2>2, <2>3, <2>4, <2>5 DEF DiskOk, TableOk
<1>8. FlushOk'
  BY <1>1, <1>3, <1>4 DEF FlushOk
<1>9. CallOk'
  BY DEF CallOk, Idle
<1>10. SessionOk'
  BY DEF SessionOk, SessionKept
<1>11. AckOk'
  <2>1. \A i \in 1..MAX_USER : passwd'[i] # NoUser => i \in 1..Len(users) /\ passwd'[i] = users[i]
    BY <1>1, <1>3, <1>4
  <2> QED BY <2>1 DEF AckOk
<1> QED BY <1>5, <1>6, <1>7, <1>8, <1>9, <1>10, <1>11

(* What Return() leaves: the call is over. *)
LEMMA Returned ==
  ASSUME IInv, ~Idle, Return(TRUE)
  PROVE  /\ pc' = "idle" /\ call' = NoCall
         /\ userIdx' \in -1..(MAX_USER - 1) /\ off' \in 0..MAX_USER
         /\ call' \in [op : {"none", "lbegin", "add", "delete"}, name : Names \union {NoUser}]
         /\ acked' \in [Names -> Passwords \union {NoUser, Deleted}]
         /\ \A n \in Names : n # call.name => acked'[n] = acked[n]
         /\ acked'[call.name] = IF call.op = "delete" THEN Deleted ELSE users[Len(users)].pw
<1> USE DEF Return, IInv
<1>1. call.name \in Names /\ Len(users) \in 1..Len(users)
  BY DEF CallOk, TypeOK, TableOk, Idle
<1>2. users[Len(users)].pw \in Passwords
  BY <1>1, UserFacts
<1>3. /\ acked' \in [Names -> Passwords \union {NoUser, Deleted}]
      /\ \A n \in Names : n # call.name => acked'[n] = acked[n]
      /\ acked'[call.name] = IF call.op = "delete" THEN Deleted ELSE users[Len(users)].pw
  BY <1>1, <1>2 DEF TypeOK
<1>4. userIdx' \in -1..(MAX_USER - 1) /\ off' \in 0..MAX_USER
  BY DEF TypeOK
<1>5. call' \in [op : {"none", "lbegin", "add", "delete"}, name : Names \union {NoUser}]
  BY DEF NoCall
<1> QED BY <1>3, <1>4, <1>5

(* deleteUser() returns 0, or addUser() goes on. *)
LEMMA EndStep ==
  ASSUME IInv, FlushEnd
  PROVE  IInv'
<1> USE DEF IInv, FlushEnd, disk
<1>1. ~Idle
  BY DEF Idle
<1>2. \A i \in 1..MAX_USER : passwd[i] = IF i <= Len(users) THEN users[i] ELSE NoUser
  BY DEF FlushOk, TypeOK
<1>3. DiskOk'
  BY DEF DiskOk, DiskLen
<1>4. CASE call.op = "delete"
  <2>1. Return(TRUE)
    BY <1>4
  <2>2. TypeOK'
    BY <1>1, <2>1, Returned DEF TypeOK
  <2>3. TableOk' /\ FlushOk' /\ CallOk'
    BY <1>1, <2>1, Returned DEF TableOk, FlushOk, CallOk, Idle
  <2>4. SessionOk'
    BY <1>4, <2>1 DEF SessionOk, SessionKept, Return
  <2>5. AckOk'
    <3> SUFFICES ASSUME NEW n \in Names \ {Root}
        PROVE  /\ acked'[n] \in Passwords =>
                    /\ home[n] = n
                    /\ \E i \in 1..Len(users) : users[i].name = n /\ users[i].pw = acked'[n]
                    /\ \E i \in 1..MAX_USER :
                         passwd[i] # NoUser /\ passwd[i].name = n /\ passwd[i].pw = acked'[n]
               /\ acked'[n] = Deleted =>
                    /\ \A i \in 1..Len(users) : users[i].name # n
                    /\ \A i \in 1..MAX_USER : passwd[i] # NoUser => passwd[i].name # n
      BY <2>1 DEF AckOk, Return
    <3>1. CASE n = call.name
      <4>1. acked'[n] = Deleted
        BY <3>1, <1>1, <1>4, <2>1, Returned
      <4>2. \A i \in 1..Len(users) : users[i].name # n
        BY <3>1, <1>1, <1>4 DEF CallOk
      <4>3. ASSUME NEW i \in 1..MAX_USER, passwd[i] # NoUser  PROVE passwd[i].name # n
        <5>1. i \in 1..Len(users) /\ passwd[i] = users[i]
          BY <4>3, <1>2 DEF TypeOK
        <5> QED BY <5>1, <4>2
      <4>4. acked'[n] \notin Passwords
        BY <4>1
      <4> QED BY <4>2, <4>3, <4>4
    <3>2. CASE n # call.name
      <4>1. acked'[n] = acked[n]
        BY <3>2, <1>1, <2>1, Returned
      <4>2. \A i \in 1..Len(users) : i \in 1..MAX_USER /\ passwd[i] = users[i] /\ passwd[i] # NoUser
        BY <1>2, UserFacts, EntryFacts DEF TypeOK
      <4> QED BY <4>1, <4>2 DEF AckOk
    <3> QED BY <3>1, <3>2
  <2> QED BY <1>3, <2>2, <2>3, <2>4, <2>5
<1>5. CASE call.op # "delete"
  <2>1. TypeOK' /\ TableOk'
    BY <1>5 DEF TypeOK, TableOk
  <2>2. FlushOk'
    BY <1>5, <1>2 DEF FlushOk, TypeOK
  <2>3. CallOk' /\ SessionOk'
    BY <1>5 DEF CallOk, Idle, SessionOk, SessionKept
  <2>4. AckOk'
    <3>1. \A i \in 1..Len(users) : i \in 1..MAX_USER /\ passwd[i] = users[i] /\ passwd[i] # NoUser
      BY <1>2, UserFacts, EntryFacts DEF TypeOK
    <3> QED BY <1>5, <3>1 DEF AckOk
  <2> QED BY <1>3, <2>1, <2>2, <2>3, <2>4
<1> QED BY <1>4, <1>5

(* mkdir() of the home directory. *)
LEMMA MakeHomeStep ==
  ASSUME IInv, MakeHome
  PROVE  IInv'
<1> USE DEF IInv, MakeHome
<1>1. call.name \in Names /\ call.op \in {"lbegin", "add"}
  BY DEF CallOk, Idle
<1>2. home' \in [Names -> Names \union {NoUser}]
  BY WhoamiType, <1>1 DEF TypeOK
<1>3. \A n \in Names : home[n] = n => home'[n] = n
  BY <1>1 DEF TypeOK
<1>4. DiskOk'
  BY DEF DiskOk, DiskLen
<1>5. CASE home'[call.name] = NoUser
  <2>1. Return(FALSE)
    BY <1>5
  <2>2. acked' = acked
    BY <2>1 DEF Return, TypeOK
  <2>3. userIdx' \in -1..(MAX_USER - 1) /\ off' \in 0..MAX_USER
    BY <2>1 DEF Return, TypeOK
  <2>4. call' \in [op : {"none", "lbegin", "add", "delete"}, name : Names \union {NoUser}]
    BY <2>1 DEF Return, NoCall
  <2>5. TypeOK'
    BY <1>2, <2>1, <2>2, <2>3, <2>4 DEF TypeOK, Return
  <2>6. TableOk' /\ FlushOk' /\ CallOk'
    BY <2>1 DEF Return, TableOk, FlushOk, CallOk, Idle
  <2>7. SessionOk'
    BY <2>1 DEF Return, SessionOk, SessionKept, CallOk, Idle
  <2>8. AckOk'
    BY <1>3, <2>1, <2>2 DEF Return, AckOk
  <2> QED BY <1>4, <2>5, <2>6, <2>7, <2>8
<1>6. CASE home'[call.name] # NoUser
  <2>1. TypeOK' /\ TableOk' /\ FlushOk'
    BY <1>2, <1>6 DEF TypeOK, TableOk, FlushOk
  <2>2. CallOk' /\ SessionOk'
    BY <1>6 DEF CallOk, Idle, SessionOk, SessionKept
  <2>3. AckOk'
    BY <1>3, <1>6 DEF AckOk
  <2> QED BY <1>4, <2>1, <2>2, <2>3
<1> QED BY <1>5, <1>6

(* addUser() gives the directory to the user and returns 0. *)
LEMMA ChownStep ==
  ASSUME IInv, ChownHome
  PROVE  IInv'
<1> USE DEF IInv, ChownHome
<1>1. ~Idle /\ call.name \in Names /\ call.op # "delete"
  BY DEF CallOk, Idle
<1>2. TypeOK'
  <2>1. home' \in [Names -> Names \union {NoUser}]
    BY <1>1 DEF TypeOK
  <2> QED BY <2>1, <1>1, Returned DEF TypeOK
<1>3. TableOk' /\ FlushOk' /\ CallOk'
  BY <1>1, Returned DEF TableOk, FlushOk, CallOk, Idle
<1>4. DiskOk'
  BY DEF DiskOk, DiskLen
<1>5. SessionOk'
  BY DEF Return, SessionOk, SessionKept, CallOk, Idle
<1>6. AckOk'
  <2> SUFFICES ASSUME NEW n \in Names \ {Root}
      PROVE  /\ acked'[n] \in Passwords =>
                  /\ home'[n] = n
                  /\ \E i \in 1..Len(users) : users[i].name = n /\ users[i].pw = acked'[n]
                  /\ \E i \in 1..MAX_USER :
                       passwd[i] # NoUser /\ passwd[i].name = n /\ passwd[i].pw = acked'[n]
             /\ acked'[n] = Deleted =>
                  /\ \A i \in 1..Len(users) : users[i].name # n
                  /\ \A i \in 1..MAX_USER : passwd[i] # NoUser => passwd[i].name # n
    BY DEF AckOk, Return
  <2>1. CASE n = call.name
    <3>1. Len(users) \in 1..Len(users) /\ Len(users) \in 1..MAX_USER
      BY <1>1 DEF TypeOK, TableOk, Idle
    <3>2. acked'[n] = users[Len(users)].pw /\ users[Len(users)].name = n
      BY <2>1, <1>1, Returned DEF CallOk
    <3>3. passwd[Len(users)] = users[Len(users)] /\ users[Len(users)] \in Entries
      BY <3>1, UserFacts DEF FlushOk
    <3>4. home'[n] = n
      BY <2>1 DEF TypeOK
    <3>5. acked'[n] # Deleted
      BY <3>2, <3>3, EntryFacts
    <3> QED BY <3>1, <3>2, <3>3, <3>4, <3>5, EntryFacts
  <2>2. CASE n # call.name
    <3>1. acked'[n] = acked[n] /\ home'[n] = home[n]
      BY <2>2, <1>1, Returned DEF TypeOK
    <3> QED BY <3>1 DEF AckOk
  <2> QED BY <2>1, <2>2
<1> QED BY <1>2, <1>3, <1>4, <1>5, <1>6

(* The machine stops: what is left is what loadUsers() finds. *)
LEMMA CrashStep ==
  ASSUME IInv, Crash
  PROVE  IInv'
<1> USE DEF IInv, Crash, disk
<1>1. Len(users') = 0 /\ users' \in Seq(Entries)
  OBVIOUS
<1>2. TypeOK'
  <2>1. call' \in [op : {"none", "lbegin", "add", "delete"}, name : Names \union {NoUser}]
    BY DEF NoCall
  <2>2. acked' \in [Names -> Passwords \union {NoUser, Deleted}]
    BY DEF TypeOK
  <2> QED BY <1>1, <2>1, <2>2 DEF TypeOK
<1>3. TableOk' /\ FlushOk' /\ CallOk' /\ SessionOk'
  BY <1>1 DEF TableOk, FlushOk, CallOk, Idle, SessionOk, SessionKept
<1>4. DiskOk'
  BY DEF DiskOk, DiskLen
<1>5. AckOk'
  <2> SUFFICES ASSUME NEW n \in Names \ {Root}
      PROVE  /\ acked'[n] \in Passwords =>
                  /\ home[n] = n
                  /\ \E i \in 1..MAX_USER :
                       passwd[i] # NoUser /\ passwd[i].name = n /\ passwd[i].pw = acked'[n]
             /\ acked'[n] = Deleted =>
                  \A i \in 1..MAX_USER : passwd[i] # NoUser => passwd[i].name # n
    BY <1>1 DEF AckOk
  <2>1. ASSUME acked'[n] \in Passwords
        PROVE  acked'[n] = acked[n] /\ n \in NamesOf(OnDisk)
    BY <2>1
  <2>2. ASSUME acked'[n] \in Passwords
        PROVE  \E i \in 1..MAX_USER :
                 passwd[i] # NoUser /\ passwd[i].name = n /\ passwd[i].pw = acked'[n]
    <3>1. acked'[n] = acked[n] /\ acked[n] \in Passwords
      BY <2>1, <2>2
    <3>2. CASE pc # "write"
      BY <3>1, <3>2 DEF AckOk
    <3>3. CASE pc = "write"
      <4>1. PICK i \in 1..MAX_USER : passwd[i] # NoUser /\ passwd[i].name = n
        BY <2>1, <2>2, DiskNames
      <4>2. PICK j \in 1..Len(users) : users[j].name = n /\ users[j].pw = acked[n]
        BY <3>1 DEF AckOk
      <4>3. i \in 1..Len(users) /\ passwd[i] = users[i]
        BY <3>3, <4>1 DEF FlushOk, TypeOK
      <4>4. i = j
        BY <4>1, <4>2, <4>3 DEF TableOk
      <4> QED BY <3>1, <4>1, <4>2, <4>3, <4>4
    <3> QED BY <3>2, <3>3
  <2>3. acked'[n] = Deleted => acked[n] = Deleted
    OBVIOUS
  <2> QED BY <2>1, <2>2, <2>3 DEF AckOk
<1> QED BY <1>2, <1>3, <1>4, <1>5

(* lbegin() loads /passwd, or adds root. *)
LEMMA LbeginStep ==
  ASSUME IInv, Lbegin
  PROVE  IInv'
<1> USE DEF IInv, Lbegin, disk
<1>1. PICK k \in 0..MAX_USER : DiskLen(k)
  BY DEF DiskOk
<1>2. /\ OnDisk \in Seq(Entries) /\ Len(OnDisk) = k
      /\ \A i \in 1..k : OnDisk[i] = passwd[i]
      /\ OnDisk = <<>> <=> k = 0
  BY <1>1, OnDiskSeq
<1>3. DiskOk'
  BY DEF DiskOk, DiskLen
<1>4. \A i \in 1..MAX_USER : passwd[i] # NoUser <=> i \in 1..k
  BY <1>1, EntryFacts DEF DiskLen
<1>5. CASE k = 0
  <2> DEFINE e == [name |-> Root, pw |-> DefaultPassword]
  <2>1. Update("lbegin", Root, <<e>>) /\ userIdx' = userIdx
    BY <1>2, <1>5
  <2>2. e \in Entries /\ e.name = Root
    BY DEF Entries
  <2>3. users' \in Seq(Entries) /\ Len(users') = 1 /\ users'[1] = e
    BY <2>1, <2>2 DEF Update
  <2>4. call' = [op |-> "lbegin", name |-> Root] /\ pc' = "open"
    BY <2>1 DEF Update
  <2>5. call' \in [op : {"none", "lbegin", "add", "delete"}, name : Names \union {NoUser}]
    BY <2>4
  <2>6. /\ acked' \in [Names -> Passwords \union {NoUser, Deleted}]
        /\ \A n \in Names \ {Root} : acked'[n] = acked[n]
    BY <2>1 DEF Update, TypeOK
  <2> HIDE DEF e
  <2>7. TypeOK'
    BY <2>1, <2>3, <2>4, <2>5, <2>6 DEF TypeOK
  <2>8. TableOk' /\ FlushOk' /\ SessionOk'
    BY <2>1, <2>2, <2>3, <2>4 DEF TableOk, FlushOk, SessionOk, SessionKept
  <2>9. CallOk'
    BY <2>2, <2>3, <2>4 DEF CallOk, Idle, SessionOk
  <2>10. \A n \in Names \ {Root} : acked[n] \notin Passwords
    BY <1>4, <1>5 DEF AckOk
  <2>11. AckOk'
    BY <2>2, <2>3, <2>4, <2>6, <2>10 DEF AckOk
  <2> QED BY <1>3, <2>7, <2>8, <2>9, <2>11
<1>6. CASE k # 0
  <2>1. users' = OnDisk /\ userIdx' = -1 /\ pc' = "idle" /\ UNCHANGED <<call, acked>>
    BY <1>2, <1>6
  <2>2. /\ users' \in Seq(Entries) /\ Len(users') = k
        /\ \A i \in 1..k : i \in 1..MAX_USER /\ users'[i] = passwd[i]
    BY <1>2, <2>1
  <2>3. TypeOK'
    BY <2>1, <2>2 DEF TypeOK
  <2>4. TableOk'
    BY <1>4, <1>6, <2>1, <2>2 DEF TableOk, DiskOk
  <2>5. FlushOk' /\ CallOk' /\ SessionOk'
    BY <2>1 DEF FlushOk, CallOk, Idle, SessionOk, SessionKept
  <2>6. AckOk'
    BY <1>4, <2>1, <2>2 DEF AckOk
  <2> QED BY <1>3, <2>3, <2>4, <2>5, <2>6
<1> QED BY <1>5, <1>6

(* addUser() adds a name that is new. *)
LEMMA AddStep ==
  ASSUME IInv, NEW n \in Names, NEW p \in Passwords, AddUser(n, p)
  PROVE  IInv'
<1> USE DEF IInv, AddUser, Allowed, disk
<1> DEFINE e == [name |-> n, pw |-> p]
<1>1. e \in Entries /\ e.name = n /\ e.pw = p
  BY DEF Entries
<1> HIDE DEF e
<1>2. /\ users' = Append(users, e) /\ call' = [op |-> "add", name |-> n] /\ pc' = "open"
      /\ acked' = [acked EXCEPT ![n] = NoUser]
  BY DEF Update, e
<1>3. call' \in [op : {"none", "lbegin", "add", "delete"}, name : Names \union {NoUser}]
  BY <1>2
<1>4. /\ acked' \in [Names -> Passwords \union {NoUser, Deleted}]
      /\ acked'[n] = NoUser
      /\ \A m \in Names : m # n => acked'[m] = acked[m]
  BY <1>2 DEF TypeOK
<1>5. /\ users' \in Seq(Entries) /\ Len(users') = Len(users) + 1
      /\ \A j \in 1..Len(users) : users'[j] = users[j]
      /\ users'[Len(users) + 1] = e
  BY <1>1, <1>2, Appended DEF TypeOK
<1>6. Len(users) \in Nat /\ Len(users) > 0 /\ \A j \in 1..Len(users) : users[j].name # n
  BY DEF TypeOK, TableOk, NamesOf
<1>7. TypeOK'
  BY <1>2, <1>3, <1>4, <1>5 DEF TypeOK
<1>8. TableOk'
  BY <1>1, <1>2, <1>5, <1>6 DEF TableOk
<1>9. DiskOk' /\ FlushOk'
  BY <1>2 DEF DiskOk, DiskLen, FlushOk
<1>10. CallOk'
  BY <1>1, <1>2, <1>5 DEF CallOk, Idle
<1>11. SessionOk'
  BY <1>2, <1>5, <1>6 DEF SessionOk, SessionKept, TypeOK
<1>12. AckOk'
  <2> SUFFICES ASSUME NEW m \in Names \ {Root}, m # n
      PROVE  /\ acked[m] \in Passwords =>
                  \E i \in 1..Len(users') : users'[i].name = m /\ users'[i].pw = acked[m]
             /\ acked[m] = Deleted => \A i \in 1..Len(users') : users'[i].name # m
    BY <1>2, <1>4 DEF AckOk
  <2>1. acked[m] \in Passwords =>
          \E i \in 1..Len(users) : users[i].name = m /\ users[i].pw = acked[m]
    BY DEF AckOk
  <2>2. acked[m] = Deleted => \A i \in 1..Len(users) : users[i].name # m
    BY DEF AckOk
  <2> QED BY <2>1, <2>2, <1>1, <1>5, <1>6
<1> QED BY <1>7, <1>8, <1>9, <1>10, <1>11, <1>12

(* deleteUser() is called by root, whose entry is the first and stays. *)
LEMMA DeleteStep ==
  ASSUME IInv, NEW n \in Names, DeleteUser(n)
  PROVE  IInv'
<1> USE DEF IInv, DeleteUser, Allowed, disk
<1>1. PICK r \in 2..Len(users) : users[r].name = n /\ Update("delete", n, RemoveAt(users, r))
  OBVIOUS
<1>2. /\ users' = RemoveAt(users, r) /\ call' = [op |-> "delete", name |-> n] /\ pc' = "open"
      /\ acked' = [acked EXCEPT ![n] = NoUser]
  BY <1>1 DEF Update
<1>3. call' \in [op : {"none", "lbegin", "add", "delete"}, name : Names \union {NoUser}]
  BY <1>2
<1>4. /\ acked' \in [Names -> Passwords \union {NoUser, Deleted}]
      /\ acked'[n] = NoUser
      /\ \A m \in Names : m # n => acked'[m] = acked[m]
  BY <1>2 DEF TypeOK
<1>5. /\ users' \in Seq(Entries) /\ Len(users') = Len(users) - 1
      /\ \A j \in 1..(Len(users) - 1) : users'[j] = users[IF j < r THEN j ELSE j + 1]
  <2> DEFINE u == RemoveAt(users, r)
  <2>1. users \in Seq(Entries) /\ r \in 1..Len(users)
    BY DEF TypeOK
  <2>2. /\ u \in Seq(Entries) /\ Len(u) = Len(users) - 1
        /\ \A j \in 1..(Len(users) - 1) : u[j] = users[IF j < r THEN j ELSE j + 1]
    BY <2>1, Removed
  <2>3. users' = u
    BY <1>2
  <2> HIDE DEF u
  <2> QED BY <2>2, <2>3
<1>6. Len(users) \in Nat /\ Len(users) >= 2
  BY DEF TypeOK
<1>7. users'[1] = users[1]
  BY <1>5, <1>6
<1>8. ASSUME NEW j \in 1..Len(users')
      PROVE  \E i \in 1..Len(users) : i # r /\ users'[j] = users[i]
  <2>1. j \in 1..(Len(users) - 1) /\ (IF j < r THEN j ELSE j + 1) \in 1..Len(users)
    BY <1>5, <1>6
  <2> QED BY <2>1, <1>5
<1>9. ASSUME NEW i \in 1..Len(users), i # r
      PROVE  \E j \in 1..Len(users') : users'[j] = users[i]
  <2>1. CASE i < r
    <3>1. i \in 1..(Len(users) - 1)
      BY <2>1, <1>6
    <3> QED BY <3>1, <2>1, <1>5
  <2>2. CASE i > r
    <3>1. i - 1 \in 1..(Len(users) - 1) /\ ~(i - 1 < r) /\ (i - 1) + 1 = i
      BY <2>2, <1>6
    <3> QED BY <3>1, <1>5
  <2> QED BY <1>9, <2>1, <2>2
<1>10. TypeOK'
  BY <1>2, <1>3, <1>4, <1>5 DEF TypeOK
<1>11. TableOk'
  <2>1. ASSUME NEW i \in 1..Len(users'), NEW j \in 1..Len(users'),
               users'[i].name = users'[j].name
        PROVE  i = j
    <3> DEFINE a == IF i < r THEN i ELSE i + 1
               b == IF j < r THEN j ELSE j + 1
    <3>1. /\ i \in 1..(Len(users) - 1) /\ j \in 1..(Len(users) - 1)
          /\ a \in 1..Len(users) /\ b \in 1..Len(users)
      BY <1>5, <1>6
    <3>2. users[a].name = users[b].name
      BY <3>1, <2>1, <1>5
    <3>3. a = b
      BY <3>1, <3>2 DEF TableOk
    <3> QED BY <3>3
  <2> QED BY <2>1, <1>2, <1>5, <1>6, <1>7 DEF TableOk
<1>12. DiskOk' /\ FlushOk'
  BY <1>2 DEF DiskOk, DiskLen, FlushOk
<1>13. \A j \in 1..Len(users') : users'[j].name # n
  BY <1>1, <1>8 DEF TableOk
<1>14. CallOk'
  BY <1>2, <1>13 DEF CallOk, Idle
<1>15. SessionOk'
  <2>1. userIdx = 0
    BY DEF SessionOk, SessionKept
  <2> QED BY <2>1, <1>2, <1>5, <1>6, <1>7 DEF SessionOk, SessionKept
<1>16. AckOk'
  <2> SUFFICES ASSUME NEW m \in Names \ {Root}, m # n
      PROVE  /\ acked[m] \in Passwords =>
                  \E i \in 1..Len(users') : users'[i].name = m /\ users'[i].pw = acked[m]
             /\ acked[m] = Deleted => \A i \in 1..Len(users') : users'[i].name # m
    BY <1>2, <1>4 DEF AckOk
  <2>1. ASSUME acked[m] \in Passwords
        PROVE  \E i \in 1..Len(users') : users'[i].name = m /\ users'[i].pw = acked[m]
    <3>1. PICK i \in 1..Len(users) : users[i].name = m /\ users[i].pw = acked[m]
      BY <2>1 DEF AckOk
    <3> QED BY <3>1, <1>1, <1>9
  <2>2. ASSUME acked[m] = Deleted
        PROVE  \A i \in 1..Len(users') : users'[i].name # m
    BY <2>2, <1>8 DEF AckOk
  <2> QED BY <2>1, <2>2
<1> QED BY <1>10, <1>11, <1>12, <1>14, <1>15, <1>16

-----------------------------------------------------------------------------
(* IInv holds initially and every step, a crash included, preserves it. *)
THEOREM Invariance == Spec => []IInv
<1>1. Init => IInv
  BY InitIInv
<1>2. IInv /\ [Next]_vars => IInv'
  <2> SUFFICES ASSUME IInv, [Next]_vars  PROVE IInv'
    OBVIOUS
  <2>1. CASE Crash
    BY <2>1, CrashStep
  <2>2. CASE Lbegin
    BY <2>2, LbeginStep
  <2>3. CASE \E n \in Names, p \in Passwords : AddUser(n, p)
    BY <2>3, AddStep
  <2>4. CASE \E n \in Names : DeleteUser(n) \/ Login(n)
    BY <2>4, DeleteStep, LoginStep
  <2>5. CASE FlushDenied \/ FlushOpen
    BY <2>5, DeniedStep, OpenStep
  <2>6. CASE FlushClear \/ FlushWrite \/ FlushEnd
    BY <2>6, ClearStep, WriteStep, EndStep
  <2>7. CASE MakeHome \/ ChownHome
    BY <2>7, MakeHomeStep, ChownStep
  <2>8. CASE \E m \in SUBSET {"usr", "oth"} : Chmod(m)
    BY <2>8, ChmodStep
  <2>9. CASE UNCHANGED vars
    <3> USE <2>9 DEF vars, IInv
    <3>1. TypeOK' /\ TableOk'
      BY DEF TypeOK, TableOk
    <3>2. DiskOk' /\ FlushOk'
      BY DEF DiskOk, DiskLen, FlushOk
    <3>3. CallOk' /\ SessionOk' /\ AckOk'
      BY DEF CallOk, Idle, SessionOk, SessionKept, AckOk
    <3> QED BY <3>1, <3>2, <3>3
  <2> QED BY <2>1, <2>2, <2>3, <2>4, <2>5, <2>6, <2>7, <2>8, <2>9 DEF Next
<1> QED BY <1>1, <1>2, PTL DEF Spec

(* Wherever flushUsers() is stopped, table and file hold no name twice and *)
(* have root first.                                                        *)
THEOREM RootStaysFirst == Spec => []RootFirst
<1>1. IInv => RootFirst
  BY Implied
<1> QED BY <1>1, Invariance, PTL

(* What addUser() and deleteUser() promised by returning 0 stays true      *)
(* across restarts.                                                        *)
THEOREM PromisesKept == Spec => []Acknowledged
<1>1. IInv => Acknowledged
  BY Implied
<1> QED BY <1>1, Invariance, PTL

(* ltable.userIdx keeps naming the user who logged in. *)
THEOREM SessionStays == Spec => []SessionKept
<1>1. IInv => SessionKept
  BY Implied
<1> QED BY <1>1, Invariance, PTL
=============================================================================
