------------------------------ MODULE Accounts ------------------------------
(***************************************************************************)
(* The user accounts of sysfile.c: the table ltable in memory and the file *)
(* /passwd that flushUsers() rewrites after every change, the calls        *)
(* addUser(), deleteUser(), login() and chmod() of /passwd, and the        *)
(* machine stopping at any moment, after which init calls lbegin().        *)
(*                                                                         *)
(* An action is one transaction of the log (Log shows that those are       *)
(* atomic) or the part of a call that has none.  The calls are made one at *)
(* a time, as by a shell that waits for its commands; ltable has no lock.  *)
(* A name or a password is a value of acceptable length, without the       *)
(* separators '-' and '/' of /passwd.                                      *)
(***************************************************************************)
EXTENDS Integers, Sequences, SequencesExt

CONSTANTS Names, Root, Passwords, DefaultPassword, MAX_USER, NoUser, Deleted

ASSUME AccountsConstants ==
  /\ Root \in Names /\ DefaultPassword \in Passwords /\ MAX_USER \in Nat \ {0}

ASSUME AccountsValues ==
  /\ NoUser # Deleted /\ {NoUser, Deleted} \intersect (Names \union Passwords) = {}
  /\ NoUser \notin [name : Names, pw : Passwords]

VARIABLES
  users,    \* usernames and passwords up to ltable.userCnt
  userIdx,  \* ltable.userIdx: an index into users from 0 on, or -1
  passwd,   \* the entries of /passwd, NoUser where there are zeroes
  perm,     \* who may write /passwd: MODE_WUSR and MODE_WOTH of its ip->perm
  home,     \* owner of the directory with a user's name
  pc,       \* the next step of the call that is running
  call,     \* that call: its operation and its argument
  off,      \* the entries that flushUsers() has written
  acked,    \* history: what the last call about a name that returned 0 promised
  session   \* history: the name of the last successful login()

disk == <<passwd, perm, home>>
vars == <<users, userIdx, passwd, perm, home, pc, call, off, acked, session>>

Entries == [name : Names, pw : Passwords]
NoCall == [op |-> "none", name |-> NoUser]
NamesOf(s) == {s[i].name : i \in DOMAIN s}

TypeOK ==
  /\ users \in Seq(Entries) /\ Len(users) <= MAX_USER
  /\ userIdx \in -1..(MAX_USER - 1)
  /\ passwd \in [1..MAX_USER -> Entries \union {NoUser}]
  /\ perm \subseteq {"usr", "oth"}
  /\ home \in [Names -> Names \union {NoUser}]
  /\ pc \in {"boot", "idle", "open", "clear", "write", "mkdir", "chown"}
  /\ call \in [op : {"none", "lbegin", "add", "delete"}, name : Names \union {NoUser}]
  /\ off \in 0..MAX_USER
  /\ acked \in [Names -> Passwords \union {NoUser, Deleted}]
  /\ session \in Names \union {NoUser}

(* A new file system, in which loadUsers() creates /passwd. *)
Init ==
  /\ users = <<>> /\ userIdx = 0
  /\ passwd = [i \in 1..MAX_USER |-> NoUser] /\ perm = {"usr"}
  /\ home = [n \in Names |-> NoUser]
  /\ pc = "boot" /\ call = NoCall /\ off = 0
  /\ acked = [n \in Names |-> NoUser] /\ session = NoUser

-----------------------------------------------------------------------------
(* The users that loadUsers() finds: it stops at the first zero. *)
OnDisk == LET n == CHOOSE k \in 0..MAX_USER :
                     /\ \A i \in 1..k : passwd[i] # NoUser
                     /\ k = MAX_USER \/ passwd[k + 1] = NoUser
          IN  [i \in 1..n |-> passwd[i]]

whoami ==
  IF users = <<>> THEN Root
  ELSE IF userIdx = -1 THEN NoUser ELSE users[userIdx + 1].name

(* checkmod() of /passwd, which root owns, includes W_OK. *)
MayWrite == (IF whoami = Root THEN "usr" ELSE "oth") \in perm

(* The running call returns 0 (ok) or -1. *)
Return(ok) ==
  /\ pc' = "idle" /\ call' = NoCall /\ off' = 0
  /\ userIdx' = IF call.op = "lbegin" THEN -1 ELSE userIdx
  /\ acked' = [acked EXCEPT ![call.name] =
       IF ~ok THEN @
       ELSE IF call.op = "delete" THEN Deleted
       ELSE users[Len(users)].pw]

(* addUser() and deleteUser() up to flushUsers(). *)
Update(op, n, u) ==
  /\ users' = u /\ call' = [op |-> op, name |-> n] /\ pc' = "open"
  /\ acked' = [acked EXCEPT ![n] = NoUser]

-----------------------------------------------------------------------------
(* The machine stops and starts again. *)
Crash ==
  /\ pc # "boot"
  /\ users' = <<>> /\ userIdx' = 0 /\ pc' = "boot" /\ call' = NoCall /\ off' = 0
  /\ acked' = [n \in Names |-> IF acked[n] \in Passwords /\ n \notin NamesOf(OnDisk)
                               THEN NoUser ELSE acked[n]]
  /\ session' = NoUser
  /\ UNCHANGED disk

(* sys_lbegin(): loadUsers(), and addUser() of root if there is nobody. *)
Lbegin ==
  /\ pc = "boot"
  /\ IF OnDisk = <<>>
     THEN Update("lbegin", Root, <<[name |-> Root, pw |-> DefaultPassword]>>)
          /\ UNCHANGED userIdx
     ELSE /\ users' = OnDisk /\ userIdx' = -1 /\ pc' = "idle"
          /\ UNCHANGED <<call, acked>>
  /\ UNCHANGED <<disk, off, session>>

(* sys_addUser() and sys_deleteUser() let the caller pass.  Before the     *)
(* first login() no program runs that would call them.                     *)
Allowed == pc = "idle" /\ ~(userIdx > 0) /\ session # NoUser

(* Forgets to look for the name. *)
AddUserTwice(n, p) ==
  /\ Allowed /\ Len(users) < MAX_USER
  /\ Update("add", n, Append(users, [name |-> n, pw |-> p]))
  /\ UNCHANGED <<userIdx, disk, off, session>>

(* The answer is -1, and nothing changes, unless the caller is root, there *)
(* is room and the name is new.                                            *)
AddUser(n, p) ==
  /\ Allowed
  /\ Len(users) < MAX_USER /\ n \notin NamesOf(users)
  /\ Update("add", n, Append(users, [name |-> n, pw |-> p]))
  /\ UNCHANGED <<userIdx, disk, off, session>>

(* Does not ask who the caller is. *)
DeleteUserByAnyone(n) ==
  /\ pc = "idle"
  /\ \E i \in 2..Len(users) :
       users[i].name = n /\ Update("delete", n, RemoveAt(users, i))
  /\ UNCHANGED <<userIdx, disk, off, session>>

(* The entries after the user's move down by one; the first one is root's. *)
DeleteUser(n) ==
  /\ Allowed
  /\ \E i \in 2..Len(users) :
       users[i].name = n /\ Update("delete", n, RemoveAt(users, i))
  /\ UNCHANGED <<userIdx, disk, off, session>>

(* flushUsers(): open() for writing fails. *)
FlushDenied ==
  /\ pc = "open" /\ ~MayWrite
  /\ Return(FALSE)
  /\ UNCHANGED <<users, disk, session>>

FlushOpen ==
  /\ pc = "open" /\ MayWrite
  /\ pc' = "clear"
  /\ UNCHANGED <<users, userIdx, disk, call, off, acked, session>>

(* Forgets cleari(): a shorter table leaves the end of the longer one. *)
FlushNoClear ==
  /\ pc = "clear"
  /\ off' = 0 /\ pc' = "write"
  /\ UNCHANGED <<users, userIdx, passwd, perm, home, call, acked, session>>

(* cleari(): the file keeps its size and loses its contents. *)
FlushClear ==
  /\ pc = "clear"
  /\ passwd' = [i \in 1..MAX_USER |-> NoUser] /\ off' = 0
  /\ pc' = "write"
  /\ UNCHANGED <<users, userIdx, perm, home, call, acked, session>>

(* filewrite() of one user. *)
FlushWrite ==
  /\ pc = "write" /\ off < Len(users)
  /\ passwd' = [passwd EXCEPT ![off + 1] = users[off + 1]]
  /\ off' = off + 1
  /\ UNCHANGED <<users, userIdx, perm, home, pc, call, acked, session>>

(* flushUsers() returns 0. *)
FlushEnd ==
  /\ pc = "write" /\ off = Len(users)
  /\ IF call.op = "delete" THEN Return(TRUE)
     ELSE pc' = "mkdir" /\ UNCHANGED <<userIdx, call, off, acked>>
  /\ UNCHANGED <<users, disk, session>>

(* mkdir(), which does nothing if there is a directory and may fail, and   *)
(* namei().                                                                *)
MakeHome ==
  /\ pc = "mkdir"
  /\ home' \in {home} \union
       (IF Len(users) > 1 /\ home[call.name] = NoUser
        THEN {[home EXCEPT ![call.name] = whoami]} ELSE {})
  /\ IF home'[call.name] = NoUser THEN Return(FALSE)
     ELSE pc' = "chown" /\ UNCHANGED <<userIdx, call, off, acked>>
  /\ UNCHANGED <<users, passwd, perm, session>>

ChownHome ==
  /\ pc = "chown"
  /\ home' = [home EXCEPT ![call.name] = call.name]
  /\ Return(TRUE)
  /\ UNCHANGED <<users, passwd, perm, session>>

(* login() with the right password; with a wrong one nothing changes. *)
Login(n) ==
  /\ pc = "idle"
  /\ \E i \in DOMAIN users :
       users[i].name = n /\ userIdx' = i - 1
  /\ session' = n
  /\ UNCHANGED <<users, disk, pc, call, off, acked>>

(* chmod() of /passwd. *)
Chmod(m) ==
  /\ pc = "idle" /\ whoami = Root
  /\ perm' = m
  /\ UNCHANGED <<users, userIdx, passwd, home, pc, call, off, acked, session>>

Next ==
  \/ Crash \/ Lbegin
  \/ \E n \in Names, p \in Passwords : AddUser(n, p)
  \/ \E n \in Names : DeleteUser(n) \/ Login(n)
  \/ FlushDenied \/ FlushOpen \/ FlushClear \/ FlushWrite \/ FlushEnd
  \/ MakeHome \/ ChownHome
  \/ \E m \in SUBSET {"usr", "oth"} : Chmod(m)

Spec == Init /\ [][Next]_vars

-----------------------------------------------------------------------------
WellFormed(s) ==
  /\ \A i, j \in DOMAIN s : s[i].name = s[j].name => i = j
  /\ s # <<>> => s[1].name = Root

(* Wherever flushUsers() was stopped by a crash, what loadUsers() will     *)
(* find, like the table itself, holds no name twice and has root first:    *)
(* sys_addUser() and sys_deleteUser() take index 0 for root.               *)
RootFirst ==
  /\ WellFormed(users) /\ WellFormed(OnDisk)
  /\ pc = "idle" => users # <<>>

(* A user whose addUser() has returned 0 is in /passwd with that password  *)
(* until the next call rewrites the file, and owns a home directory; a     *)
(* user whose deleteUser() has returned 0 is in neither table nor file,    *)
(* so no crash brings the account back.                                    *)
Acknowledged == \A n \in Names \ {Root} :
  /\ acked[n] \in Passwords =>
       /\ pc # "write" => [name |-> n, pw |-> acked[n]] \in Range(OnDisk)
       /\ home[n] = n
  /\ acked[n] = Deleted => n \notin NamesOf(users) \union NamesOf(OnDisk)

(* ltable.userIdx keeps naming the user who logged in: deleteUser(), which *)
(* moves the entries, never moves that one.                                *)
SessionKept == session # NoUser =>
  /\ userIdx \in 0..(Len(users) - 1)
  /\ users[userIdx + 1].name = session
=============================================================================
