---------------------------- MODULE LaunchProofs ----------------------------
(***************************************************************************)
(* Proofs about Launch, for every number of descriptors, every set of free *)
(* numbers and every number that a notification may be forced to have: a   *)
(* child that fails tells it, the parent keeps no end but in one case, and *)
(* a process that runs has the descriptors it asked for and no other.      *)
(***************************************************************************)
EXTENDS Launch, TLAPS

BeforeFork == {"socket", "status", "input", "log", "control", "ready", "fork"}
Arranging == {"free_wpipe", "free_cs", "free_socket", "take", "above_wpipe", "above_cs", "above_notify",
              "environment"}
Redirecting == {"null", "output", "stdout"}
Ending == {"limits", "cgroup", "privileges", "exec"}
Child == {"stdin"} \cup Arranging \cup Redirecting \cup Ending
Stages == BeforeFork \cup Child \cup {"running", "failed", "not_launched"}

Names == Settings \cup {"wpipe"}
Contents == {"closed", "tty", "own", "null", "log", "buffer", "feed"} \cup Settings \cup WriteEnds \cup ReadEnds
Numbers == [Names -> Fds \cup {-1}]
Tables == [tab : [Fds -> Contents], cx : SUBSET Fds]

LaunchType ==
    /\ pc \in Stages
    /\ t \in Tables /\ parent \in Tables
    /\ fd \in Numbers /\ given \in Numbers
    /\ asked \in SUBSET Settings
    /\ force \in Fds \cup {-1} /\ (force # -1 => "notify" \in asked)

\* What the parent has opened: each variable has the number of what it names,
\* and what is not for the process alone is closed by exec.  The writing end of
\* a pair is above its reading end, so that 3 is not the number of one.
OpenedIn(s, f) ==
    /\ \A x \in Names : \A n \in Fds : s.tab[n] = x <=> n = f[x]
    /\ \A n \in 0 .. 2 : s.tab[n] = "tty" /\ n \notin s.cx
    /\ \A n \in 3 .. MaxFd : s.tab[n] \in {"closed", "cs", "notify"} <=> n \notin s.cx
    /\ \A x \in WriteEnds : f[x] = -1 \/ f[x] >= 4

Opened == pc \in BeforeFork \cup {"stdin"} => OpenedIn(t, fd)

\* What has been opened is what is asked for, stage by stage.
AskedIsOpen ==
    /\ IF pc \in {"socket", "status", "input"} THEN fd.input # -1 => "input" \in asked
       ELSE pc \in BeforeFork \cup Child => (fd.input # -1 <=> "input" \in asked)
    /\ IF pc = "socket" THEN fd.socket # -1 => "socket" \in asked
       ELSE pc \in BeforeFork \cup Child => (fd.socket # -1 <=> "socket" \in asked)
    /\ IF pc \in {"socket", "status"} THEN fd.wpipe = -1 ELSE pc \in BeforeFork \cup Child => fd.wpipe # -1
    /\ IF pc \in {"socket", "status", "input", "log"} THEN fd.output # -1 => "output" \in asked
       ELSE pc \in (BeforeFork \cup Child) \ ({"stdout"} \cup Ending) => (fd.output # -1 <=> "output" \in asked)
    /\ IF pc \in {"socket", "status", "input", "log", "control"} THEN fd.cs = -1
       ELSE pc \in BeforeFork \cup Child => (fd.cs # -1 <=> "cs" \in asked)
    /\ IF pc \in BeforeFork \ {"fork"} THEN fd.notify = -1
       ELSE pc \in BeforeFork \cup Child => (fd.notify # -1 <=> "notify" \in asked)

\* Until the notification takes its number, each variable has the number of what
\* it names.
Untaken == {"stdin", "free_wpipe", "free_cs", "free_socket", "take"}

\* The status pipe of the child: its number is that in wpipefd, and no
\* other variable's number, so that no move of another descriptor, no close
\* of the three standard numbers and no open takes it.
StatusPipeKept ==
    pc \in Child =>
        /\ fd.wpipe \in 3 .. MaxFd /\ t.tab[fd.wpipe] = "wpipe"
        /\ \A x \in {"cs", "notify", "socket", "output"} : fd[x] # fd.wpipe
        /\ pc \in Untaken =>
             \A x \in {"wpipe", "cs", "notify", "socket", "output"} : fd[x] # -1 => t.tab[fd[x]] = x
        /\ pc = "above_wpipe" =>
             \A x \in {"cs", "notify", "socket", "output"} : fd[x] # -1 => t.tab[fd[x]] # "closed"
        /\ pc \in {"free_cs", "free_socket", "take"} => fd.wpipe # force
        /\ pc \in {"above_cs", "above_notify", "environment"} /\ fd.socket # -1 => fd.wpipe # 3
        /\ pc = "stdout" => fd.output # -1

\* The child has its end of the status pipe once, for itself alone and out of
\* the way of the standard numbers; exec leaves no end of it.
StatusPipeOnce ==
    /\ pc \in Child =>
         /\ fd.wpipe >= minfd /\ fd.wpipe \in t.cx
         /\ \A n \in Fds : t.tab[n] = "wpipe" => n = fd.wpipe
    /\ pc = "running" => \A n \in Fds : t.tab[n] # "wpipe"

\* The ends of the parent's pipes.
EndsOfParent ==
    /\ \A n \in Fds : parent.tab[n] \notin WriteEnds
    /\ pc \in {"socket", "status"} => \A n \in Fds : t.tab[n] \notin WriteEnds \cup ReadEnds
    /\ pc = "not_launched" /\ ~InputRefused => \A n \in Fds : t.tab[n] \notin WriteEnds \cup ReadEnds
    /\ pc = "not_launched" /\ InputRefused =>
         \A n \in Fds : t.tab[n] \in WriteEnds \cup ReadEnds => t.tab[n] \in {"status", "wpipe"}
    /\ pc = "input" \/ (pc = "not_launched" /\ InputRefused) =>
         (\E n \in Fds : t.tab[n] = "status") /\ \E n \in Fds : t.tab[n] = "wpipe"
    /\ pc \in {"input", "log"} => \A n \in Fds : t.tab[n] \in WriteEnds \cup ReadEnds => t.tab[n] \in {"status", "wpipe"}

PipeInv == LaunchType /\ Opened /\ AskedIsOpen /\ StatusPipeKept /\ EndsOfParent /\ FailureIsTold
-----------------------------------------------------------------------------
(***************************************************************************)
(* The layout of the child's descriptors, where there is no clash.         *)
(***************************************************************************)
Moved == {"null", "output", "stdout"} \cup Ending            \* the socket has number 3
Taken == {"above_wpipe", "above_cs", "above_notify", "environment"} \cup Moved

NumbersKept ==
    /\ fd.cs = given.cs /\ fd.socket = given.socket /\ fd.input = given.input
    /\ pc \notin {"stdout"} \cup Ending => fd.output = given.output
    /\ pc = "stdout" /\ "output" \in asked => fd.output = given.output
    /\ fd.cs = -1 \/ fd.cs >= 4
    /\ fd.notify \in {-1, force} \/ fd.notify >= 4
    /\ pc \in Taken /\ force # -1 => fd.notify = force
    /\ pc \in Untaken \cup {"above_wpipe"} /\ fd.socket # -1 => fd.wpipe # 3

\* The control socket and the notification are open once, and survive exec;
\* nothing else does, above 2, but the socket once it has number 3.
Survives ==
    /\ \A x \in {"cs", "notify"} : \A n \in Fds : t.tab[n] = x <=> n = fd[x]
    /\ \A n \in Fds : t.tab[n] \in {"cs", "notify"} => n \notin t.cx
    /\ \A n \in 0 .. 2 : n \notin t.cx
    /\ \A n \in 3 .. MaxFd :
         \/ t.tab[n] \in {"closed", "cs", "notify"}
         \/ n \in t.cx
         \/ n = 3 /\ t.tab[n] = "socket" /\ pc \in Moved

SocketAt ==
    IF pc \in Moved
    THEN /\ "socket" \in asked <=> t.tab[3] = "socket"
         /\ "socket" \in asked => 3 \notin t.cx /\ fd.output # 3
    ELSE \A n \in Fds : t.tab[n] = "socket" <=> n = fd.socket

InputAt == pc # "stdin" => ("input" \in asked <=> t.tab[0] = "input")

OutputAt ==
    /\ pc \in {"stdin"} \cup Arranging =>
         \A n \in {1, 2} : t.tab[n] = "tty" \/ (n = force /\ t.tab[n] = "notify")
    /\ pc \in {"stdin"} \cup Arranging \cup Redirecting /\ "output" \in asked =>
         fd.output >= 3 /\ t.tab[fd.output] = "output"
    /\ pc \in Redirecting => "console" \notin asked
    /\ pc = "output" => t.tab[0] # "closed" /\ \A n \in {1, 2} \ {force} : t.tab[n] = "closed"
    /\ pc = "stdout" /\ "output" \notin asked =>
         fd.output \in {1, 2} \ {force} /\ t.tab[fd.output] = "log"
    /\ pc \in Ending =>
         \A n \in {1, 2} \ {force} :
           t.tab[n] = IF "console" \in asked THEN "tty" ELSE IF "output" \in asked THEN "output" ELSE "log"

Layout == pc \in Child /\ ~Clash => NumbersKept /\ Survives /\ SocketAt /\ InputAt /\ OutputAt
-----------------------------------------------------------------------------
(***************************************************************************)
(* Lemmas about the system calls                                           *)
(***************************************************************************)
\* The numbers of the three standard descriptors, and 3, are numbers.
LEMMA SmallFds == 0 .. 3 \subseteq Fds /\ Fds \subseteq Int /\ -1 \notin Fds
BY LaunchAssumption DEF Fds

\* One number is set; the others, and whether exec closes them, are not touched.
LEMMA PutFacts ==
    ASSUME NEW s \in Tables, NEW n \in Fds, NEW what \in Contents
    PROVE  /\ Put(s, n, what, FALSE) \in Tables
           /\ \A k \in Fds : Put(s, n, what, FALSE).tab[k] = IF k = n THEN what ELSE s.tab[k]
           /\ \A k \in Fds : k \in Put(s, n, what, FALSE).cx <=> k # n /\ k \in s.cx
BY DEF Put, Tables

LEMMA PutCloexecFacts ==
    ASSUME NEW s \in Tables, NEW n \in Fds, NEW what \in Contents
    PROVE  /\ Put(s, n, what, TRUE) \in Tables
           /\ \A k \in Fds : Put(s, n, what, TRUE).tab[k] = IF k = n THEN what ELSE s.tab[k]
           /\ \A k \in Fds : k \in Put(s, n, what, TRUE).cx <=> k = n \/ k \in s.cx
BY DEF Put, Tables

LEMMA CloseFacts ==
    ASSUME NEW s \in Tables, NEW n \in Fds
    PROVE  /\ Close(s, n) \in Tables
           /\ \A k \in Fds : Close(s, n).tab[k] = IF k = n THEN "closed" ELSE s.tab[k]
           /\ \A k \in Fds : k \in Close(s, n).cx <=> k # n /\ k \in s.cx
BY PutFacts DEF Close, Contents

LEMMA CloseAllFacts ==
    ASSUME NEW s \in Tables, NEW what
    PROVE  /\ CloseAll(s, what) \in Tables
           /\ \A k \in Fds : CloseAll(s, what).tab[k] = IF s.tab[k] \in what THEN "closed" ELSE s.tab[k]
BY DEF CloseAll, Tables, Contents

LEMMA Dup2Facts ==
    ASSUME NEW s \in Tables, NEW from \in Fds, NEW to \in Fds
    PROVE  /\ Dup2(s, from, to) \in Tables
           /\ \A k \in Fds : Dup2(s, from, to).tab[k] = IF k = to THEN s.tab[from] ELSE s.tab[k]
           /\ \A k \in Fds : k \in Dup2(s, from, to).cx <=> k \in s.cx /\ (k # to \/ from = to)
<1>1. s.tab[from] \in Contents  BY DEF Tables
<1>2. CASE from = to  BY <1>2 DEF Dup2
<1>3. CASE from # to
  <2> DEFINE d == Put(s, to, s.tab[from], FALSE)
  <2>1. Dup2(s, from, to) = d  BY <1>3 DEF Dup2
  <2>2. /\ d \in Tables
        /\ \A k \in Fds : d.tab[k] = IF k = to THEN s.tab[from] ELSE s.tab[k]
        /\ \A k \in Fds : k \in d.cx <=> k # to /\ k \in s.cx
    BY <1>1, PutFacts, Zenon
  <2> HIDE DEF d
  <2> QED  BY <1>3, <2>1, <2>2
<1> QED  BY <1>2, <1>3

\* A descriptor that is moved has its new number only, and outlives exec.
LEMMA MoveFacts ==
    ASSUME NEW s \in Tables, NEW n \in Fds, NEW to \in Fds
    PROVE  /\ move_fd(s, n, to) \in Tables
           /\ \A k \in Fds : move_fd(s, n, to).tab[k] =
                IF k = to THEN s.tab[n] ELSE IF k = n THEN "closed" ELSE s.tab[k]
           /\ \A k \in Fds : k \in move_fd(s, n, to).cx <=> k \in s.cx /\ (n = to \/ k \notin {n, to})
<1>1. CASE n = to  BY <1>1 DEF move_fd
<1>2. CASE n # to
  <2> DEFINE d == Dup2(s, n, to)
  <2>1. move_fd(s, n, to) = Close(d, n)  BY <1>2 DEF move_fd
  <2>2. /\ d \in Tables
        /\ \A k \in Fds : d.tab[k] = IF k = to THEN s.tab[n] ELSE s.tab[k]
        /\ \A k \in Fds : k \in d.cx <=> k \in s.cx /\ k # to
    <3>1. d \in Tables  BY Dup2Facts
    <3>2. \A k \in Fds : d.tab[k] = IF k = to THEN s.tab[n] ELSE s.tab[k]  BY Dup2Facts
    <3>3. \A k \in Fds : k \in d.cx <=> k \in s.cx /\ (k # to \/ n = to)  BY Dup2Facts, SMTT(30)
    <3> HIDE DEF d
    <3> QED  BY <1>2, <3>1, <3>2, <3>3
  <2> HIDE DEF d
  <2>3. /\ Close(d, n) \in Tables
        /\ \A k \in Fds : Close(d, n).tab[k] = IF k = n THEN "closed" ELSE d.tab[k]
        /\ \A k \in Fds : k \in Close(d, n).cx <=> k # n /\ k \in d.cx
    BY <2>2, CloseFacts, Zenon
  <2> QED  BY <1>2, <2>1, <2>2, <2>3
<1> QED  BY <1>1, <1>2

\* A number that is given is a free one.
LEMMA LowestFacts ==
    ASSUME NEW s \in Tables, NEW min \in Nat, NEW n \in Lowest(Free(s, min))
    PROVE  n \in Fds /\ n >= min /\ s.tab[n] = "closed" /\ \A m \in Free(s, min) : n <= m
BY LaunchAssumption DEF Lowest, Free, Fds
-----------------------------------------------------------------------------
(***************************************************************************)
(* The parent                                                              *)
(***************************************************************************)
\* The names of descriptors are what tables contain, all different.
LEMMA NameFacts ==
    /\ Names = {"input", "output", "socket", "cs", "notify", "console", "wpipe"}
    /\ ReadEnds \cup {"buffer", "feed"} = {"status", "control", "ready", "buffer", "feed"}
    /\ Names \subseteq Contents /\ ReadEnds \cup {"buffer", "feed"} \subseteq Contents
BY DEF Settings, Kept, WriteEnds, ReadEnds, Names, Contents

\* What the process is given by a number of its own: exec does not close it.
Passed == {"cs", "notify"}

\* d is s with what at n, to be closed by exec or not.
IsPut(d, s, n, what, cx) ==
    /\ d \in Tables
    /\ \A k \in Fds : d.tab[k] = IF k = n THEN what ELSE s.tab[k]
    /\ \A k \in Fds : k \in d.cx <=> (k = n /\ cx) \/ (k # n /\ k \in s.cx)

LEMMA PutIsPut ==
    ASSUME NEW s \in Tables, NEW n \in Fds, NEW what \in Contents, NEW cx \in BOOLEAN
    PROVE  IsPut(Put(s, n, what, cx), s, n, what, cx)
<1>1. CASE cx = TRUE
  <2>1. IsPut(Put(s, n, what, TRUE), s, n, what, TRUE)  BY DEF Put, Tables, IsPut
  <2> QED  BY <1>1, <2>1, Zenon
<1>2. CASE cx = FALSE
  <2>1. IsPut(Put(s, n, what, FALSE), s, n, what, FALSE)  BY DEF Put, Tables, IsPut
  <2> QED  BY <1>2, <2>1, Zenon
<1> QED  BY <1>1, <1>2

\* What is opened for the parent alone has a number of its own, above 2.
LEMMA OpenForParent ==
    ASSUME NEW s \in Tables, NEW f \in Numbers, OpenedIn(s, f),
           NEW n \in Fds, s.tab[n] = "closed", NEW r \in ReadEnds \cup {"buffer", "feed"},
           NEW d, IsPut(d, s, n, r, TRUE)
    PROVE  OpenedIn(d, f) /\ n >= 3
<1>1. n >= 3 /\ 3 .. MaxFd \subseteq Fds  BY SmallFds, LaunchAssumption DEF OpenedIn, Fds
<1>2. OpenedIn(d, f)  BY <1>1, SmallFds, NameFacts DEF OpenedIn, IsPut
<1> QED  BY <1>1, <1>2

\* What is opened for the child has the number in its variable, and exec closes
\* it or not as it is to.
LEMMA OpenForChild ==
    ASSUME NEW s \in Tables, NEW f \in Numbers, OpenedIn(s, f),
           NEW n \in Fds, s.tab[n] = "closed", NEW x \in Names, f[x] = -1, x \in WriteEnds => n >= 4,
           NEW d, IsPut(d, s, n, x, x \notin Passed)
    PROVE  OpenedIn(d, [f EXCEPT ![x] = n])
<1>2. n >= 3 /\ 3 .. MaxFd \subseteq Fds  BY SmallFds, LaunchAssumption DEF OpenedIn, Fds
<1> DEFINE g == [f EXCEPT ![x] = n]
<1>3. \A y \in Names : g[y] = IF y = x THEN n ELSE f[y]  BY DEF Numbers
<1> HIDE DEF g
<1>4. \A y \in Names : \A k \in Fds : d.tab[k] = y <=> k = g[y]
  BY <1>3, SmallFds, NameFacts DEF OpenedIn, IsPut, Passed
<1>5. \A k \in 0 .. 2 : d.tab[k] = "tty" /\ k \notin d.cx  BY <1>2, SmallFds DEF OpenedIn, IsPut, Passed
<1>6. \A k \in 3 .. MaxFd : d.tab[k] \in {"closed", "cs", "notify"} <=> k \notin d.cx
  BY <1>2, NameFacts DEF OpenedIn, IsPut, Passed
<1>7. \A y \in WriteEnds : g[y] = -1 \/ g[y] >= 4  BY <1>3, NameFacts DEF OpenedIn, WriteEnds
<1>8. OpenedIn(d, g)  BY <1>4, <1>5, <1>6, <1>7 DEF OpenedIn
<1> QED  BY <1>8 DEF g

\* A pair that is opened: the child's end has the number in its variable.
LEMMA PairFacts ==
    ASSUME NEW from \in BeforeFork, NEW to, NEW x \in Names, NEW r \in ReadEnds \cup {"buffer", "feed"},
           LaunchType, Opened, fd[x] = -1,
           Pair(from, to, TRUE, x, r, x \notin Passed)
    PROVE  /\ t' \in Tables /\ fd' \in Numbers /\ OpenedIn(t', fd') /\ fd'[x] # -1
           /\ \A y \in Names : y # x => fd'[y] = fd[y]
           /\ \A k \in Fds : t'.tab[k] \in {t.tab[k], r, x}
<1>1. pc = from  BY DEF Pair, Step
<1>2. t \in Tables /\ fd \in Numbers /\ OpenedIn(t, fd)  BY <1>1 DEF LaunchType, Opened
<1>3. PICK n \in Lowest(Free(t, 0)) : \E m \in Lowest(Free(t, n + 1)) :
        t' = Put(Put(t, n, r, TRUE), m, x, x \notin Passed) /\ fd' = [fd EXCEPT ![x] = m]
  BY DEF Pair, Step
<1>4. n \in Fds /\ n \in Nat /\ t.tab[n] = "closed"
  <2>1. n \in Fds /\ t.tab[n] = "closed"  BY <1>2, LowestFacts
  <2> QED  BY <2>1, LaunchAssumption DEF Fds
<1>5. PICK m \in Lowest(Free(t, n + 1)) :
        t' = Put(Put(t, n, r, TRUE), m, x, x \notin Passed) /\ fd' = [fd EXCEPT ![x] = m]
  BY <1>3
<1> DEFINE d == Put(t, n, r, TRUE)
<1>6. IsPut(d, t, n, r, TRUE)
  <2>1. r \in Contents  BY NameFacts
  <2> QED  BY <1>2, <1>4, <2>1, PutIsPut, Zenon
<1> HIDE DEF d
<1>7. OpenedIn(d, fd) /\ n >= 3  BY <1>2, <1>4, <1>6, OpenForParent, Zenon
<1>8. m \in Fds /\ m >= 4 /\ m # n /\ t.tab[m] = "closed"
  <2>1. n + 1 \in Nat  BY <1>4
  <2>2. m \in Fds /\ m >= n + 1 /\ t.tab[m] = "closed"  BY <1>2, <2>1, LowestFacts
  <2> QED  BY <1>4, <1>7, <2>2, LaunchAssumption DEF Fds
<1>9. IsPut(t', d, m, x, x \notin Passed)
  <2>1. x \in Contents /\ d \in Tables  BY <1>6, NameFacts DEF IsPut
  <2>2. IsPut(Put(d, m, x, x \notin Passed), d, m, x, x \notin Passed)  BY <1>8, <2>1, PutIsPut, Zenon
  <2> QED  BY <1>5, <2>2, Zenon DEF d
<1>10. OpenedIn(t', fd')
  <2>1. d.tab[m] = "closed" /\ d \in Tables  BY <1>8, <1>6 DEF IsPut
  <2>2. OpenedIn(t', [fd EXCEPT ![x] = m])
    BY <1>2, <1>7, <1>8, <1>9, <2>1, OpenForChild, Zenon
  <2> QED  BY <1>5, <2>2
<1>11. fd' \in Numbers /\ fd'[x] # -1 /\ \A y \in Names : y # x => fd'[y] = fd[y]
  BY <1>2, <1>5, <1>8, SmallFds DEF Numbers
<1> QED  BY <1>6, <1>9, <1>10, <1>11 DEF IsPut

\* The status pipe that is opened has a reading end.
LEMMA StatusEnd ==
    ASSUME LaunchType, StatusPipe
    PROVE  \E k \in Fds : t'.tab[k] = "status"
<1>1. t \in Tables  BY DEF StatusPipe, Pair, Step, LaunchType, BeforeFork
<1>2. PICK n \in Lowest(Free(t, 0)) : \E m \in Lowest(Free(t, n + 1)) :
        t' = Put(Put(t, n, "status", TRUE), m, "wpipe", TRUE)
  BY DEF StatusPipe, Pair, Step
<1>3. n \in Fds /\ n + 1 \in Nat  BY <1>1, LowestFacts, LaunchAssumption DEF Fds
<1>4. PICK m \in Lowest(Free(t, n + 1)) : t' = Put(Put(t, n, "status", TRUE), m, "wpipe", TRUE)  BY <1>2
<1>5. m \in Fds /\ m # n  BY <1>1, <1>3, <1>4, LowestFacts, LaunchAssumption DEF Fds
<1>6. t'.tab[n] = "status"  BY <1>1, <1>3, <1>4, <1>5 DEF Put, Tables
<1> QED  BY <1>3, <1>6

LEMMA SocketStep ==
    ASSUME PipeInv, open_socket
    PROVE  PipeInv'
<1> USE DEF PipeInv
<1>1. pc = "socket" /\ pc' = "status" /\ Unforked /\ Same  BY DEF open_socket, Step
<1>2. t \in Tables /\ fd \in Numbers /\ OpenedIn(t, fd)  BY <1>1 DEF LaunchType, Opened, BeforeFork
<1>3. /\ t' \in Tables /\ fd' \in Numbers /\ OpenedIn(t', fd')
      /\ fd'.socket # -1 <=> "socket" \in asked
      /\ \A y \in Names : y # "socket" => fd'[y] = fd[y]
      /\ \A k \in Fds : t'.tab[k] \in {t.tab[k], "socket"}
  <2>1. CASE "socket" \notin asked \/ fd.socket # -1
    <3>1. t' = t /\ fd' = fd  BY <2>1 DEF open_socket, Step
    <3> QED  BY <1>1, <1>2, <2>1, <3>1 DEF AskedIsOpen
  <2>2. CASE ~("socket" \notin asked \/ fd.socket # -1)
    <3>1. PICK n \in Lowest(Free(t, 0)) : t' = Put(t, n, "socket", TRUE) /\ fd' = [fd EXCEPT !.socket = n]
      BY <2>2 DEF open_socket, Step
    <3>2. n \in Fds /\ t.tab[n] = "closed"  BY <1>2, LowestFacts
    <3>3. IsPut(t', t, n, "socket", TRUE)
      <4>1. "socket" \in Contents  BY NameFacts
      <4> QED  BY <1>2, <3>1, <3>2, <4>1, PutIsPut, Zenon
    <3>4. OpenedIn(t', [fd EXCEPT !["socket"] = n])
      <4>1. "socket" \in Names /\ "socket" \notin WriteEnds /\ ("socket" \notin Passed) = TRUE
        BY NameFacts DEF WriteEnds, Passed
      <4>2. fd["socket"] = -1  BY <2>2
      <4>3. IsPut(t', t, n, "socket", "socket" \notin Passed)  BY <3>3, <4>1, Zenon
      <4> QED  BY <1>2, <3>2, <4>1, <4>2, <4>3, OpenForChild, Zenon
    <3> QED  BY <1>2, <2>2, <3>1, <3>2, <3>3, <3>4, SmallFds, NameFacts DEF Numbers, IsPut
  <2> QED  BY <2>1, <2>2
<1>4. LaunchType'  BY <1>1, <1>3 DEF LaunchType, Stages, BeforeFork, Unforked, Same
<1>5. AskedIsOpen'  BY <1>1, <1>3, NameFacts DEF AskedIsOpen, BeforeFork, Same
<1>6. EndsOfParent'  BY <1>1, <1>3 DEF EndsOfParent, Unforked, WriteEnds, ReadEnds
<1>7. Opened' /\ StatusPipeKept' /\ FailureIsTold'
  BY <1>1, <1>3 DEF Opened, StatusPipeKept, FailureIsTold, Child, Arranging, Redirecting, Ending
<1> QED  BY <1>4, <1>5, <1>6, <1>7

LEMMA PairStep ==
    ASSUME PipeInv, StatusPipe \/ LogPipe \/ ControlSocket \/ NotifyPipe
    PROVE  PipeInv'
<1> USE DEF PipeInv
<1>0. /\ BeforeFork \cap Child = {} /\ "failed" \notin BeforeFork /\ BeforeFork \subseteq Stages
      /\ {"status", "input", "log", "control", "ready", "fork"} \subseteq BeforeFork
  BY DEF BeforeFork, Child, Arranging, Redirecting, Ending, Stages
<1>1. ASSUME pc \in BeforeFork, pc' \in BeforeFork, Unforked, Same,
             t' \in Tables, fd' \in Numbers, OpenedIn(t', fd')
      PROVE  LaunchType' /\ Opened' /\ StatusPipeKept' /\ FailureIsTold'
  BY <1>0, <1>1 DEF LaunchType, Opened, StatusPipeKept, FailureIsTold, Unforked, Same
<1>2. CASE StatusPipe
  <2>1. pc = "status" /\ pc' = "input" /\ Unforked /\ Same /\ fd.wpipe = -1
    BY <1>2 DEF StatusPipe, Pair, Step, AskedIsOpen, BeforeFork
  <2>2. /\ t' \in Tables /\ fd' \in Numbers /\ OpenedIn(t', fd')
        /\ fd'.wpipe # -1
        /\ \A y \in Names : y # "wpipe" => fd'[y] = fd[y]
        /\ \A k \in Fds : t'.tab[k] \in {t.tab[k], "status", "wpipe"}
        /\ \E k \in Fds : t'.tab[k] = "status"
    <3>1. /\ "wpipe" \in Names /\ "status" \in ReadEnds \cup {"buffer", "feed"}
          /\ TRUE = ("wpipe" \notin Passed) /\ fd["wpipe"] = -1
      BY <2>1, NameFacts DEF Passed
    <3>2. Pair("status", "input", TRUE, "wpipe", "status", "wpipe" \notin Passed)  BY <1>2, <3>1 DEF StatusPipe
    <3>3. /\ t' \in Tables /\ fd' \in Numbers /\ OpenedIn(t', fd') /\ fd'["wpipe"] # -1
          /\ \A y \in Names : y # "wpipe" => fd'[y] = fd[y]
          /\ \A k \in Fds : t'.tab[k] \in {t.tab[k], "status", "wpipe"}
      BY <1>0, <3>1, <3>2, PairFacts, Zenon
    <3>4. \E k \in Fds : t'.tab[k] = "status"  BY <1>2, StatusEnd
    <3> QED  BY <3>3, <3>4
  <2>3. AskedIsOpen'  BY <2>1, <2>2, NameFacts DEF AskedIsOpen, BeforeFork, Ending, Same
  <2>4. EndsOfParent'
    <3>1. fd'.wpipe \in Fds /\ t'.tab[fd'.wpipe] = "wpipe"
      BY <2>2, NameFacts DEF Numbers, OpenedIn
    <3> QED  BY <2>1, <2>2, <3>1 DEF EndsOfParent, Unforked
  <2> QED  BY <1>0, <1>1, <2>1, <2>2, <2>3, <2>4
<1>3. CASE LogPipe
  <2>1. pc = "log" /\ pc' = "control" /\ Unforked /\ Same /\ (fd.output # -1 => "output" \in asked)
    BY <1>3 DEF LogPipe, Pair, Step, AskedIsOpen, BeforeFork
  <2>2. /\ t' \in Tables /\ fd' \in Numbers /\ OpenedIn(t', fd')
        /\ fd'.output # -1 <=> "output" \in asked
        /\ \A y \in Names : y # "output" => fd'[y] = fd[y]
    <3>1. CASE "output" \in asked /\ fd.output = -1
      <4>1. /\ "output" \in Names /\ "buffer" \in ReadEnds \cup {"buffer", "feed"}
            /\ TRUE = ("output" \notin Passed) /\ fd["output"] = -1
        BY <2>1, <3>1, NameFacts DEF Passed
      <4>2. Pair("log", "control", TRUE, "output", "buffer", "output" \notin Passed)  BY <1>3, <4>1, <3>1 DEF LogPipe
      <4>3. /\ t' \in Tables /\ fd' \in Numbers /\ OpenedIn(t', fd') /\ fd'["output"] # -1
            /\ \A y \in Names : y # "output" => fd'[y] = fd[y]
            /\ \A k \in Fds : t'.tab[k] \in {t.tab[k], "buffer", "output"}
        BY <1>0, <4>1, <4>2, PairFacts, Zenon
      <4> QED  BY <3>1, <4>3
    <3>2. CASE ~("output" \in asked /\ fd.output = -1)
      <4>1. t' = t /\ fd' = fd  BY <1>3, <3>2 DEF LogPipe, Pair, Step
      <4> QED  BY <1>0, <2>1, <3>2, <4>1 DEF LaunchType, Opened
    <3> QED  BY <3>1, <3>2
  <2>3. AskedIsOpen'  BY <2>1, <2>2, NameFacts DEF AskedIsOpen, BeforeFork, Ending, Same
  <2>4. EndsOfParent'  BY <2>1, <2>2 DEF EndsOfParent, Unforked
  <2> QED  BY <1>0, <1>1, <2>1, <2>2, <2>3, <2>4
<1>4. CASE ControlSocket
  <2>1. pc = "control" /\ pc' = "ready" /\ Unforked /\ Same /\ fd.cs = -1
    BY <1>4 DEF ControlSocket, Pair, Step, AskedIsOpen, BeforeFork
  <2>2. /\ t' \in Tables /\ fd' \in Numbers /\ OpenedIn(t', fd')
        /\ fd'.cs # -1 <=> "cs" \in asked
        /\ \A y \in Names : y # "cs" => fd'[y] = fd[y]
    <3>1. CASE "cs" \in asked
      <4>1. /\ "cs" \in Names /\ "control" \in ReadEnds \cup {"buffer", "feed"}
            /\ FALSE = ("cs" \notin Passed) /\ fd["cs"] = -1
        BY <2>1, <3>1, NameFacts DEF Passed
      <4>2. Pair("control", "ready", TRUE, "cs", "control", "cs" \notin Passed)  BY <1>4, <4>1, <3>1 DEF ControlSocket
      <4>3. /\ t' \in Tables /\ fd' \in Numbers /\ OpenedIn(t', fd') /\ fd'["cs"] # -1
            /\ \A y \in Names : y # "cs" => fd'[y] = fd[y]
            /\ \A k \in Fds : t'.tab[k] \in {t.tab[k], "control", "cs"}
        BY <1>0, <4>1, <4>2, PairFacts, Zenon
      <4> QED  BY <3>1, <4>3
    <3>2. CASE ~("cs" \in asked)
      <4>1. t' = t /\ fd' = fd  BY <1>4, <3>2 DEF ControlSocket, Pair, Step
      <4> QED  BY <1>0, <2>1, <3>2, <4>1 DEF LaunchType, Opened
    <3> QED  BY <3>1, <3>2
  <2>3. AskedIsOpen'  BY <2>1, <2>2, NameFacts DEF AskedIsOpen, BeforeFork, Ending, Same
  <2>4. EndsOfParent'  BY <2>1, <2>2 DEF EndsOfParent, Unforked
  <2> QED  BY <1>0, <1>1, <2>1, <2>2, <2>3, <2>4
<1>5. CASE NotifyPipe
  <2>1. pc = "ready" /\ pc' = "fork" /\ Unforked /\ Same /\ fd.notify = -1
    BY <1>5 DEF NotifyPipe, Pair, Step, AskedIsOpen, BeforeFork
  <2>2. /\ t' \in Tables /\ fd' \in Numbers /\ OpenedIn(t', fd')
        /\ fd'.notify # -1 <=> "notify" \in asked
        /\ \A y \in Names : y # "notify" => fd'[y] = fd[y]
    <3>1. CASE "notify" \in asked
      <4>1. /\ "notify" \in Names /\ "ready" \in ReadEnds \cup {"buffer", "feed"}
            /\ FALSE = ("notify" \notin Passed) /\ fd["notify"] = -1
        BY <2>1, <3>1, NameFacts DEF Passed
      <4>2. Pair("ready", "fork", TRUE, "notify", "ready", "notify" \notin Passed)  BY <1>5, <4>1, <3>1 DEF NotifyPipe
      <4>3. /\ t' \in Tables /\ fd' \in Numbers /\ OpenedIn(t', fd') /\ fd'["notify"] # -1
            /\ \A y \in Names : y # "notify" => fd'[y] = fd[y]
            /\ \A k \in Fds : t'.tab[k] \in {t.tab[k], "ready", "notify"}
        BY <1>0, <4>1, <4>2, PairFacts, Zenon
      <4> QED  BY <3>1, <4>3
    <3>2. CASE ~("notify" \in asked)
      <4>1. t' = t /\ fd' = fd  BY <1>5, <3>2 DEF NotifyPipe, Pair, Step
      <4> QED  BY <1>0, <2>1, <3>2, <4>1 DEF LaunchType, Opened
    <3> QED  BY <3>1, <3>2
  <2>3. AskedIsOpen'  BY <2>1, <2>2, NameFacts DEF AskedIsOpen, BeforeFork, Ending, Same
  <2>4. EndsOfParent'  BY <2>1, <2>2 DEF EndsOfParent, Unforked
  <2> QED  BY <1>0, <1>1, <2>1, <2>2, <2>3, <2>4
<1> QED  BY <1>2, <1>3, <1>4, <1>5

\* The output of the producer that is opened: the child is to have the lower end.
LEMMA InputStep ==
    ASSUME PipeInv, InputFd
    PROVE  PipeInv'
<1> USE DEF PipeInv
<1>1. pc = "input" /\ pc' = "log" /\ Unforked /\ Same  BY DEF InputFd, Step
<1>2. t \in Tables /\ fd \in Numbers /\ OpenedIn(t, fd)  BY <1>1 DEF LaunchType, Opened, BeforeFork
<1>3. /\ t' \in Tables /\ fd' \in Numbers /\ OpenedIn(t', fd')
      /\ fd'.input # -1 <=> "input" \in asked
      /\ \A y \in Names : y # "input" => fd'[y] = fd[y]
      /\ \A k \in Fds : t'.tab[k] \in {t.tab[k], "input", "feed"}
  <2>1. CASE "input" \notin asked \/ fd.input # -1
    <3>1. t' = t /\ fd' = fd  BY <2>1 DEF InputFd, Step
    <3> QED  BY <1>1, <1>2, <2>1, <3>1 DEF AskedIsOpen
  <2>2. CASE ~("input" \notin asked \/ fd.input # -1)
    <3>1. PICK n \in Lowest(Free(t, 0)) : \E m \in Lowest(Free(t, n + 1)) :
            t' = Put(Put(t, n, "input", TRUE), m, "feed", TRUE) /\ fd' = [fd EXCEPT !.input = n]
      BY <2>2 DEF InputFd, Step
    <3>2. PICK m \in Lowest(Free(t, n + 1)) :
            t' = Put(Put(t, n, "input", TRUE), m, "feed", TRUE) /\ fd' = [fd EXCEPT !.input = n]
      BY <3>1
    <3>3. n \in Fds /\ n \in Nat /\ t.tab[n] = "closed"
      <4>1. n \in Fds /\ t.tab[n] = "closed"  BY <1>2, LowestFacts
      <4> QED  BY <4>1, LaunchAssumption DEF Fds
    <3>4. m \in Fds /\ m # n /\ t.tab[m] = "closed"
      <4>1. n + 1 \in Nat  BY <3>3
      <4>2. m \in Fds /\ m >= n + 1 /\ t.tab[m] = "closed"  BY <1>2, <4>1, LowestFacts
      <4> QED  BY <3>3, <4>2, LaunchAssumption DEF Fds
    <3> DEFINE d == Put(t, n, "input", TRUE)
               f == [fd EXCEPT !["input"] = n]
    <3>5. IsPut(d, t, n, "input", TRUE)
      <4>1. "input" \in Contents  BY NameFacts
      <4> QED  BY <1>2, <3>3, <4>1, PutIsPut, Zenon
    <3>6. OpenedIn(d, f)
      <4>1. "input" \in Names /\ "input" \notin WriteEnds /\ ("input" \notin Passed) = TRUE
        BY NameFacts DEF WriteEnds, Passed
      <4>2. fd["input"] = -1  BY <2>2
      <4>3. IsPut(d, t, n, "input", "input" \notin Passed)  BY <3>5, <4>1, Zenon
      <4> HIDE DEF d
      <4> QED  BY <1>2, <3>3, <4>1, <4>2, <4>3, OpenForChild, Zenon
    <3>7. fd' = f /\ f \in Numbers /\ f.input = n /\ \A y \in Names : y # "input" => f[y] = fd[y]
      BY <1>2, <3>2, <3>3, NameFacts DEF Numbers
    <3>8. t' = Put(d, m, "feed", TRUE)  BY <3>2
    <3> HIDE DEF d, f
    <3>9. d \in Tables /\ d.tab[m] = "closed"  BY <3>4, <3>5 DEF IsPut
    <3>10. IsPut(t', d, m, "feed", TRUE)
      <4>1. "feed" \in Contents  BY NameFacts
      <4> QED  BY <3>4, <3>8, <3>9, <4>1, PutIsPut, Zenon
    <3>11. OpenedIn(t', f)
      <4>1. "feed" \in ReadEnds \cup {"buffer", "feed"}  OBVIOUS
      <4> QED  BY <3>4, <3>6, <3>7, <3>9, <3>10, <4>1, OpenForParent, Zenon
    <3> QED  BY <2>2, <3>3, <3>5, <3>7, <3>10, <3>11, SmallFds DEF IsPut
  <2> QED  BY <2>1, <2>2
<1>4. LaunchType'  BY <1>1, <1>3 DEF LaunchType, Stages, BeforeFork, Unforked, Same
<1>5. AskedIsOpen'  BY <1>1, <1>3, NameFacts DEF AskedIsOpen, BeforeFork, Same
<1>6. EndsOfParent'  BY <1>1, <1>3 DEF EndsOfParent, Unforked, WriteEnds, ReadEnds
<1>7. Opened' /\ StatusPipeKept' /\ FailureIsTold'
  BY <1>1, <1>3 DEF Opened, StatusPipeKept, FailureIsTold, Child, Arranging, Redirecting, Ending
<1> QED  BY <1>4, <1>5, <1>6, <1>7

LEMMA LaunchFailsStep ==
    ASSUME PipeInv, LaunchFails
    PROVE  PipeInv'
<1> USE DEF PipeInv
<1>1. /\ pc \in BeforeFork /\ pc' = "not_launched"
      /\ pc = "input" => "input" \in asked /\ fd.input = -1
      /\ t' = CloseAll(t, OpenedSoFar(pc)) /\ fd' = fd /\ Unforked /\ Same
  BY DEF LaunchFails, BeforeFork
<1>2. /\ t' \in Tables
      /\ \A k \in Fds : t'.tab[k] = IF t.tab[k] \in OpenedSoFar(pc) THEN "closed" ELSE t.tab[k]
  BY <1>1, CloseAllFacts DEF LaunchType
<1>3. pc' \notin BeforeFork \cup Child /\ pc' \notin {"failed", "socket", "status", "input", "log", "control"} /\ pc' \in Stages
  BY <1>1 DEF BeforeFork, Child, Arranging, Redirecting, Ending, Stages
<1>4. LaunchType'  BY <1>1, <1>2, <1>3 DEF LaunchType, Unforked, Same
<1>5. Opened' /\ StatusPipeKept' /\ FailureIsTold'
  BY <1>1, <1>3 DEF Opened, StatusPipeKept, FailureIsTold, Child
<1>6. AskedIsOpen'  BY <1>1, <1>3 DEF AskedIsOpen, BeforeFork
<1>7. EndsOfParent'
  <2>1. \A n \in Fds : parent'.tab[n] \notin WriteEnds  BY <1>1 DEF EndsOfParent, Unforked
  <2>2. InputRefused' <=> ("input" \in asked /\ fd.input = -1 /\ fd.wpipe # -1)
    BY <1>1 DEF InputRefused, Same
  <2>3. CASE pc \in {"socket", "status"}
    <3>1. ~InputRefused'  BY <2>2, <2>3 DEF AskedIsOpen
    <3>2. \A n \in Fds : t'.tab[n] \notin WriteEnds \cup ReadEnds
      BY <1>2, <2>3 DEF EndsOfParent, WriteEnds, ReadEnds
    <3> QED  BY <1>1, <2>1, <3>1, <3>2 DEF EndsOfParent
  <2>4. CASE pc = "input"
    <3>1. InputRefused'  BY <1>1, <2>2, <2>4 DEF AskedIsOpen, BeforeFork
    <3>2. OpenedSoFar(pc) = {}  BY <2>4, Zenon DEF OpenedSoFar
    <3>3. \A n \in Fds : t'.tab[n] = t.tab[n]  BY <1>2, <3>2
    <3> QED  BY <1>1, <2>1, <2>4, <3>1, <3>3 DEF EndsOfParent
  <2>5. CASE pc \in {"log", "control", "ready", "fork"}
    <3>1. ~InputRefused'  BY <1>1, <2>2, <2>5 DEF AskedIsOpen
    <3>2. \A n \in Fds : t'.tab[n] \notin WriteEnds \cup ReadEnds
      <4>1. CASE pc = "log"
        <5>1. OpenedSoFar(pc) = {"status", "wpipe"}  BY <4>1, Zenon DEF OpenedSoFar
        <5> QED  BY <1>2, <4>1, <5>1 DEF EndsOfParent, WriteEnds, ReadEnds
      <4>2. CASE pc \in {"control", "ready", "fork"}
        <5>1. OpenedSoFar(pc) = {"status", "wpipe", "control", "cs", "ready", "notify", "buffer", "output"}
          BY <4>2, Zenon DEF OpenedSoFar
        <5> QED  BY <1>2, <5>1 DEF WriteEnds, ReadEnds
      <4> QED  BY <2>5, <4>1, <4>2
    <3> QED  BY <1>1, <2>1, <3>1, <3>2 DEF EndsOfParent
  <2> QED  BY <1>1, <2>3, <2>4, <2>5 DEF BeforeFork
<1> QED  BY <1>4, <1>5, <1>6, <1>7

\* The initial table: what is open since an earlier launch has its number in
\* its variable, and exec closes all that is not a standard descriptor.
LEMMA LaunchInit == Init => PipeInv
<1> SUFFICES ASSUME Init PROVE PipeInv
  OBVIOUS
<1>1. PICK kept \in SUBSET (Kept \cap asked) :
      \E free \in SUBSET Low : \E at \in Injection(kept, Low \ free) :
         /\ fd = [x \in Settings \cup {"wpipe"} |-> IF x \in kept THEN at[x] ELSE -1]
         /\ t = [tab |-> [n \in Fds |->
                            IF \E x \in kept : at[x] = n THEN CHOOSE x \in kept : at[x] = n
                            ELSE IF n \in 0 .. 2 THEN "tty"
                            ELSE IF n \in Low \ free THEN "own" ELSE "closed"],
                 cx |-> Low \ free]
  BY DEF Init
<1>2. PICK free \in SUBSET Low : \E at \in Injection(kept, Low \ free) :
         /\ fd = [x \in Settings \cup {"wpipe"} |-> IF x \in kept THEN at[x] ELSE -1]
         /\ t = [tab |-> [n \in Fds |->
                            IF \E x \in kept : at[x] = n THEN CHOOSE x \in kept : at[x] = n
                            ELSE IF n \in 0 .. 2 THEN "tty"
                            ELSE IF n \in Low \ free THEN "own" ELSE "closed"],
                 cx |-> Low \ free]
  BY <1>1
<1>3. PICK at \in Injection(kept, Low \ free) :
         /\ fd = [x \in Settings \cup {"wpipe"} |-> IF x \in kept THEN at[x] ELSE -1]
         /\ t = [tab |-> [n \in Fds |->
                            IF \E x \in kept : at[x] = n THEN CHOOSE x \in kept : at[x] = n
                            ELSE IF n \in 0 .. 2 THEN "tty"
                            ELSE IF n \in Low \ free THEN "own" ELSE "closed"],
                 cx |-> Low \ free]
  BY <1>2
<1>4. kept \subseteq {"input", "output", "socket"} /\ kept \subseteq asked
  BY <1>1 DEF Kept
<1>5. Low \subseteq Fds /\ \A n \in Low : n \in Int /\ n >= 3  BY LaunchAssumption DEF Fds
<1>6. at \in [kept -> Low \ free] /\ \A x, y \in kept : at[x] = at[y] => x = y
  BY DEF Injection, IsInjective
<1>7. \A x \in kept : at[x] \in Low \ free /\ at[x] \in Fds /\ at[x] \in Int /\ at[x] >= 3  BY <1>5, <1>6
<1>8. /\ \A x \in kept : fd[x] = at[x]
      /\ \A x \in Names : x \notin kept => fd[x] = -1
      /\ fd \in Numbers
  BY <1>3, <1>4, <1>7, NameFacts DEF Names, Numbers
<1>9. \A n \in Fds : t.tab[n] =
        IF \E x \in kept : at[x] = n THEN CHOOSE x \in kept : at[x] = n
        ELSE IF n \in 0 .. 2 THEN "tty" ELSE IF n \in Low \ free THEN "own" ELSE "closed"
  BY <1>3
<1>10. ASSUME NEW n \in Fds
       PROVE  /\ \A x \in kept : at[x] = n => t.tab[n] = x
              /\ (\A x \in kept : at[x] # n) =>
                   t.tab[n] = IF n \in 0 .. 2 THEN "tty" ELSE IF n \in Low \ free THEN "own" ELSE "closed"
  BY <1>6, <1>9
<1>11. t.cx = Low \ free  BY <1>3
<1>12. t \in Tables
  <2>1. \A n \in Fds : t.tab[n] \in Contents  BY <1>4, <1>10, NameFacts DEF Contents
  <2>2. t.tab \in [Fds -> Contents]  BY <1>3, <2>1
  <2> QED  BY <1>3, <1>5, <2>2 DEF Tables
<1>13. OpenedIn(t, fd)
  <2>1. \A x \in Names : \A n \in Fds : t.tab[n] = x <=> n = fd[x]
    <3> SUFFICES ASSUME NEW x \in Names, NEW n \in Fds PROVE t.tab[n] = x <=> n = fd[x]
      OBVIOUS
    <3>1. CASE \E y \in kept : at[y] = n
      <4>1. PICK y \in kept : at[y] = n  BY <3>1
      <4>2. t.tab[n] = y  BY <1>10, <4>1
      <4> QED  BY <1>6, <1>8, <4>1, <4>2, SmallFds
    <3>2. CASE \A y \in kept : at[y] # n
      <4>1. t.tab[n] \in {"tty", "own", "closed"}  BY <1>10, <3>2
      <4>2. t.tab[n] # x  BY <4>1, NameFacts
      <4>3. n # fd[x]  BY <1>8, <3>2, SmallFds
      <4> QED  BY <4>2, <4>3
    <3> QED  BY <3>1, <3>2
  <2>2. \A n \in 0 .. 2 : t.tab[n] = "tty" /\ n \notin t.cx
    <3> SUFFICES ASSUME NEW n \in 0 .. 2 PROVE t.tab[n] = "tty" /\ n \notin t.cx
      OBVIOUS
    <3>1. n \in Fds /\ n < 3 /\ n \in Int  BY SmallFds
    <3>2. \A x \in kept : at[x] # n  BY <1>7, <3>1
    <3> QED  BY <1>5, <1>10, <1>11, <3>1, <3>2
  <2>3. \A n \in 3 .. MaxFd : t.tab[n] \in {"closed", "cs", "notify"} <=> n \notin t.cx
    <3> SUFFICES ASSUME NEW n \in 3 .. MaxFd
                 PROVE  t.tab[n] \in {"closed", "cs", "notify"} <=> n \notin t.cx
      OBVIOUS
    <3>1. n \in Fds /\ n \notin 0 .. 2  BY LaunchAssumption DEF Fds
    <3>2. CASE \E y \in kept : at[y] = n
      <4>1. PICK y \in kept : at[y] = n  BY <3>2
      <4>2. t.tab[n] = y  BY <1>10, <3>1, <4>1
      <4> QED  BY <1>4, <1>7, <1>11, <4>1, <4>2
    <3>3. CASE \A y \in kept : at[y] # n  BY <1>10, <1>11, <3>1, <3>3
    <3> QED  BY <3>2, <3>3
  <2>4. \A x \in WriteEnds : fd[x] = -1 \/ fd[x] >= 4  BY <1>4, <1>8, NameFacts DEF WriteEnds
  <2> QED  BY <2>1, <2>2, <2>3, <2>4 DEF OpenedIn
<1>14. given = fd /\ parent = t /\ pc = "socket" /\ told = "nothing" /\ asked \in SUBSET Settings
  BY DEF Init
<1>15. LaunchType
  <2>1. force \in Fds \cup {-1} /\ (force # -1 => "notify" \in asked)  BY LaunchAssumption DEF Init
  <2> QED  BY <1>8, <1>12, <1>14, <2>1 DEF LaunchType, Stages, BeforeFork
<1>16. AskedIsOpen  BY <1>4, <1>7, <1>8, <1>14, NameFacts DEF AskedIsOpen, BeforeFork
<1>17. EndsOfParent
  <2>1. \A n \in Fds : t.tab[n] \notin WriteEnds \cup ReadEnds
    BY <1>4, <1>10 DEF WriteEnds, ReadEnds
  <2> QED  BY <1>14, <2>1 DEF EndsOfParent
<1>18. Opened /\ StatusPipeKept /\ FailureIsTold
  BY <1>13, <1>14 DEF Opened, StatusPipeKept, FailureIsTold, Child, Arranging, Redirecting, Ending
<1> QED  BY <1>15, <1>16, <1>17, <1>18 DEF PipeInv

LEMMA ForkStep ==
    ASSUME PipeInv, Fork
    PROVE  PipeInv'
<1> USE DEF PipeInv
<1>1. /\ pc = "fork" /\ pc' = "stdin" /\ t' = t /\ fd' = fd /\ given' = fd /\ Same
      /\ parent' = CloseAll(t, WriteEnds)
  BY DEF Fork
<1>2. OpenedIn(t, fd)  BY <1>1 DEF Opened, BeforeFork
<1>3. parent' \in Tables /\ \A k \in Fds : parent'.tab[k] \notin WriteEnds
  BY <1>1, CloseAllFacts DEF LaunchType, WriteEnds
<1>4. LaunchType'  BY <1>1, <1>3 DEF LaunchType, Same, Stages, Child
<1>5. Opened' /\ FailureIsTold'  BY <1>1, <1>2 DEF Opened, FailureIsTold
<1>6. EndsOfParent'  BY <1>1, <1>3 DEF EndsOfParent
<1>7. AskedIsOpen'  BY <1>1 DEF AskedIsOpen, Same, BeforeFork, Child, Ending
<1>8. StatusPipeKept'
  <2>1. fd.wpipe # -1  BY <1>1 DEF AskedIsOpen, BeforeFork
  <2>2. fd.wpipe \in Fds /\ fd.wpipe \in 3 .. MaxFd
    <3>1. fd.wpipe \in Fds /\ fd.wpipe >= 4  BY <1>2, <2>1, NameFacts DEF LaunchType, Numbers, OpenedIn, WriteEnds
    <3> QED  BY <3>1, LaunchAssumption DEF Fds
  <2>3. \A x \in Names : fd[x] # -1 => t.tab[fd[x]] = x  BY <1>2 DEF LaunchType, Numbers, OpenedIn
  <2>4. \A x \in {"cs", "notify", "socket", "output"} : fd[x] # fd.wpipe  BY <2>1, <2>3, NameFacts
  <2> QED  BY <1>1, <2>1, <2>2, <2>3, <2>4, NameFacts DEF StatusPipeKept
<1> QED  BY <1>4, <1>5, <1>6, <1>7, <1>8
-----------------------------------------------------------------------------
(***************************************************************************)
(* The child: what each of its steps does to the table and the variables   *)
(***************************************************************************)
IsMove(d, s, n, to) ==
    /\ d \in Tables
    /\ \A k \in Fds : d.tab[k] = IF k = to THEN s.tab[n] ELSE IF k = n THEN "closed" ELSE s.tab[k]
    /\ \A k \in Fds : k \in d.cx <=> k \in s.cx /\ (n = to \/ k \notin {n, to})

LEMMA MoveIsMove ==
    ASSUME NEW s \in Tables, NEW n \in Fds, NEW to \in Fds
    PROVE  IsMove(move_fd(s, n, to), s, n, to)
<1> DEFINE d == move_fd(s, n, to)
<1>1. d \in Tables  BY MoveFacts
<1>2. \A k \in Fds : d.tab[k] = IF k = to THEN s.tab[n] ELSE IF k = n THEN "closed" ELSE s.tab[k]  BY MoveFacts
<1>3. \A k \in Fds : k \in d.cx <=> k \in s.cx /\ (n = to \/ k \notin {n, to})  BY MoveFacts, SMTT(30)
<1> HIDE DEF d
<1>4. IsMove(d, s, n, to)  BY <1>1, <1>2, <1>3 DEF IsMove
<1> QED  BY <1>4 DEF d

LEMMA Dup2IsPut ==
    ASSUME NEW s \in Tables, NEW from \in Fds, NEW to \in Fds, from # to
    PROVE  IsPut(Dup2(s, from, to), s, to, s.tab[from], FALSE)
<1> DEFINE d == Dup2(s, from, to)
<1>1. d \in Tables  BY Dup2Facts
<1>2. \A k \in Fds : d.tab[k] = IF k = to THEN s.tab[from] ELSE s.tab[k]  BY Dup2Facts
<1>3. \A k \in Fds : k \in d.cx <=> k \in s.cx /\ (k # to \/ from = to)  BY Dup2Facts, SMTT(30)
<1> HIDE DEF d
<1>4. IsPut(d, s, to, s.tab[from], FALSE)  BY <1>1, <1>2, <1>3 DEF IsPut
<1> QED  BY <1>4 DEF d

\* The descriptor of x has been put out of the way, to number n.
IsReserved(d, s, x, n) ==
    /\ d \in Tables
    /\ \A k \in Fds : d.tab[k] = IF k = fd[x] THEN "closed" ELSE IF k = n THEN s.tab[fd[x]] ELSE s.tab[k]
    /\ \A k \in Fds : k \in d.cx <=> k # fd[x] /\ (k = n \/ k \in s.cx)

ChildStep(from, to) == pc = from /\ pc' = to /\ Unforked /\ Same

LEMMA ChildStages ==
    /\ Child = {"stdin", "free_wpipe", "free_cs", "free_socket", "take", "above_wpipe", "above_cs", "above_notify",
                "environment", "null", "output", "stdout", "limits", "cgroup", "privileges", "exec"}
    /\ Child \cap BeforeFork = {} /\ {"running", "failed"} \cap (Child \cup BeforeFork) = {}
    /\ Child \cup {"running", "failed"} \subseteq Stages
BY DEF Child, Arranging, Redirecting, Ending, BeforeFork, Stages

LEMMA MoveInputFacts ==
    ASSUME LaunchType, MoveInput
    PROVE  /\ ChildStep("stdin", "free_wpipe") /\ fd' = fd /\ t' \in Tables
           /\ fd.input = -1 => t' = t
           /\ fd.input # -1 => fd.input \in Fds /\ IsMove(t', t, fd.input, 0)
<1>1. ChildStep("stdin", "free_wpipe") /\ fd' = fd  BY DEF MoveInput, Step, ChildStep
<1>2. CASE fd.input = -1  BY <1>1, <1>2 DEF MoveInput, Step, LaunchType
<1>3. CASE fd.input # -1
  <2>1. fd.input \in Fds /\ 0 \in Fds /\ t \in Tables  BY <1>3, SmallFds, NameFacts DEF LaunchType, Numbers
  <2>2. t' = move_fd(t, fd.input, 0)  BY <1>3 DEF MoveInput, Step
  <2>3. IsMove(move_fd(t, fd.input, 0), t, fd.input, 0)  BY <2>1, MoveIsMove, Zenon
  <2> QED  BY <1>1, <1>3, <2>1, <2>2, <2>3 DEF IsMove
<1> QED  BY <1>2, <1>3

LEMMA FreeForcedFacts ==
    ASSUME LaunchType, NEW x \in Names, NEW from, NEW to, NEW min \in Nat, FreeForcedNumber(x, from, to, min)
    PROVE  /\ ChildStep(from, to)
           /\ force = -1 \/ fd[x] # force => t' = t /\ fd' = fd
           /\ force # -1 /\ fd[x] = force => 
                /\ fd[x] \in Fds
                /\ \E n \in Fds : n >= min /\ t.tab[n] = "closed" /\ fd' = [fd EXCEPT ![x] = n] /\ IsReserved(t', t, x, n)
<1>1. CASE force = -1 \/ fd[x] # force  BY <1>1 DEF FreeForcedNumber, Step, ChildStep
<1>2. CASE force # -1 /\ fd[x] = force
  <2>1. PICK n \in Lowest(Free(t, min)) :
          Step(from, to, Close(Put(t, n, t.tab[fd[x]], TRUE), fd[x]), [fd EXCEPT ![x] = n])
    BY <1>2 DEF FreeForcedNumber
  <2>2. t \in Tables /\ fd[x] \in Fds /\ t.tab[fd[x]] \in Contents
    BY <1>2 DEF LaunchType, Tables
  <2>3. n \in Fds /\ n >= min /\ t.tab[n] = "closed"  BY <2>2, LowestFacts
  <2> DEFINE d == Put(t, n, t.tab[fd[x]], TRUE)
  <2>4. IsPut(d, t, n, t.tab[fd[x]], TRUE)  BY <2>2, <2>3, PutIsPut, Zenon
  <2>5. t' = Close(d, fd[x]) /\ fd' = [fd EXCEPT ![x] = n] /\ ChildStep(from, to)
    BY <2>1 DEF Step, ChildStep
  <2> HIDE DEF d
  <2>6. /\ Close(d, fd[x]) \in Tables
        /\ \A k \in Fds : Close(d, fd[x]).tab[k] = IF k = fd[x] THEN "closed" ELSE d.tab[k]
        /\ \A k \in Fds : k \in Close(d, fd[x]).cx <=> k # fd[x] /\ k \in d.cx
    <3>1. d \in Tables  BY <2>4 DEF IsPut
    <3> QED  BY <2>2, <3>1, CloseFacts, Zenon
  <2>7. IsReserved(t', t, x, n)  BY <2>4, <2>5, <2>6 DEF IsReserved, IsPut
  <2> QED  BY <1>2, <2>2, <2>3, <2>5, <2>7
<1> QED  BY <1>1, <1>2

LEMMA TakeFacts ==
    ASSUME LaunchType, AskedIsOpen, TakeForcedNumber
    PROVE  /\ ChildStep("take", "above_wpipe") /\ fd' \in Numbers
           /\ force \in {-1, fd.notify} => t' = t /\ fd' = fd
           /\ force \notin {-1, fd.notify} =>
                /\ fd.notify \in Fds /\ force \in Fds
                /\ IsMove(t', t, fd.notify, force) /\ fd' = [fd EXCEPT !.notify = force]
<1>1. CASE force \in {-1, fd.notify}  BY <1>1 DEF TakeForcedNumber, Step, ChildStep, LaunchType
<1>2. CASE force \notin {-1, fd.notify}
  <2>1. ChildStep("take", "above_wpipe") /\ t' = move_fd(t, fd.notify, force) /\ fd' = [fd EXCEPT !.notify = force]
    BY <1>2 DEF TakeForcedNumber, Step, ChildStep
  <2>2. fd.notify # -1
    <3>1. "notify" \in asked  BY <1>2 DEF LaunchType
    <3> QED  BY <2>1, <3>1, ChildStages DEF AskedIsOpen, ChildStep, BeforeFork
  <2>3. t \in Tables /\ fd.notify \in Fds /\ force \in Fds
    BY <1>2, <2>2, NameFacts DEF LaunchType, Numbers
  <2>4. IsMove(move_fd(t, fd.notify, force), t, fd.notify, force)  BY <2>3, MoveIsMove, Zenon
  <2>5. fd' \in Numbers  BY <2>1, <2>3 DEF LaunchType, Numbers
  <2> QED  BY <1>2, <2>1, <2>3, <2>4, <2>5
<1> QED  BY <1>1, <1>2

LEMMA AboveMinFacts ==
    ASSUME LaunchType, NEW x \in Names, NEW from, NEW to, NEW cx \in BOOLEAN, AboveMin(x, from, to, cx)
    PROVE  /\ ChildStep(from, to)
           /\ \/ t' = t /\ fd' = fd /\ (fd[x] = -1 \/ fd[x] >= minfd \/ (x = "notify" /\ fd[x] = force))
              \/ /\ fd[x] # -1 /\ ~(fd[x] >= minfd) /\ ~(x = "notify" /\ fd[x] = force) /\ fd[x] \in Fds
                 /\ \E n \in Fds : /\ n >= minfd /\ t.tab[n] = "closed" /\ fd' = [fd EXCEPT ![x] = n]
                                   /\ IsPut(t', t, n, t.tab[fd[x]], cx)
<1>1. CASE fd[x] = -1 \/ fd[x] >= minfd \/ (x = "notify" /\ fd[x] = force)
  BY <1>1 DEF AboveMin, Step, ChildStep
<1>2. CASE ~(fd[x] = -1 \/ fd[x] >= minfd \/ (x = "notify" /\ fd[x] = force))
  <2>1. PICK n \in Lowest(Free(t, minfd)) : Step(from, to, Put(t, n, t.tab[fd[x]], cx), [fd EXCEPT ![x] = n])
    BY <1>2 DEF AboveMin
  <2>2. fd[x] \in Fds /\ t \in Tables /\ t.tab[fd[x]] \in Contents /\ minfd \in Nat
    BY <1>2 DEF LaunchType, Numbers, Tables, minfd
  <2>3. n \in Fds /\ n >= minfd /\ t.tab[n] = "closed"  BY <2>2, LowestFacts
  <2>4. IsPut(Put(t, n, t.tab[fd[x]], cx), t, n, t.tab[fd[x]], cx)  BY <2>2, <2>3, PutIsPut, Zenon
  <2>5. /\ t' = Put(t, n, t.tab[fd[x]], cx) /\ fd' = [fd EXCEPT ![x] = n] /\ ChildStep(from, to)
    BY <2>1 DEF Step, ChildStep
  <2> QED  BY <1>2, <2>2, <2>3, <2>4, <2>5
<1> QED  BY <1>1, <1>2

LEMMA EnvironmentFacts ==
    ASSUME LaunchType, Environment
    PROVE  /\ ChildStep("environment", IF "console" \in asked THEN "limits" ELSE "null")
           /\ fd' = fd /\ t' \in Tables
           /\ fd.socket = -1 => t' = t
           /\ fd.socket # -1 => fd.socket \in Fds /\ IsMove(t', t, fd.socket, 3)
<1>1. ChildStep("environment", IF "console" \in asked THEN "limits" ELSE "null") /\ fd' = fd
  BY DEF Environment, Step, ChildStep
<1>2. CASE fd.socket = -1  BY <1>1, <1>2 DEF Environment, Step, LaunchType
<1>3. CASE fd.socket # -1
  <2>1. fd.socket \in Fds /\ 3 \in Fds /\ t \in Tables  BY <1>3, SmallFds, NameFacts DEF LaunchType, Numbers
  <2>2. t' = move_fd(t, fd.socket, 3)  BY <1>3 DEF Environment, Step
  <2>3. IsMove(move_fd(t, fd.socket, 3), t, fd.socket, 3)  BY <2>1, MoveIsMove, Zenon
  <2> QED  BY <1>1, <1>3, <2>1, <2>2, <2>3 DEF IsMove
<1> QED  BY <1>2, <1>3

LEMMA StdinFacts ==
    ASSUME LaunchType, Stdin
    PROVE  LET closing == {n \in 0 .. 2 : n # force /\ ~(n = 0 /\ fd.input # -1)}
               null == fd.notify # 0 /\ fd.input = -1
           IN  /\ ChildStep("null", "output") /\ fd' = fd /\ t' \in Tables
               /\ \A k \in Fds : t'.tab[k] = IF k = 0 /\ null THEN "null"
                                             ELSE IF k \in closing THEN "closed" ELSE t.tab[k]
               /\ \A k \in Fds : k \in t'.cx => k \in t.cx
               /\ \A k \in Fds : k \notin 0 .. 2 /\ k \in t.cx => k \in t'.cx
<1> DEFINE closing == {n \in 0 .. 2 : n # force /\ ~(n = 0 /\ fd.input # -1)}
           closed == [tab |-> [n \in Fds |-> IF n \in closing THEN "closed" ELSE t.tab[n]], cx |-> t.cx \ closing]
<1>1. ChildStep("null", "output") /\ fd' = fd  BY DEF Stdin, Step, ChildStep
<1>2. t' = IF fd.notify # 0 /\ fd.input = -1 THEN Put(closed, 0, "null", FALSE) ELSE closed
  BY DEF Stdin, Step
<1>3. /\ closed \in Tables
      /\ \A k \in Fds : closed.tab[k] = IF k \in closing THEN "closed" ELSE t.tab[k]
      /\ \A k \in Fds : k \in closed.cx <=> k \in t.cx /\ k \notin closing
  BY DEF LaunchType, Tables, Contents
<1>4. \A k \in closing : k \in 0 .. 2  OBVIOUS
<1> HIDE DEF closing, closed
<1>5. CASE ~(fd.notify # 0 /\ fd.input = -1)
  <2>1. t' = closed  BY <1>2, <1>5
  <2> QED  BY <1>1, <1>3, <1>4, <1>5, <2>1 DEF closing
<1>6. CASE fd.notify # 0 /\ fd.input = -1
  <2>1. t' = Put(closed, 0, "null", FALSE)  BY <1>2, <1>6
  <2>2. 0 \in Fds /\ "null" \in Contents /\ 0 \in 0 .. 2  BY SmallFds DEF Contents
  <2>3. IsPut(Put(closed, 0, "null", FALSE), closed, 0, "null", FALSE)  BY <1>3, <2>2, PutIsPut, Zenon
  <2>4. /\ t' \in Tables
        /\ \A k \in Fds : t'.tab[k] = IF k = 0 THEN "null" ELSE closed.tab[k]
        /\ \A k \in Fds : k \in t'.cx <=> k # 0 /\ k \in closed.cx
    BY <2>1, <2>3 DEF IsPut
  <2> QED  BY <1>1, <1>3, <1>4, <1>6, <2>2, <2>4 DEF closing
<1> QED  BY <1>5, <1>6

\* The log file has been opened, with the lowest number that was free.
LogOpenedAt(n) ==
    /\ t.tab[n] = "closed" /\ fd' = [fd EXCEPT !.output = n]
    /\ \A m \in Free(t, 0) : n <= m
    /\ IsPut(t', t, n, "log", FALSE)

LEMMA OpenLogFileFacts ==
    ASSUME LaunchType, OpenLogFile
    PROVE  /\ ChildStep("output", "stdout")
           /\ fd.output # -1 => t' = t /\ fd' = fd
           /\ fd.output = -1 => \E n \in Fds : LogOpenedAt(n)
<1>1. CASE fd.output # -1  BY <1>1 DEF OpenLogFile, Step, ChildStep
<1>2. CASE fd.output = -1
  <2>1. PICK n \in Lowest(Free(t, 0)) : Step("output", "stdout", Put(t, n, "log", FALSE), [fd EXCEPT !.output = n])
    BY <1>2 DEF OpenLogFile
  <2>2. t \in Tables /\ "log" \in Contents  BY DEF LaunchType, Contents
  <2>3. n \in Fds /\ t.tab[n] = "closed" /\ \A m \in Free(t, 0) : n <= m  BY <2>2, LowestFacts
  <2>4. IsPut(Put(t, n, "log", FALSE), t, n, "log", FALSE)  BY <2>2, <2>3, PutIsPut, Zenon
  <2>5. t' = Put(t, n, "log", FALSE) /\ fd' = [fd EXCEPT !.output = n] /\ ChildStep("output", "stdout")
    BY <2>1 DEF Step, ChildStep
  <2>6. LogOpenedAt(n)  BY <2>3, <2>4, <2>5 DEF LogOpenedAt
  <2> QED  BY <1>2, <2>3, <2>5, <2>6
<1> QED  BY <1>1, <1>2

LEMMA StdoutFacts ==
    ASSUME LaunchType, Stdout, fd.output # -1
    PROVE  /\ ChildStep("stdout", "limits") /\ fd' = fd /\ t' \in Tables /\ fd.output \in Fds
           /\ \A k \in Fds : t'.tab[k] =
                IF k \in {1, 2} /\ k # fd.notify THEN t.tab[fd.output]
                ELSE IF k = fd.output THEN "closed" ELSE t.tab[k]
           /\ \A k \in Fds : k \in t'.cx => k \in t.cx
           /\ \A k \in Fds : k \in t.cx /\ k \notin {1, 2, fd.output} => k \in t'.cx
<1>1. ChildStep("stdout", "limits") /\ fd' = fd  BY DEF Stdout, Step, ChildStep
<1>2. t \in Tables /\ fd.output \in Fds /\ 1 \in Fds /\ 2 \in Fds
  BY SmallFds, NameFacts DEF LaunchType, Numbers
<1>3. CASE fd.notify = 1
  <2>1. t' = move_fd(t, fd.output, 2)  BY <1>3 DEF Stdout, Step
  <2>2. IsMove(t', t, fd.output, 2)  BY <1>2, <2>1, MoveIsMove, Zenon
  <2> QED  BY <1>1, <1>2, <1>3, <2>2 DEF IsMove
<1> DEFINE out == move_fd(t, fd.output, 1)
<1>4. IsMove(out, t, fd.output, 1)  BY <1>2, MoveIsMove, Zenon
<1>5. CASE fd.notify = 2
  <2>1. t' = out  BY <1>5 DEF Stdout, Step
  <2> HIDE DEF out
  <2> QED  BY <1>1, <1>2, <1>4, <1>5, <2>1 DEF IsMove
<1>6. CASE fd.notify \notin {1, 2}
  <2>1. t' = Dup2(out, 1, 2)  BY <1>6 DEF Stdout, Step
  <2> HIDE DEF out
  <2>2. out \in Tables  BY <1>4 DEF IsMove
  <2>3. IsPut(Dup2(out, 1, 2), out, 2, out.tab[1], FALSE)
    <3>1. 1 # 2  OBVIOUS
    <3> QED  BY <1>2, <2>2, <3>1, Dup2IsPut, Zenon
  <2>4. /\ t' \in Tables
        /\ \A k \in Fds : t'.tab[k] = IF k = 2 THEN out.tab[1] ELSE out.tab[k]
        /\ \A k \in Fds : k \in t'.cx <=> k # 2 /\ k \in out.cx
    BY <2>1, <2>3 DEF IsPut
  <2> QED  BY <1>1, <1>2, <1>4, <1>6, <2>4 DEF IsMove
<1> QED  BY <1>3, <1>5, <1>6

LEMMA ExecFacts ==
    ASSUME LaunchType, Exec
    PROVE  /\ ChildStep("exec", "running") /\ fd' = fd /\ t' \in Tables
           /\ \A k \in Fds : t'.tab[k] = IF k \in t.cx THEN "closed" ELSE t.tab[k]
BY DEF Exec, Step, ChildStep, LaunchType, Tables, Contents
-----------------------------------------------------------------------------
(***************************************************************************)
(* The child keeps the status pipe, so that a failure is told.             *)
(***************************************************************************)
\* What a step of the child keeps if it opens only the output, and that where
\* it is opened.
LEMMA ChildFrame ==
    ASSUME PipeInv, pc \in Child, pc' \in (Child \ {"stdin"}) \cup {"running"}, Unforked, Same,
           t' \in Tables, fd' \in Numbers,
           \A y \in Names \ {"output"} : fd'[y] = -1 <=> fd[y] = -1,
           pc' \in {"stdout", "running"} \cup Ending
           \/ (pc \notin {"stdout"} \cup Ending /\ (fd'.output = -1 <=> fd.output = -1))
    PROVE  LaunchType' /\ Opened' /\ AskedIsOpen' /\ EndsOfParent' /\ FailureIsTold'
<1> USE DEF PipeInv
<1>1. LaunchType' /\ Opened' /\ FailureIsTold'
  BY ChildStages DEF LaunchType, Opened, FailureIsTold, Unforked, Same, BeforeFork
<1>2. EndsOfParent'  BY ChildStages DEF EndsOfParent, Unforked
<1>3. AskedIsOpen'
  <2>1. pc \notin BeforeFork /\ pc \notin {"socket", "status", "input", "log", "control"}
        /\ pc' \notin BeforeFork /\ pc' \notin {"socket", "status", "input", "log", "control"}
    BY ChildStages DEF BeforeFork
  <2>2. asked' = asked  BY DEF Same
  <2>3. CASE pc' = "running"  BY <2>1, <2>3, ChildStages DEF AskedIsOpen, BeforeFork
  <2>4. CASE pc' # "running"
    <3>1. pc' \in Child  BY <2>4
    <3>2. /\ (fd'.input # -1 <=> "input" \in asked) /\ (fd'.socket # -1 <=> "socket" \in asked)
          /\ fd'.wpipe # -1
          /\ (fd'.cs # -1 <=> "cs" \in asked) /\ (fd'.notify # -1 <=> "notify" \in asked)
      BY <2>1, NameFacts DEF AskedIsOpen
    <3>3. pc' \in {"stdout"} \cup Ending \/ (fd'.output # -1 <=> "output" \in asked)
      BY <2>1, <2>4 DEF AskedIsOpen
    <3> QED  BY <2>1, <2>2, <3>1, <3>2, <3>3 DEF AskedIsOpen
  <2> QED  BY <2>3, <2>4
<1> QED  BY <1>1, <1>2, <1>3

\* The variables that are set are numbers.
LEMMA FdFacts ==
    ASSUME LaunchType
    PROVE  /\ \A x \in Names : fd[x] # -1 => fd[x] \in Fds /\ fd[x] \in Int
           /\ minfd \in {3, 4} /\ minfd \in Nat /\ (fd.socket # -1 => minfd = 4)
BY SmallFds DEF LaunchType, Numbers, minfd

LEMMA MoveInputStep ==
    ASSUME PipeInv, MoveInput
    PROVE  PipeInv'
<1> USE DEF PipeInv
<1>1. /\ ChildStep("stdin", "free_wpipe") /\ fd' = fd /\ t' \in Tables
      /\ fd.input = -1 => t' = t
      /\ fd.input # -1 => fd.input \in Fds /\ IsMove(t', t, fd.input, 0)
  BY MoveInputFacts
<1>2. LaunchType' /\ Opened' /\ AskedIsOpen' /\ EndsOfParent' /\ FailureIsTold'
  BY <1>1, ChildFrame, ChildStages DEF ChildStep, LaunchType, Ending
<1>3. OpenedIn(t, fd)  BY <1>1 DEF Opened, ChildStep
<1>4. \A x \in Names : fd[x] # -1 => fd[x] \in Fds /\ t.tab[fd[x]] = x  BY <1>3, FdFacts DEF OpenedIn
<1>5. \A x \in {"wpipe", "cs", "notify", "socket", "output"} : fd[x] # -1 => t'.tab[fd[x]] = x
  <2>1. t.tab[0] = "tty" /\ 0 \in Fds  BY <1>3, SmallFds DEF OpenedIn
  <2> QED  BY <1>1, <1>4, <2>1, NameFacts DEF IsMove
<1>6. StatusPipeKept'
  BY <1>1, <1>5, ChildStages, SmallFds DEF StatusPipeKept, ChildStep, Untaken
<1> QED  BY <1>2, <1>6

\* Before the notification takes its number, the others are moved away from it.
LEMMA FreeForcedStep ==
    ASSUME PipeInv, FreeForWpipe \/ FreeForCs \/ FreeForSocket
    PROVE  PipeInv'
<1> USE DEF PipeInv
<1>1. ASSUME NEW x \in {"wpipe", "cs", "socket"}, NEW from \in Untaken, NEW to \in {"free_cs", "free_socket", "take"},
             NEW min \in Nat, FreeForcedNumber(x, from, to, min), x = "wpipe" => min >= 3,
             from \in {"free_cs", "free_socket", "take"} \/ x = "wpipe"
      PROVE  PipeInv'
  <2>1. /\ Names = {"input", "output", "socket", "cs", "notify", "console", "wpipe"}
        /\ x \in Names /\ from \in Child /\ to \in Child /\ from \notin {"stdout"} \cup Ending /\ to # "stdin"
    BY <1>1, NameFacts, ChildStages DEF Untaken, Ending
  <2>2. /\ ChildStep(from, to)
        /\ force = -1 \/ fd[x] # force => t' = t /\ fd' = fd
        /\ force # -1 /\ fd[x] = force =>
             /\ fd[x] \in Fds
             /\ \E n \in Fds : n >= min /\ t.tab[n] = "closed" /\ fd' = [fd EXCEPT ![x] = n] /\ IsReserved(t', t, x, n)
    BY <1>1, <2>1, FreeForcedFacts
  <2>3. /\ fd.wpipe \in 3 .. MaxFd /\ t.tab[fd.wpipe] = "wpipe"
        /\ \A y \in {"wpipe", "cs", "notify", "socket", "output"} : fd[y] # -1 => fd[y] \in Fds /\ t.tab[fd[y]] = y
        /\ x # "wpipe" => fd.wpipe # force
    BY <1>1, <2>1, <2>2, FdFacts DEF StatusPipeKept, ChildStep
  <2>4. /\ pc = from /\ pc' = to /\ pc' \in Untaken /\ pc' \in {"free_cs", "free_socket", "take"}
        /\ pc' \notin {"above_wpipe", "above_cs", "above_notify", "environment", "stdout"}
        /\ force' = force /\ Unforked /\ Same
    BY <1>1, <2>2 DEF ChildStep, Same, Untaken
  <2>5. CASE force = -1 \/ fd[x] # force
    <3>1. t' = t /\ fd' = fd  BY <2>2, <2>5
    <3>2. LaunchType' /\ Opened' /\ AskedIsOpen' /\ EndsOfParent' /\ FailureIsTold'
      BY <2>1, <2>4, <3>1, ChildFrame DEF LaunchType
    <3>3. fd.wpipe # force  BY <2>3, <2>5
    <3>4. StatusPipeKept'  BY <2>1, <2>3, <2>4, <3>1, <3>3 DEF StatusPipeKept
    <3> QED  BY <3>2, <3>4
  <2>6. CASE force # -1 /\ fd[x] = force
    <3>1. PICK n \in Fds : n >= min /\ t.tab[n] = "closed" /\ fd' = [fd EXCEPT ![x] = n] /\ IsReserved(t', t, x, n)
      BY <2>2, <2>6
    <3>2. fd[x] \in Fds /\ fd[x] # -1 /\ n # -1  BY <2>2, <2>6, SmallFds
    <3>3. fd' \in Numbers /\ fd'[x] = n /\ \A y \in Names : y # x => fd'[y] = fd[y]
      BY <2>1, <3>1 DEF LaunchType, Numbers
    <3>4. LaunchType' /\ Opened' /\ AskedIsOpen' /\ EndsOfParent' /\ FailureIsTold'
      <4>1. t' \in Tables  BY <3>1 DEF IsReserved
      <4>2. \A y \in Names : fd'[y] = -1 <=> fd[y] = -1  BY <3>2, <3>3
      <4> QED  BY <2>1, <2>4, <3>3, <4>1, <4>2, ChildFrame
    <3>5. \A k \in Fds : t'.tab[k] = IF k = fd[x] THEN "closed" ELSE IF k = n THEN t.tab[fd[x]] ELSE t.tab[k]
      BY <3>1 DEF IsReserved
    <3>6. t.tab[fd[x]] = x /\ n # fd[x]  BY <1>1, <2>3, <3>1, <3>2
    <3>7. \A y \in {"wpipe", "cs", "notify", "socket", "output"} : fd'[y] # -1 => fd'[y] \in Fds /\ t'.tab[fd'[y]] = y
      BY <2>1, <2>3, <3>1, <3>3, <3>5, <3>6
    <3>8. fd'.wpipe \in 3 .. MaxFd /\ fd'.wpipe # force
      <4>1. CASE x = "wpipe"
        <5>1. n \in 3 .. MaxFd  BY <1>1, <3>1, <4>1, LaunchAssumption DEF Fds
        <5> QED  BY <2>6, <3>3, <3>6, <4>1, <5>1
      <4>2. CASE x # "wpipe"  BY <2>1, <2>3, <3>3, <4>2
      <4> QED  BY <4>1, <4>2
    <3>9. StatusPipeKept'
      <4>1. fd'.wpipe # -1  BY <3>8
      <4>2. \A y \in {"cs", "notify", "socket", "output"} : fd'[y] # fd'.wpipe  BY <3>7, <4>1
      <4> QED  BY <2>4, <3>7, <3>8, <4>1, <4>2 DEF StatusPipeKept
    <3> QED  BY <3>4, <3>9
  <2> QED  BY <2>5, <2>6
<1>2. {"free_wpipe", "free_cs", "free_socket"} \subseteq Untaken /\ minfd \in Nat /\ minfd >= 3 /\ 0 \in Nat
  BY FdFacts DEF Untaken
<1>3. CASE FreeForWpipe  BY <1>1, <1>2, <1>3 DEF FreeForWpipe
<1>4. CASE FreeForCs  BY <1>1, <1>2, <1>4 DEF FreeForCs
<1>5. CASE FreeForSocket  BY <1>1, <1>2, <1>5 DEF FreeForSocket
<1> QED  BY <1>3, <1>4, <1>5

LEMMA TakeStep ==
    ASSUME PipeInv, TakeForcedNumber
    PROVE  PipeInv'
<1> USE DEF PipeInv
<1>1. /\ ChildStep("take", "above_wpipe") /\ fd' \in Numbers
      /\ force \in {-1, fd.notify} => t' = t /\ fd' = fd
      /\ force \notin {-1, fd.notify} =>
           /\ fd.notify \in Fds /\ force \in Fds
           /\ IsMove(t', t, fd.notify, force) /\ fd' = [fd EXCEPT !.notify = force]
  BY TakeFacts
<1>2. /\ Names = {"input", "output", "socket", "cs", "notify", "console", "wpipe"}
      /\ pc \in Child /\ pc' \in Child \ {"stdin"} /\ pc \notin {"stdout"} \cup Ending /\ pc \in Untaken
      /\ pc' = "above_wpipe" /\ pc' \notin Untaken /\ Unforked /\ Same
  BY <1>1, NameFacts, ChildStages DEF ChildStep, Untaken, Ending
<1>3. /\ fd.wpipe \in 3 .. MaxFd /\ fd.wpipe \in Fds /\ t.tab[fd.wpipe] = "wpipe" /\ fd.wpipe # force
      /\ \A y \in {"wpipe", "cs", "notify", "socket", "output"} : fd[y] # -1 => fd[y] \in Fds /\ t.tab[fd[y]] = y
  <2>1. fd.wpipe # -1  BY <1>2 DEF StatusPipeKept
  <2> QED  BY <1>1, <1>2, <2>1, FdFacts DEF StatusPipeKept, ChildStep
<1>4. CASE force \in {-1, fd.notify}
  <2>1. LaunchType' /\ Opened' /\ AskedIsOpen' /\ EndsOfParent' /\ FailureIsTold'
    BY <1>1, <1>2, <1>4, ChildFrame DEF LaunchType
  <2>2. StatusPipeKept'  BY <1>1, <1>2, <1>3, <1>4 DEF StatusPipeKept
  <2> QED  BY <2>1, <2>2
<1>5. CASE force \notin {-1, fd.notify}
  <2>1. fd'.notify = force /\ \A y \in Names : y # "notify" => fd'[y] = fd[y]
    BY <1>1, <1>2, <1>5 DEF LaunchType, Numbers
  <2>2. LaunchType' /\ Opened' /\ AskedIsOpen' /\ EndsOfParent' /\ FailureIsTold'
    <3>1. t' \in Tables  BY <1>1, <1>5 DEF IsMove
    <3>2. \A y \in Names : fd'[y] = -1 <=> fd[y] = -1  BY <1>1, <1>5, <2>1, SmallFds
    <3> QED  BY <1>1, <1>2, <3>1, <3>2, ChildFrame
  <2>3. \A k \in Fds : t'.tab[k] = IF k = force THEN t.tab[fd.notify] ELSE IF k = fd.notify THEN "closed" ELSE t.tab[k]
    BY <1>1, <1>5 DEF IsMove
  <2>4. t.tab[fd.notify] = "notify" /\ fd.notify \in Fds /\ fd.notify # -1 /\ force \in Fds
    BY <1>1, <1>3, <1>5, SmallFds
  <2>5. StatusPipeKept'
    <3>1. fd'.wpipe = fd.wpipe  BY <1>2, <2>1
    <3>2. t'.tab[fd.wpipe] = "wpipe"  BY <1>3, <2>3, <2>4
    <3>3. \A y \in {"cs", "notify", "socket", "output"} : fd'[y] # fd.wpipe  BY <1>2, <1>3, <2>1, SmallFds
    <3>4. \A y \in {"cs", "notify", "socket", "output"} : fd'[y] # -1 => t'.tab[fd'[y]] # "closed"
      BY <1>2, <1>3, <2>1, <2>3, <2>4
    <3> QED  BY <1>2, <1>3, <3>1, <3>2, <3>3, <3>4 DEF StatusPipeKept
  <2> QED  BY <2>2, <2>5
<1> QED  BY <1>4, <1>5

LEMMA AboveMinStep ==
    ASSUME PipeInv, WpipeAboveMin \/ CsAboveMin \/ NotifyAboveMin
    PROVE  PipeInv'
<1> USE DEF PipeInv
<1>1. ASSUME NEW x \in {"wpipe", "cs", "notify"}, NEW from, NEW to, NEW cx \in BOOLEAN, AboveMin(x, from, to, cx),
             \/ x = "wpipe" /\ from = "above_wpipe" /\ to = "above_cs"
             \/ x = "cs" /\ from = "above_cs" /\ to = "above_notify"
             \/ x = "notify" /\ from = "above_notify" /\ to = "environment"
      PROVE  PipeInv'
  <2>1. /\ Names = {"input", "output", "socket", "cs", "notify", "console", "wpipe"} /\ x \in Names
        /\ from \in Child /\ to \in Child \ {"stdin"} /\ from \notin {"stdout"} \cup Ending
        /\ to \notin Untaken /\ to \in {"above_cs", "above_notify", "environment"}
        /\ IF x = "wpipe" THEN from = "above_wpipe" ELSE from \in {"above_cs", "above_notify"}
    BY <1>1, NameFacts, ChildStages DEF Untaken, Ending
  <2>2. ChildStep(from, to)  BY <1>1, <2>1, AboveMinFacts
  <2>3. \/ t' = t /\ fd' = fd /\ (fd[x] = -1 \/ fd[x] >= minfd \/ (x = "notify" /\ fd[x] = force))
        \/ /\ fd[x] # -1 /\ ~(fd[x] >= minfd) /\ ~(x = "notify" /\ fd[x] = force) /\ fd[x] \in Fds
           /\ \E n \in Fds : /\ n >= minfd /\ t.tab[n] = "closed" /\ fd' = [fd EXCEPT ![x] = n]
                             /\ IsPut(t', t, n, t.tab[fd[x]], cx)
    BY <1>1, <2>1, AboveMinFacts
  <2>4. /\ fd.wpipe \in 3 .. MaxFd /\ fd.wpipe \in Fds /\ t.tab[fd.wpipe] = "wpipe" /\ fd.wpipe # -1
        /\ \A y \in {"cs", "notify", "socket", "output"} : fd[y] # fd.wpipe
        /\ \A y \in {"cs", "notify", "socket", "output"} : fd[y] # -1 => fd[y] \in Fds
        /\ x = "wpipe" => \A y \in {"cs", "notify", "socket", "output"} : fd[y] # -1 => t.tab[fd[y]] # "closed"
        /\ x # "wpipe" /\ fd.socket # -1 => fd.wpipe # 3
    <3>1. fd.wpipe \in 3 .. MaxFd  BY <2>1, <2>2 DEF StatusPipeKept, ChildStep
    <3>2. fd.wpipe \in Fds /\ fd.wpipe # -1  BY <3>1, LaunchAssumption DEF Fds
    <3> QED  BY <2>1, <2>2, <3>1, <3>2, FdFacts DEF StatusPipeKept, ChildStep
  <2>5. pc = from /\ pc' = to /\ Unforked /\ Same  BY <2>2 DEF ChildStep
  <2>6. CASE t' = t /\ fd' = fd /\ (fd[x] = -1 \/ fd[x] >= minfd \/ (x = "notify" /\ fd[x] = force))
    <3>1. LaunchType' /\ Opened' /\ AskedIsOpen' /\ EndsOfParent' /\ FailureIsTold'
      BY <2>1, <2>5, <2>6, ChildFrame DEF LaunchType
    <3>2. fd.socket # -1 => fd.wpipe # 3  BY <2>4, <2>6, FdFacts
    <3>3. StatusPipeKept'  BY <2>1, <2>4, <2>5, <2>6, <3>2 DEF StatusPipeKept
    <3> QED  BY <3>1, <3>3
  <2>7. CASE fd[x] # -1 /\ \E n \in Fds : /\ n >= minfd /\ t.tab[n] = "closed" /\ fd' = [fd EXCEPT ![x] = n]
                                        /\ IsPut(t', t, n, t.tab[fd[x]], cx)
    <3>1. PICK n \in Fds : /\ n >= minfd /\ t.tab[n] = "closed" /\ fd' = [fd EXCEPT ![x] = n]
                           /\ IsPut(t', t, n, t.tab[fd[x]], cx)
      BY <2>7
    <3>2. t' \in Tables /\ \A k \in Fds : t'.tab[k] = IF k = n THEN t.tab[fd[x]] ELSE t.tab[k]
      BY <3>1 DEF IsPut
    <3>3. fd' \in Numbers /\ fd'[x] = n /\ \A y \in Names : y # x => fd'[y] = fd[y]
      BY <2>1, <3>1 DEF LaunchType, Numbers
    <3>4. n # -1 /\ n \in 3 .. MaxFd /\ (fd.socket # -1 => n # 3)
      BY <3>1, FdFacts, LaunchAssumption DEF Fds
    <3>5. LaunchType' /\ Opened' /\ AskedIsOpen' /\ EndsOfParent' /\ FailureIsTold'
      <4>1. \A y \in Names : fd'[y] = -1 <=> fd[y] = -1  BY <2>7, <3>3, <3>4
      <4> QED  BY <2>1, <2>5, <3>2, <3>3, <4>1, ChildFrame
    <3>6. StatusPipeKept'
      <4>1. CASE x = "wpipe"
        <5>1. fd'.wpipe = n /\ \A y \in {"cs", "notify", "socket", "output"} : fd'[y] = fd[y]  BY <2>1, <3>3, <4>1
        <5>2. t'.tab[n] = "wpipe"  BY <2>4, <3>2, <4>1
        <5>3. \A y \in {"cs", "notify", "socket", "output"} : fd'[y] # n  BY <2>4, <3>1, <3>4, <4>1, <5>1
        <5> QED  BY <2>1, <2>5, <3>4, <5>1, <5>2, <5>3 DEF StatusPipeKept
      <4>2. CASE x # "wpipe"
        <5>1. fd'.wpipe = fd.wpipe /\ fd'.socket = fd.socket  BY <1>1, <2>1, <3>3, <4>2
        <5>2. n # fd.wpipe /\ t'.tab[fd.wpipe] = "wpipe"  BY <2>4, <3>1, <3>2
        <5>3. \A y \in {"cs", "notify", "socket", "output"} : fd'[y] # fd.wpipe  BY <2>1, <2>4, <3>3, <5>2
        <5> QED  BY <2>1, <2>4, <2>5, <4>2, <5>1, <5>2, <5>3 DEF StatusPipeKept
      <4> QED  BY <4>1, <4>2
    <3> QED  BY <3>5, <3>6
  <2> QED  BY <2>3, <2>6, <2>7
<1>2. TRUE \in BOOLEAN /\ FALSE \in BOOLEAN  OBVIOUS
<1>3. CASE WpipeAboveMin  BY <1>1, <1>2, <1>3 DEF WpipeAboveMin
<1>4. CASE CsAboveMin  BY <1>1, <1>2, <1>4 DEF CsAboveMin
<1>5. CASE NotifyAboveMin  BY <1>1, <1>2, <1>5 DEF NotifyAboveMin
<1> QED  BY <1>3, <1>4, <1>5

\* Where only the table changes, and not at the status pipe's number.
LEMMA LateFrame ==
    ASSUME PipeInv, pc \in Child \ (Untaken \cup {"above_wpipe"}),
           pc' \in Child \ (Untaken \cup {"above_wpipe", "above_cs", "above_notify", "environment", "stdout"}),
           pc \notin {"stdout"} \cup Ending \/ pc' \in Ending,
           Unforked, Same, fd' = fd, t' \in Tables, t'.tab[fd.wpipe] = "wpipe"
    PROVE  PipeInv'
<1> USE DEF PipeInv
<1>1. LaunchType' /\ Opened' /\ AskedIsOpen' /\ EndsOfParent' /\ FailureIsTold'
  <2>1. "stdin" \in Untaken  BY DEF Untaken
  <2> QED  BY <2>1, ChildFrame DEF LaunchType
<1>2. StatusPipeKept'  BY DEF StatusPipeKept, Untaken
<1> QED  BY <1>1, <1>2

LEMMA RedirectStep ==
    ASSUME PipeInv, Environment \/ Stdin \/ OpenLogFile \/ Stdout
    PROVE  PipeInv'
<1> USE DEF PipeInv
<1>1. CASE Environment
  <2>1. /\ ChildStep("environment", IF "console" \in asked THEN "limits" ELSE "null")
        /\ fd' = fd /\ t' \in Tables
        /\ fd.socket = -1 => t' = t
        /\ fd.socket # -1 => fd.socket \in Fds /\ IsMove(t', t, fd.socket, 3)
    BY <1>1, EnvironmentFacts
  <2>2. pc = "environment" /\ pc' \in {"limits", "null"} /\ Unforked /\ Same  BY <2>1 DEF ChildStep
  <2>3. /\ fd.wpipe \in 3 .. MaxFd /\ t.tab[fd.wpipe] = "wpipe" /\ fd.socket # fd.wpipe
        /\ fd.socket # -1 => fd.wpipe # 3
    BY <2>2, ChildStages DEF StatusPipeKept
  <2>4. fd.wpipe \in Fds  BY <2>3, LaunchAssumption DEF Fds
  <2>5. t'.tab[fd.wpipe] = "wpipe"  BY <2>1, <2>3, <2>4 DEF IsMove
  <2>6. /\ pc \in Child \ (Untaken \cup {"above_wpipe"})
        /\ pc' \in Child \ (Untaken \cup {"above_wpipe", "above_cs", "above_notify", "environment", "stdout"})
        /\ pc \notin {"stdout"} \cup Ending
    BY <2>2, ChildStages DEF Untaken, Ending
  <2> QED  BY <2>1, <2>2, <2>5, <2>6, LateFrame
<1>2. CASE Stdin
  <2>1. /\ ChildStep("null", "output") /\ fd' = fd /\ t' \in Tables
        /\ \A k \in Fds : k \notin 0 .. 2 => t'.tab[k] = t.tab[k]
    BY <1>2, StdinFacts, SmallFds
  <2>2. pc = "null" /\ pc' = "output" /\ Unforked /\ Same  BY <2>1 DEF ChildStep
  <2>3. fd.wpipe \in 3 .. MaxFd /\ t.tab[fd.wpipe] = "wpipe"  BY <2>2, ChildStages DEF StatusPipeKept
  <2>4. fd.wpipe \in Fds /\ fd.wpipe \notin 0 .. 2  BY <2>3, LaunchAssumption DEF Fds
  <2>5. t'.tab[fd.wpipe] = "wpipe"  BY <2>1, <2>3, <2>4
  <2>6. /\ pc \in Child \ (Untaken \cup {"above_wpipe"})
        /\ pc' \in Child \ (Untaken \cup {"above_wpipe", "above_cs", "above_notify", "environment", "stdout"})
        /\ pc \notin {"stdout"} \cup Ending
    BY <2>2, ChildStages DEF Untaken, Ending
  <2> QED  BY <2>1, <2>2, <2>5, <2>6, LateFrame
<1>3. CASE OpenLogFile
  <2>1. /\ ChildStep("output", "stdout")
        /\ fd.output # -1 => t' = t /\ fd' = fd
        /\ fd.output = -1 => \E n \in Fds : LogOpenedAt(n)
    BY <1>3, OpenLogFileFacts
  <2>2. pc = "output" /\ pc' = "stdout" /\ Unforked /\ Same  BY <2>1 DEF ChildStep
  <2>3. /\ fd.wpipe \in 3 .. MaxFd /\ t.tab[fd.wpipe] = "wpipe"
        /\ \A y \in {"cs", "notify", "socket", "output"} : fd[y] # fd.wpipe
    BY <2>2, ChildStages DEF StatusPipeKept
  <2>4. fd.wpipe \in Fds  BY <2>3, LaunchAssumption DEF Fds
  <2>5. /\ t' \in Tables /\ fd' \in Numbers /\ t'.tab[fd.wpipe] = "wpipe" /\ fd'.output # -1
        /\ fd'.output # fd.wpipe
        /\ \A y \in Names \ {"output"} : fd'[y] = fd[y]
    <3>1. CASE fd.output # -1  BY <2>1, <2>3, <3>1 DEF LaunchType
    <3>2. CASE fd.output = -1
      <4>1. PICK n \in Fds : LogOpenedAt(n)  BY <2>1, <3>2
      <4>2. n # fd.wpipe /\ n # -1  BY <2>3, <4>1, SmallFds DEF LogOpenedAt
      <4>3. t' \in Tables /\ t'.tab[fd.wpipe] = "wpipe"  BY <2>3, <2>4, <4>1, <4>2 DEF LogOpenedAt, IsPut
      <4>4. fd' \in Numbers /\ fd'.output = n /\ \A y \in Names \ {"output"} : fd'[y] = fd[y]
        BY <4>1, NameFacts DEF LogOpenedAt, LaunchType, Numbers
      <4> QED  BY <4>2, <4>3, <4>4
    <3> QED  BY <3>1, <3>2
  <2>6. LaunchType' /\ Opened' /\ AskedIsOpen' /\ EndsOfParent' /\ FailureIsTold'
    BY <2>2, <2>5, ChildFrame, ChildStages
  <2>7. StatusPipeKept'
    <3>1. fd'.wpipe = fd.wpipe /\ fd'.cs = fd.cs /\ fd'.notify = fd.notify /\ fd'.socket = fd.socket
      BY <2>5, NameFacts
    <3> QED  BY <2>2, <2>3, <2>5, <3>1 DEF StatusPipeKept, Untaken
  <2> QED  BY <2>6, <2>7
<1>4. CASE Stdout
  <2>1. pc = "stdout"  BY <1>4 DEF Stdout, Step
  <2>2. /\ fd.wpipe \in 3 .. MaxFd /\ t.tab[fd.wpipe] = "wpipe" /\ fd.output # fd.wpipe /\ fd.output # -1
    BY <2>1, ChildStages DEF StatusPipeKept
  <2>3. fd.wpipe \in Fds /\ fd.wpipe \notin {1, 2}  BY <2>2, LaunchAssumption DEF Fds
  <2>4. /\ ChildStep("stdout", "limits") /\ fd' = fd /\ t' \in Tables
        /\ \A k \in Fds : k \notin {1, 2, fd.output} => t'.tab[k] = t.tab[k]
    BY <1>4, <2>2, StdoutFacts
  <2>5. pc' = "limits" /\ Unforked /\ Same  BY <2>4 DEF ChildStep
  <2>6. t'.tab[fd.wpipe] = "wpipe"  BY <2>2, <2>3, <2>4
  <2>7. /\ pc \in Child \ (Untaken \cup {"above_wpipe"})
        /\ pc' \in Child \ (Untaken \cup {"above_wpipe", "above_cs", "above_notify", "environment", "stdout"})
        /\ pc' \in Ending
    BY <2>1, <2>5, ChildStages DEF Untaken, Ending
  <2> QED  BY <2>4, <2>5, <2>6, <2>7, LateFrame
<1> QED  BY <1>1, <1>2, <1>3, <1>4

LEMMA EndingStep ==
    ASSUME PipeInv, StatusPipeOnce, Limits \/ EnterCgroup \/ Privileges \/ Exec \/ CallFails
    PROVE  PipeInv'
<1> USE DEF PipeInv
<1>1. CASE Limits \/ EnterCgroup \/ Privileges
  <2>1. /\ pc \in {"limits", "cgroup", "privileges"} /\ pc' \in {"cgroup", "privileges", "exec"}
        /\ t' = t /\ fd' = fd /\ Unforked /\ Same
    BY <1>1 DEF Limits, EnterCgroup, Privileges, Step
  <2>2. /\ pc \in Child \ (Untaken \cup {"above_wpipe"})
        /\ pc' \in Child \ (Untaken \cup {"above_wpipe", "above_cs", "above_notify", "environment", "stdout"})
        /\ pc' \in Ending
    BY <2>1, ChildStages DEF Untaken, Ending
  <2>3. t'.tab[fd.wpipe] = "wpipe"  BY <2>1, <2>2 DEF StatusPipeKept
  <2> QED  BY <2>1, <2>2, <2>3, LateFrame DEF LaunchType
<1>2. CASE Exec
  <2>1. ChildStep("exec", "running") /\ fd' = fd /\ t' \in Tables  BY <1>2, ExecFacts
  <2>2. LaunchType' /\ Opened' /\ AskedIsOpen' /\ EndsOfParent' /\ FailureIsTold'
    BY <2>1, ChildFrame, ChildStages DEF ChildStep, LaunchType
  <2>3. StatusPipeKept'  BY <2>1, ChildStages DEF StatusPipeKept, ChildStep
  <2> QED  BY <2>2, <2>3
<1>3. CASE CallFails
  <2>1. /\ pc \in Child /\ pc' = "failed" /\ t' = t /\ fd' = fd /\ asked' = asked /\ force' = force /\ Unforked
        /\ told' = IF fd.wpipe # -1 /\ t.tab[fd.wpipe] = "wpipe" THEN "error" ELSE "nothing"
    <3>1. pc \in Child  BY <1>3, ChildStages DEF CallFails
    <3>2. fd.wpipe \in Int /\ minfd \in Int /\ fd.wpipe >= minfd  BY <3>1, FdFacts DEF StatusPipeKept, StatusPipeOnce
    <3>3. pc # "above_wpipe"  BY <1>3, <3>2 DEF CallFails
    <3> QED  BY <1>3, <3>1, <3>3 DEF CallFails, failure_out
  <2>2. fd.wpipe # -1 /\ t.tab[fd.wpipe] = "wpipe"  BY <2>1 DEF StatusPipeKept
  <2>3. FailureIsTold'  BY <2>1, <2>2 DEF FailureIsTold
  <2>4. LaunchType' /\ EndsOfParent'  BY <2>1, ChildStages DEF LaunchType, EndsOfParent, Unforked
  <2>5. Opened' /\ AskedIsOpen' /\ StatusPipeKept'
    BY <2>1, ChildStages DEF Opened, AskedIsOpen, StatusPipeKept, BeforeFork
  <2> QED  BY <2>3, <2>4, <2>5
<1> QED  BY <1>1, <1>2, <1>3

\* Where the status pipe's number stays, nothing else gets what is open there.
LEMMA OnceFrame ==
    ASSUME PipeInv, StatusPipeOnce, pc \in Child, pc' \in Child, fd'.wpipe = fd.wpipe,
           fd'.socket = -1 <=> fd.socket = -1,
           fd.wpipe \in t.cx => fd.wpipe \in t'.cx,
           \A k \in Fds : t'.tab[k] = "wpipe" => t.tab[k] = "wpipe"
    PROVE  StatusPipeOnce'
<1>1. minfd' = minfd  BY DEF minfd
<1>2. pc' # "running"  BY ChildStages
<1> QED  BY <1>1, <1>2 DEF StatusPipeOnce

LEMMA ForkOnce ==
    ASSUME PipeInv, Fork
    PROVE  StatusPipeOnce'
<1> USE DEF PipeInv
<1>1. pc = "fork" /\ pc' = "stdin" /\ t' = t /\ fd' = fd  BY DEF Fork
<1>2. OpenedIn(t, fd)  BY <1>1 DEF Opened, BeforeFork
<1>3. fd.wpipe \in Fds /\ fd.wpipe # -1  BY <1>1, FdFacts, NameFacts DEF AskedIsOpen, BeforeFork
<1>4. fd.wpipe >= 4 /\ fd.wpipe \in 3 .. MaxFd
  <2>1. fd.wpipe >= 4  BY <1>2, <1>3 DEF OpenedIn, WriteEnds
  <2> QED  BY <1>3, <2>1, LaunchAssumption DEF Fds
<1>5. \A n \in Fds : t.tab[n] = "wpipe" <=> n = fd.wpipe  BY <1>2, NameFacts DEF OpenedIn
<1>6. fd.wpipe \in t.cx  BY <1>2, <1>3, <1>4, <1>5 DEF OpenedIn
<1>7. minfd' = minfd /\ fd.wpipe >= minfd  BY <1>1, <1>3, <1>4, FdFacts DEF minfd, Fds
<1> QED  BY <1>1, <1>5, <1>6, <1>7 DEF StatusPipeOnce

\* The descriptors that are arranged are others than the status pipe, which is
\* itself moved as a whole.
LEMMA ArrangeOnce ==
    ASSUME PipeInv, StatusPipeOnce,
           MoveInput \/ FreeForWpipe \/ FreeForCs \/ FreeForSocket \/ TakeForcedNumber
    PROVE  StatusPipeOnce'
<1> USE DEF PipeInv
<1>1. CASE MoveInput
  <2>1. /\ ChildStep("stdin", "free_wpipe") /\ fd' = fd
        /\ fd.input = -1 => t' = t
        /\ fd.input # -1 => fd.input \in Fds /\ IsMove(t', t, fd.input, 0)
    BY <1>1, MoveInputFacts
  <2>2. pc = "stdin" /\ pc' = "free_wpipe" /\ pc \in Child /\ pc' \in Child  BY <2>1, ChildStages DEF ChildStep
  <2>3. fd.input # -1 => t.tab[fd.input] = "input"
    BY <2>1, <2>2, NameFacts DEF Opened, OpenedIn
  <2>4. fd.wpipe \in 3 .. MaxFd /\ t.tab[fd.wpipe] = "wpipe"  BY <2>2 DEF StatusPipeKept
  <2>5. fd.wpipe \in Fds /\ fd.wpipe # 0  BY <2>4, LaunchAssumption DEF Fds
  <2>6. /\ fd.wpipe \in t.cx => fd.wpipe \in t'.cx
        /\ \A k \in Fds : t'.tab[k] = "wpipe" => t.tab[k] = "wpipe"
    BY <2>1, <2>3, <2>4, <2>5 DEF IsMove
  <2> QED  BY <2>1, <2>2, <2>6, OnceFrame
<1>2. ASSUME NEW x \in {"wpipe", "cs", "socket"}, NEW from \in Untaken, NEW to \in Untaken,
             NEW min \in Nat, FreeForcedNumber(x, from, to, min), x = "wpipe" => min = minfd
      PROVE  StatusPipeOnce'
  <2>1. x \in Names /\ from \in Child /\ to \in Child /\ to # "running"  BY <1>2, NameFacts, ChildStages DEF Untaken
  <2>2. /\ ChildStep(from, to)
        /\ force = -1 \/ fd[x] # force => t' = t /\ fd' = fd
        /\ force # -1 /\ fd[x] = force =>
             /\ fd[x] \in Fds
             /\ \E n \in Fds : n >= min /\ t.tab[n] = "closed" /\ fd' = [fd EXCEPT ![x] = n] /\ IsReserved(t', t, x, n)
    BY <1>2, <2>1, FreeForcedFacts
  <2>3. pc = from /\ pc' = to  BY <2>2 DEF ChildStep
  <2>4. fd[x] # -1 => t.tab[fd[x]] = x
    BY <1>2, <2>1, <2>3 DEF StatusPipeKept
  <2>5. fd.wpipe \in 3 .. MaxFd /\ t.tab[fd.wpipe] = "wpipe"  BY <2>1, <2>3 DEF StatusPipeKept
  <2>6. fd.wpipe \in Fds  BY <2>5, LaunchAssumption DEF Fds
  <2>7. CASE force = -1 \/ fd[x] # force
    BY <2>1, <2>2, <2>3, <2>7, OnceFrame
  <2>8. CASE force # -1 /\ fd[x] = force
    <3>1. PICK n \in Fds : n >= min /\ t.tab[n] = "closed" /\ fd' = [fd EXCEPT ![x] = n] /\ IsReserved(t', t, x, n)
      BY <2>2, <2>8
    <3>2. fd[x] \in Fds /\ fd[x] # -1 /\ n # -1  BY <2>2, <2>8, SmallFds
    <3>3. fd'[x] = n /\ \A y \in Names : y # x => fd'[y] = fd[y]
      BY <2>1, <3>1 DEF LaunchType, Numbers
    <3>4. fd'.socket = -1 <=> fd.socket = -1  BY <3>2, <3>3, NameFacts
    <3>5. CASE x = "wpipe"
      <4>1. minfd' = minfd  BY <3>4 DEF minfd
      <4>2. fd'.wpipe = n /\ n >= minfd /\ n # fd.wpipe  BY <1>2, <2>5, <3>1, <3>3, <3>5
      <4>3. n \in t'.cx /\ \A k \in Fds : t'.tab[k] = "wpipe" => k = n
        BY <2>1, <2>3, <3>1, <3>5, <4>2 DEF IsReserved, StatusPipeOnce
      <4> QED  BY <2>1, <2>3, <4>1, <4>2, <4>3 DEF StatusPipeOnce
    <3>6. CASE x # "wpipe"
      <4>1. fd'.wpipe = fd.wpipe  BY <3>3, <3>6, NameFacts
      <4>2. fd.wpipe # fd[x] /\ t.tab[fd[x]] # "wpipe"  BY <2>4, <2>5, <3>2, <3>6
      <4>3. /\ fd.wpipe \in t.cx => fd.wpipe \in t'.cx
            /\ \A k \in Fds : t'.tab[k] = "wpipe" => t.tab[k] = "wpipe"
        BY <2>6, <3>1, <4>2 DEF IsReserved
      <4> QED  BY <2>1, <2>3, <3>4, <4>1, <4>3, OnceFrame
    <3> QED  BY <3>5, <3>6
  <2> QED  BY <2>7, <2>8
<1>3. {"free_wpipe", "free_cs", "free_socket", "take"} \subseteq Untaken /\ minfd \in Nat /\ 0 \in Nat
  BY FdFacts DEF Untaken
<1>4. CASE FreeForWpipe  BY <1>2, <1>3, <1>4 DEF FreeForWpipe
<1>5. CASE FreeForCs  BY <1>2, <1>3, <1>5 DEF FreeForCs
<1>6. CASE FreeForSocket  BY <1>2, <1>3, <1>6 DEF FreeForSocket
<1>7. CASE TakeForcedNumber
  <2>1. /\ ChildStep("take", "above_wpipe")
        /\ force \in {-1, fd.notify} => t' = t /\ fd' = fd
        /\ force \notin {-1, fd.notify} =>
             /\ fd.notify \in Fds /\ force \in Fds
             /\ IsMove(t', t, fd.notify, force) /\ fd' = [fd EXCEPT !.notify = force]
    BY <1>7, TakeFacts
  <2>2. pc = "take" /\ pc' = "above_wpipe" /\ pc \in Child /\ pc' \in Child  BY <2>1, ChildStages DEF ChildStep
  <2>3. /\ fd.wpipe \in 3 .. MaxFd /\ t.tab[fd.wpipe] = "wpipe" /\ fd.wpipe # force /\ fd.notify # fd.wpipe
        /\ fd.notify # -1 => t.tab[fd.notify] = "notify"
    BY <2>2 DEF StatusPipeKept, Untaken
  <2>4. fd.wpipe \in Fds  BY <2>3, LaunchAssumption DEF Fds
  <2>5. fd'.wpipe = fd.wpipe /\ fd'.socket = fd.socket
    BY <2>1, NameFacts DEF LaunchType, Numbers
  <2>6. /\ fd.wpipe \in t.cx => fd.wpipe \in t'.cx
        /\ \A k \in Fds : t'.tab[k] = "wpipe" => t.tab[k] = "wpipe"
    BY <2>1, <2>3, <2>4, SmallFds DEF IsMove
  <2> QED  BY <2>2, <2>5, <2>6, OnceFrame
<1> QED  BY <1>1, <1>4, <1>5, <1>6, <1>7

LEMMA RedirectOnce ==
    ASSUME PipeInv, StatusPipeOnce,
           \/ WpipeAboveMin \/ CsAboveMin \/ NotifyAboveMin
           \/ Environment \/ Stdin \/ OpenLogFile \/ Stdout
    PROVE  StatusPipeOnce'
<1> USE DEF PipeInv
<1>0. ASSUME pc \in Child
      PROVE  /\ fd.wpipe \in 3 .. MaxFd /\ fd.wpipe \in Fds /\ fd.wpipe \in Int /\ t.tab[fd.wpipe] = "wpipe"
             /\ \A y \in {"cs", "notify", "socket", "output"} : fd[y] # fd.wpipe
             /\ \A n \in Fds : t.tab[n] = "wpipe" => n = fd.wpipe
             /\ fd.wpipe >= minfd
  BY <1>0, LaunchAssumption DEF StatusPipeKept, StatusPipeOnce, Fds
<1>1. ASSUME NEW x \in {"wpipe", "cs", "notify"}, NEW from \in Child, NEW to \in Child, NEW cx \in BOOLEAN,
             AboveMin(x, from, to, cx)
      PROVE  StatusPipeOnce'
  <2>1. x \in Names  BY NameFacts
  <2>2. ChildStep(from, to)  BY <1>1, <2>1, AboveMinFacts
  <2>3. \/ t' = t /\ fd' = fd /\ (fd[x] = -1 \/ fd[x] >= minfd \/ (x = "notify" /\ fd[x] = force))
        \/ /\ fd[x] # -1 /\ ~(fd[x] >= minfd) /\ ~(x = "notify" /\ fd[x] = force) /\ fd[x] \in Fds
           /\ \E n \in Fds : /\ n >= minfd /\ t.tab[n] = "closed" /\ fd' = [fd EXCEPT ![x] = n]
                             /\ IsPut(t', t, n, t.tab[fd[x]], cx)
    BY <1>1, <2>1, AboveMinFacts
  <2>4. pc = from /\ pc' = to /\ pc \in Child /\ pc' \in Child  BY <2>2 DEF ChildStep
  <2>5. CASE t' = t /\ fd' = fd  BY <2>4, <2>5, OnceFrame
  <2>6. CASE /\ fd[x] # -1 /\ ~(fd[x] >= minfd) /\ fd[x] \in Fds
             /\ \E n \in Fds : /\ t.tab[n] = "closed" /\ fd' = [fd EXCEPT ![x] = n]
                               /\ IsPut(t', t, n, t.tab[fd[x]], cx)
    <3>1. x # "wpipe"  BY <1>0, <2>4, <2>6
    <3>2. PICK n \in Fds : /\ t.tab[n] = "closed" /\ fd' = [fd EXCEPT ![x] = n]
                           /\ IsPut(t', t, n, t.tab[fd[x]], cx)
      BY <2>6
    <3>3. fd'.wpipe = fd.wpipe /\ fd'.socket = fd.socket
      BY <1>1, <3>1, <3>2, NameFacts DEF LaunchType, Numbers
    <3>4. t.tab[fd[x]] # "wpipe" /\ n # fd.wpipe  BY <1>0, <1>1, <2>4, <2>6, <3>1, <3>2
    <3>5. /\ fd.wpipe \in t.cx => fd.wpipe \in t'.cx
          /\ \A k \in Fds : t'.tab[k] = "wpipe" => t.tab[k] = "wpipe"
      BY <1>0, <2>4, <3>2, <3>4 DEF IsPut
    <3> QED  BY <2>4, <3>3, <3>5, OnceFrame
  <2> QED  BY <2>3, <2>5, <2>6
<1>2. TRUE \in BOOLEAN /\ FALSE \in BOOLEAN /\ {"above_wpipe", "above_cs", "above_notify", "environment"} \subseteq Child
  BY ChildStages
<1>3. CASE WpipeAboveMin  BY <1>1, <1>2, <1>3 DEF WpipeAboveMin
<1>4. CASE CsAboveMin  BY <1>1, <1>2, <1>4 DEF CsAboveMin
<1>5. CASE NotifyAboveMin  BY <1>1, <1>2, <1>5 DEF NotifyAboveMin
<1>6. CASE Environment
  <2>1. /\ ChildStep("environment", IF "console" \in asked THEN "limits" ELSE "null") /\ fd' = fd
        /\ fd.socket = -1 => t' = t
        /\ fd.socket # -1 => fd.socket \in Fds /\ IsMove(t', t, fd.socket, 3)
    BY <1>6, EnvironmentFacts
  <2>2. pc = "environment" /\ pc' \in {"limits", "null"} /\ pc \in Child /\ pc' \in Child
    BY <2>1, ChildStages DEF ChildStep
  <2>3. fd.socket # -1 => fd.wpipe # 3 /\ t.tab[fd.socket] # "wpipe"
    BY <1>0, <2>1, <2>2 DEF StatusPipeKept
  <2>4. /\ fd.wpipe \in t.cx => fd.wpipe \in t'.cx
        /\ \A k \in Fds : t'.tab[k] = "wpipe" => t.tab[k] = "wpipe"
    BY <1>0, <2>1, <2>2, <2>3 DEF IsMove
  <2> QED  BY <2>1, <2>2, <2>4, OnceFrame
<1>7. CASE Stdin
  <2>1. /\ ChildStep("null", "output") /\ fd' = fd
        /\ \A k \in Fds : t'.tab[k] \in {"null", "closed", t.tab[k]}
        /\ \A k \in Fds : k \notin 0 .. 2 /\ k \in t.cx => k \in t'.cx
    BY <1>7, StdinFacts
  <2>2. pc \in Child /\ pc' \in Child  BY <2>1, ChildStages DEF ChildStep
  <2>3. fd.wpipe \notin 0 .. 2 /\ fd.wpipe \in Fds  BY <1>0, <2>2
  <2>4. /\ fd.wpipe \in t.cx => fd.wpipe \in t'.cx
        /\ \A k \in Fds : t'.tab[k] = "wpipe" => t.tab[k] = "wpipe"
    BY <2>1, <2>3
  <2> QED  BY <2>1, <2>2, <2>4, OnceFrame
<1>8. CASE OpenLogFile
  <2>1. /\ ChildStep("output", "stdout")
        /\ fd.output # -1 => t' = t /\ fd' = fd
        /\ fd.output = -1 => \E n \in Fds : LogOpenedAt(n)
    BY <1>8, OpenLogFileFacts
  <2>2. pc \in Child /\ pc' \in Child  BY <2>1, ChildStages DEF ChildStep
  <2>3. CASE fd.output # -1  BY <2>1, <2>2, <2>3, OnceFrame
  <2>4. CASE fd.output = -1
    <3>1. PICK n \in Fds : LogOpenedAt(n)  BY <2>1, <2>4
    <3>2. n # fd.wpipe  BY <1>0, <2>2, <3>1 DEF LogOpenedAt
    <3>3. fd'.wpipe = fd.wpipe /\ fd'.socket = fd.socket
      BY <3>1, NameFacts DEF LogOpenedAt, LaunchType, Numbers
    <3>4. /\ fd.wpipe \in t.cx => fd.wpipe \in t'.cx
          /\ \A k \in Fds : t'.tab[k] = "wpipe" => t.tab[k] = "wpipe"
      BY <1>0, <2>2, <3>1, <3>2 DEF LogOpenedAt, IsPut
    <3> QED  BY <2>2, <3>3, <3>4, OnceFrame
  <2> QED  BY <2>3, <2>4
<1>9. CASE Stdout
  <2>1. pc = "stdout"  BY <1>9 DEF Stdout, Step
  <2>2. pc \in Child /\ fd.output # -1  BY <2>1, ChildStages DEF StatusPipeKept
  <2>3. /\ ChildStep("stdout", "limits") /\ fd' = fd /\ fd.output \in Fds
        /\ \A k \in Fds : t'.tab[k] \in {t.tab[fd.output], "closed", t.tab[k]}
        /\ \A k \in Fds : k \in t.cx /\ k \notin {1, 2, fd.output} => k \in t'.cx
    BY <1>9, <2>2, StdoutFacts
  <2>4. pc' \in Child  BY <2>3, ChildStages DEF ChildStep
  <2>5. t.tab[fd.output] # "wpipe" /\ fd.wpipe \notin {1, 2, fd.output} /\ fd.wpipe \in Fds
    BY <1>0, <2>2, <2>3
  <2>6. /\ fd.wpipe \in t.cx => fd.wpipe \in t'.cx
        /\ \A k \in Fds : t'.tab[k] = "wpipe" => t.tab[k] = "wpipe"
    BY <2>3, <2>5
  <2> QED  BY <2>2, <2>3, <2>4, <2>6, OnceFrame
<1> QED  BY <1>3, <1>4, <1>5, <1>6, <1>7, <1>8, <1>9

LEMMA OnceStep ==
    ASSUME PipeInv, StatusPipeOnce, Next
    PROVE  StatusPipeOnce'
<1>1. CASE \/ open_socket \/ StatusPipe \/ InputFd \/ LogPipe \/ ControlSocket \/ NotifyPipe \/ LaunchFails
           \/ CallFails
  <2>1. pc' \notin Child /\ pc' # "running"
    BY <1>1, ChildStages, ZenonT(40)
    DEF open_socket, StatusPipe, InputFd, LogPipe, ControlSocket, NotifyPipe, Pair, LaunchFails, CallFails,
        failure_out, Step
  <2> QED  BY <2>1 DEF StatusPipeOnce
<1>2. CASE Limits \/ EnterCgroup \/ Privileges
  <2>1. /\ pc \in {"limits", "cgroup", "privileges"} /\ pc' \in {"cgroup", "privileges", "exec"}
        /\ t' = t /\ fd' = fd
    BY <1>2 DEF Limits, EnterCgroup, Privileges, Step
  <2>2. pc \in Child /\ pc' \in Child  BY <2>1, ChildStages
  <2> QED  BY <2>1, <2>2, OnceFrame
<1>3. CASE Exec
  <2>1. /\ ChildStep("exec", "running") /\ \A k \in Fds : t'.tab[k] = IF k \in t.cx THEN "closed" ELSE t.tab[k]
    BY <1>3, ExecFacts DEF PipeInv
  <2>2. pc \in Child /\ pc' = "running" /\ pc' \notin Child  BY <2>1, ChildStages DEF ChildStep
  <2> QED  BY <2>1, <2>2 DEF StatusPipeOnce
<1> QED  BY <1>1, <1>2, <1>3, ForkOnce, ArrangeOnce, RedirectOnce DEF Next

\* The invariant holds throughout.
LEMMA PipeInvHolds == Spec => [](PipeInv /\ StatusPipeOnce)
<1>1. PipeInv /\ StatusPipeOnce /\ [Next]_vars => PipeInv' /\ StatusPipeOnce'
  <2> SUFFICES ASSUME PipeInv, StatusPipeOnce, [Next]_vars PROVE PipeInv' /\ StatusPipeOnce'
    OBVIOUS
  <2>1. CASE UNCHANGED vars
    BY <2>1 DEF vars, PipeInv, LaunchType, Opened, OpenedIn, AskedIsOpen, StatusPipeKept, EndsOfParent, FailureIsTold,
                StatusPipeOnce, minfd, InputRefused
  <2>2. CASE Next
    <3>1. PipeInv'
      BY <2>2, SocketStep, PairStep, InputStep, LaunchFailsStep, ForkStep, MoveInputStep, FreeForcedStep, TakeStep,
         AboveMinStep, RedirectStep, EndingStep DEF Next
    <3> QED  BY <2>2, <3>1, OnceStep
  <2> QED  BY <2>1, <2>2
<1>2. Init => StatusPipeOnce
  <2>1. Init => pc = "socket"  BY DEF Init
  <2> QED  BY <2>1, ChildStages DEF StatusPipeOnce
<1> QED  BY <1>1, <1>2, LaunchInit, PTL DEF Spec

\* A child that does not become the process tells it, whatever numbers were free
\* and whichever call fails: exec_status_pipe_watcher does not take its end for
\* a start.
THEOREM FailuresAreTold == Spec => []FailureIsTold
<1>1. PipeInv => FailureIsTold  BY DEF PipeInv
<1> QED  BY <1>1, PipeInvHolds, PTL

\* A launch that fails leaves none of the ends that the parent has opened for it,
\* but for the failure of get_input_fd(), which leaves both ends of the status
\* pipe and nothing else; and once a process runs, the writing end of the status
\* pipe is open nowhere, so that its end is seen.
THEOREM OneFailureLeaks == Spec => []LeaksOnlyWithoutInput
<1>1. PipeInv /\ StatusPipeOnce => LeaksOnlyWithoutInput
  <2> SUFFICES ASSUME PipeInv, StatusPipeOnce PROVE LeaksOnlyWithoutInput
    OBVIOUS
  <2>1. t.tab \in [Fds -> Contents] /\ parent.tab \in [Fds -> Contents]  BY DEF PipeInv, LaunchType, Tables
  <2>2. Range(t.tab) = {t.tab[n] : n \in Fds} /\ Range(parent.tab) = {parent.tab[n] : n \in Fds}
    BY <2>1 DEF Range
  <2>3. ASSUME pc = "not_launched", InputRefused
        PROVE  Range(t.tab) \cap (WriteEnds \cup ReadEnds) = {"status", "wpipe"}
    <3>1. PICK n \in Fds : t.tab[n] = "status"  BY <2>3 DEF PipeInv, EndsOfParent
    <3>2. PICK m \in Fds : t.tab[m] = "wpipe"  BY <2>3 DEF PipeInv, EndsOfParent
    <3>3. \A k \in Fds : t.tab[k] \in WriteEnds \cup ReadEnds => t.tab[k] \in {"status", "wpipe"}
      BY <2>3 DEF PipeInv, EndsOfParent
    <3> QED  BY <2>2, <3>1, <3>2, <3>3 DEF WriteEnds, ReadEnds
  <2>4. ASSUME pc = "not_launched", ~InputRefused
        PROVE  Range(t.tab) \cap (WriteEnds \cup ReadEnds) = {}
    BY <2>2, <2>4 DEF PipeInv, EndsOfParent
  <2>5. Range(parent.tab) \cap WriteEnds = {}  BY <2>2 DEF PipeInv, EndsOfParent
  <2>6. pc = "running" => "wpipe" \notin Range(t.tab)  BY <2>2 DEF StatusPipeOnce
  <2> QED  BY <2>3, <2>4, <2>5, <2>6 DEF LeaksOnlyWithoutInput
<1> QED  BY <1>1, PipeInvHolds, PTL
-----------------------------------------------------------------------------
(***************************************************************************)
(* The layout of the descriptors                                           *)
(***************************************************************************)
LaidOut == NumbersKept /\ Survives /\ SocketAt /\ InputAt /\ OutputAt

\* The numbers that clash are those at the fork.
LEMMA ClashFacts ==
    ASSUME Unforked, Same
    PROVE  Clash' <=> Clash
BY DEF Unforked, Same, Clash

\* A stage at which nothing moves.
LEMMA LayoutSame ==
    ASSUME PipeInv, Layout, t' = t, fd' = fd, Unforked, Same,
           \/ pc \in {"free_wpipe", "free_cs", "free_socket"} /\ pc' \in {"free_cs", "free_socket", "take"}
           \/ pc \in {"above_wpipe", "above_cs", "above_notify"} /\ pc' \in {"above_cs", "above_notify", "environment"}
           \/ pc \in {"limits", "cgroup", "privileges"} /\ pc' \in {"cgroup", "privileges", "exec"}
    PROVE  Layout'
<1> SUFFICES ASSUME ~Clash PROVE LaidOut'
  BY ClashFacts DEF Layout, LaidOut
<1>1. LaidOut  BY ChildStages DEF Layout, LaidOut
<1>2. asked' = asked /\ force' = force /\ given' = given  BY DEF Unforked, Same
<1>3. NumbersKept'  BY <1>1, <1>2 DEF LaidOut, NumbersKept, Taken, Moved, Ending, Untaken
<1>4. Survives'  BY <1>1, <1>2 DEF LaidOut, Survives, Moved, Ending
<1>5. SocketAt'  BY <1>1, <1>2 DEF LaidOut, SocketAt, Moved, Ending
<1>6. InputAt'  BY <1>1, <1>2 DEF LaidOut, InputAt
<1>7. OutputAt'  BY <1>1, <1>2 DEF LaidOut, OutputAt, Arranging, Redirecting, Ending
<1> QED  BY <1>3, <1>4, <1>5, <1>6, <1>7 DEF LaidOut

LEMMA ForkLayout ==
    ASSUME PipeInv, Fork
    PROVE  Layout'
<1> SUFFICES LaidOut'
  BY DEF Layout, LaidOut
<1> USE DEF PipeInv
<1>1. pc = "fork" /\ pc' = "stdin" /\ t' = t /\ fd' = fd /\ given' = fd /\ asked' = asked /\ force' = force
  BY DEF Fork, Same
<1>2. OpenedIn(t, fd)  BY <1>1 DEF Opened, BeforeFork
<1>3. NumbersKept'
  <2>1. fd.wpipe \in {-1} \cup Fds  BY FdFacts, NameFacts
  <2> QED  BY <1>1, <1>2, <2>1 DEF NumbersKept, OpenedIn, WriteEnds, Ending, Taken, Moved, Untaken, AskedIsOpen, BeforeFork
<1>4. Survives'
  <2>1. 3 .. MaxFd \subseteq Fds /\ \A n \in Fds : n \in 0 .. 2 \/ n \in 3 .. MaxFd
    BY LaunchAssumption DEF Fds
  <2> QED  BY <1>1, <1>2, <2>1, NameFacts DEF Survives, OpenedIn
<1>5. SocketAt' /\ InputAt'  BY <1>1, <1>2, NameFacts DEF SocketAt, InputAt, OpenedIn, Moved, Ending
<1>6. OutputAt'
  <2>1. "output" \in asked => fd.output >= 3 /\ t.tab[fd.output] = "output"
    <3> SUFFICES ASSUME "output" \in asked PROVE fd.output >= 3 /\ t.tab[fd.output] = "output"
      OBVIOUS
    <3>1. fd.output \in Fds  BY <1>1, FdFacts, NameFacts DEF AskedIsOpen, BeforeFork, Ending
    <3>2. t.tab[fd.output] = "output"  BY <1>2, <3>1, NameFacts DEF OpenedIn
    <3>3. fd.output \notin 0 .. 2  BY <1>2, <3>2 DEF OpenedIn
    <3> QED  BY <3>1, <3>2, <3>3, LaunchAssumption DEF Fds
  <2> QED  BY <1>1, <1>2, <2>1 DEF OutputAt, OpenedIn, Arranging, Redirecting, Ending
<1> QED  BY <1>3, <1>4, <1>5, <1>6 DEF LaidOut

LEMMA MoveInputLayout ==
    ASSUME PipeInv, Layout, MoveInput
    PROVE  Layout'
<1> USE DEF PipeInv
<1>1. /\ ChildStep("stdin", "free_wpipe") /\ fd' = fd /\ t' \in Tables
      /\ fd.input = -1 => t' = t
      /\ fd.input # -1 => fd.input \in Fds /\ IsMove(t', t, fd.input, 0)
  BY MoveInputFacts
<1>2. pc = "stdin" /\ pc' = "free_wpipe" /\ asked' = asked /\ force' = force /\ given' = given /\ Unforked /\ Same
  BY <1>1 DEF ChildStep, Unforked, Same
<1> SUFFICES ASSUME ~Clash PROVE LaidOut'
  BY <1>2, ClashFacts DEF Layout, LaidOut
<1>3. LaidOut  BY <1>2, ChildStages DEF Layout, LaidOut
<1>4. OpenedIn(t, fd) /\ 0 \in Fds /\ t.tab[0] = "tty" /\ 0 \notin t.cx
  BY <1>2, SmallFds DEF Opened, OpenedIn
<1>5. \A x \in Names : \A n \in Fds : t.tab[n] = x <=> n = fd[x]  BY <1>4 DEF OpenedIn
<1>6. fd.input # -1 => t.tab[fd.input] = "input" /\ fd.input \notin 0 .. 2
  BY <1>1, <1>4, <1>5, NameFacts DEF OpenedIn
<1>7. /\ \A k \in Fds : t'.tab[k] = IF fd.input = -1 THEN t.tab[k] ELSE IF k = 0 THEN "input"
                                    ELSE IF k = fd.input THEN "closed" ELSE t.tab[k]
      /\ \A k \in Fds : k \in t'.cx => k \in t.cx
      /\ \A k \in Fds : k \in t.cx /\ k # fd.input => k \in t'.cx
  BY <1>1, <1>4, <1>6 DEF IsMove
<1>8. NumbersKept'  BY <1>1, <1>2, <1>3 DEF LaidOut, NumbersKept, Ending, Taken, Moved, Untaken
<1>9. Survives'
  <2>1. 3 .. MaxFd \subseteq Fds /\ 0 .. 2 \subseteq Fds /\ 0 \notin 3 .. MaxFd  BY LaunchAssumption DEF Fds
  <2>2. \A x \in {"cs", "notify"} : \A n \in Fds : t'.tab[n] = x <=> n = fd[x]
    BY <1>3, <1>4, <1>6, <1>7 DEF LaidOut, Survives
  <2>3. /\ \A n \in Fds : t'.tab[n] \in {"cs", "notify"} => n \notin t'.cx
        /\ \A n \in 0 .. 2 : n \notin t'.cx
    BY <1>3, <1>7, <2>1 DEF LaidOut, Survives
  <2>4. \A n \in 3 .. MaxFd : t'.tab[n] \in {"closed", "cs", "notify"} \/ n \in t'.cx
    BY <1>2, <1>3, <1>7, <2>1 DEF LaidOut, Survives, Moved, Ending
  <2> QED  BY <1>1, <2>2, <2>3, <2>4 DEF Survives
<1>10. SocketAt'
  BY <1>1, <1>2, <1>4, <1>5, <1>6, <1>7, NameFacts DEF SocketAt, Moved, Ending
<1>11. InputAt'
  <2>1. fd.input # -1 <=> "input" \in asked  BY <1>2, ChildStages DEF AskedIsOpen
  <2> QED  BY <1>2, <1>4, <1>7, <2>1 DEF InputAt
<1>12. OutputAt'
  <2>1. 1 \in Fds /\ 2 \in Fds /\ 1 # 0 /\ 2 # 0 /\ fd.input \notin {1, 2}  BY <1>6, SmallFds
  <2>2. "output" \in asked => fd.output >= 3 /\ fd.output \in Fds /\ t'.tab[fd.output] = "output"
    <3> SUFFICES ASSUME "output" \in asked PROVE fd.output >= 3 /\ fd.output \in Fds /\ t'.tab[fd.output] = "output"
      OBVIOUS
    <3>1. fd.output >= 3 /\ fd.output \in Fds /\ t.tab[fd.output] = "output"
      <4>1. fd.output # -1  BY <1>2, ChildStages DEF AskedIsOpen, BeforeFork, Ending
      <4>2. fd.output \in Fds  BY <4>1, FdFacts, NameFacts
      <4> QED  BY <1>2, <1>3, <4>2 DEF LaidOut, OutputAt
    <3>2. fd.output # 0 /\ (fd.input # -1 => fd.output # fd.input)  BY <1>6, <3>1
    <3> QED  BY <1>7, <3>1, <3>2
  <2>3. \A n \in {1, 2} : t'.tab[n] = "tty" \/ (n = force /\ t'.tab[n] = "notify")
    BY <1>2, <1>3, <1>7, <2>1 DEF LaidOut, OutputAt
  <2> QED  BY <1>1, <1>2, <2>2, <2>3 DEF OutputAt, Arranging, Redirecting, Ending
<1> QED  BY <1>8, <1>9, <1>10, <1>11, <1>12 DEF LaidOut

\* Without a clash, only the status pipe is ever in the way of the notification.
LEMMA FreeForcedLayout ==
    ASSUME PipeInv, Layout, FreeForWpipe \/ FreeForCs \/ FreeForSocket
    PROVE  Layout'
<1> USE DEF PipeInv
<1>0. /\ minfd \in Nat /\ minfd >= 3 /\ 0 \in Nat /\ "wpipe" \in Names /\ "cs" \in Names /\ "socket" \in Names
  BY FdFacts, NameFacts
<1>1. pc \in {"free_wpipe", "free_cs", "free_socket"} /\ Unforked /\ Same
  BY DEF FreeForWpipe, FreeForCs, FreeForSocket, FreeForcedNumber, Step
<1> SUFFICES ASSUME ~Clash PROVE Layout'
  BY <1>1, ClashFacts DEF Layout
<1>2. LaidOut  BY <1>1, ChildStages DEF Layout, LaidOut
<1>3. force # -1 => force # fd.cs /\ force # fd.socket
  BY <1>2 DEF LaidOut, NumbersKept, Clash
<1>4. CASE FreeForCs
  <2>1. FreeForcedNumber("cs", "free_cs", "free_socket", minfd)  BY <1>4 DEF FreeForCs
  <2>2. ChildStep("free_cs", "free_socket") /\ t' = t /\ fd' = fd  BY <1>0, <1>3, <2>1, FreeForcedFacts
  <2> QED  BY <2>2, LayoutSame DEF ChildStep
<1>5. CASE FreeForSocket
  <2>1. FreeForcedNumber("socket", "free_socket", "take", 0)  BY <1>5 DEF FreeForSocket
  <2>2. ChildStep("free_socket", "take") /\ t' = t /\ fd' = fd  BY <1>0, <1>3, <2>1, FreeForcedFacts
  <2> QED  BY <2>2, LayoutSame DEF ChildStep
<1>6. CASE FreeForWpipe
  <2>1. FreeForcedNumber("wpipe", "free_wpipe", "free_cs", minfd)  BY <1>6 DEF FreeForWpipe
  <2>2. /\ ChildStep("free_wpipe", "free_cs")
        /\ force = -1 \/ fd["wpipe"] # force => t' = t /\ fd' = fd
        /\ force # -1 /\ fd["wpipe"] = force =>
             /\ fd["wpipe"] \in Fds
             /\ \E n \in Fds : n >= minfd /\ t.tab[n] = "closed" /\ fd' = [fd EXCEPT !["wpipe"] = n] /\ IsReserved(t', t, "wpipe", n)
    BY <1>0, <2>1, FreeForcedFacts
  <2>3. CASE force = -1 \/ fd["wpipe"] # force  BY <2>2, <2>3, LayoutSame DEF ChildStep
  <2>4. CASE force # -1 /\ fd["wpipe"] = force
    <3> SUFFICES LaidOut'
      BY DEF Layout, LaidOut
    <3>1. PICK n \in Fds : n >= minfd /\ t.tab[n] = "closed" /\ fd' = [fd EXCEPT !["wpipe"] = n] /\ IsReserved(t', t, "wpipe", n)
      BY <2>2, <2>4
    <3>2. pc = "free_wpipe" /\ pc' = "free_cs" /\ asked' = asked /\ force' = force /\ given' = given
      BY <2>2 DEF ChildStep, Unforked, Same
    <3>3. fd.wpipe \in 3 .. MaxFd /\ fd.wpipe \in Fds /\ t.tab[fd.wpipe] = "wpipe"
      <4>1. fd.wpipe \in 3 .. MaxFd /\ t.tab[fd.wpipe] = "wpipe"  BY <3>2, ChildStages DEF StatusPipeKept
      <4> QED  BY <4>1, LaunchAssumption DEF Fds
    <3>4. n \in 3 .. MaxFd /\ n # fd.wpipe  BY <1>0, <3>1, <3>3, LaunchAssumption DEF Fds
    <3>5. \A y \in Names : y # "wpipe" => fd'[y] = fd[y]  BY <3>1 DEF LaunchType, Numbers
    <3>6. /\ \A k \in Fds : t'.tab[k] = IF k = fd.wpipe THEN "closed" ELSE IF k = n THEN "wpipe" ELSE t.tab[k]
          /\ \A k \in Fds : k \in t'.cx <=> k # fd.wpipe /\ (k = n \/ k \in t.cx)
      BY <3>1, <3>3 DEF IsReserved
    <3>7. fd'.cs = fd.cs /\ fd'.socket = fd.socket /\ fd'.input = fd.input /\ fd'.output = fd.output /\ fd'.notify = fd.notify
      BY <3>5, NameFacts
    <3>8. NumbersKept'
      <4>1. fd'.wpipe = n  BY <3>1, NameFacts DEF LaunchType, Numbers
      <4>2. fd.socket # -1 => n # 3  BY <3>1 DEF minfd
      <4> QED  BY <1>2, <3>2, <3>7, <4>1, <4>2 DEF LaidOut, NumbersKept, Taken, Moved, Ending, Untaken
    <3>9. Survives'
      <4>1. 3 .. MaxFd \subseteq Fds /\ 0 .. 2 \subseteq Fds /\ n \notin 0 .. 2  BY <3>4, LaunchAssumption DEF Fds
      <4>2. \A x \in {"cs", "notify"} : \A k \in Fds : t'.tab[k] = x <=> k = fd'[x]
        BY <1>2, <3>1, <3>3, <3>6, <3>7 DEF LaidOut, Survives
      <4>3. /\ \A k \in Fds : t'.tab[k] \in {"cs", "notify"} => k \notin t'.cx
            /\ \A k \in 0 .. 2 : k \notin t'.cx
        BY <1>2, <3>6, <4>1 DEF LaidOut, Survives
      <4>4. \A k \in 3 .. MaxFd : t'.tab[k] \in {"closed", "cs", "notify"} \/ k \in t'.cx
        BY <1>2, <3>2, <3>6, <4>1 DEF LaidOut, Survives, Moved, Ending
      <4> QED  BY <4>2, <4>3, <4>4 DEF Survives
    <3>10. SocketAt'
      <4>1. \A k \in Fds : t.tab[k] = "socket" <=> k = fd.socket
        BY <1>2, <3>2 DEF LaidOut, SocketAt, Moved, Ending
      <4> QED  BY <3>1, <3>2, <3>3, <3>6, <3>7, <4>1 DEF SocketAt, Moved, Ending
    <3>11. InputAt'
      <4>1. 0 \in Fds /\ 0 # n /\ 0 # fd.wpipe  BY <3>3, <3>4, SmallFds
      <4> QED  BY <1>2, <3>2, <3>6, <4>1 DEF LaidOut, InputAt
    <3>12. OutputAt'
      <4>1. {1, 2} \subseteq Fds /\ n \notin {1, 2} /\ fd.wpipe \notin {1, 2}  BY <3>3, <3>4, SmallFds
      <4>2. \A k \in {1, 2} : t'.tab[k] = "tty" \/ (k = force /\ t'.tab[k] = "notify")
        BY <1>2, <3>2, <3>6, <4>1 DEF LaidOut, OutputAt, Arranging
      <4>3. "output" \in asked => fd.output >= 3 /\ t'.tab[fd.output] = "output"
        <5> SUFFICES ASSUME "output" \in asked PROVE fd.output >= 3 /\ t'.tab[fd.output] = "output"
          OBVIOUS
        <5>1. fd.output >= 3 /\ t.tab[fd.output] = "output"  BY <1>2, <3>2 DEF LaidOut, OutputAt, Arranging
        <5>2. fd.output \in Fds  BY <3>2, FdFacts, NameFacts, ChildStages DEF AskedIsOpen, BeforeFork, Ending
        <5> QED  BY <3>1, <3>3, <3>6, <5>1, <5>2
      <4> QED  BY <3>2, <3>7, <4>2, <4>3 DEF OutputAt, Redirecting, Ending
    <3> QED  BY <3>8, <3>9, <3>10, <3>11, <3>12 DEF LaidOut
  <2> QED  BY <2>3, <2>4
<1> QED  BY <1>4, <1>5, <1>6

LEMMA TakeLayout ==
    ASSUME PipeInv, Layout, TakeForcedNumber
    PROVE  Layout'
<1> USE DEF PipeInv
<1>1. /\ ChildStep("take", "above_wpipe") /\ fd' \in Numbers
      /\ force \in {-1, fd.notify} => t' = t /\ fd' = fd
      /\ force \notin {-1, fd.notify} =>
           /\ fd.notify \in Fds /\ force \in Fds
           /\ IsMove(t', t, fd.notify, force) /\ fd' = [fd EXCEPT !.notify = force]
  BY TakeFacts
<1>2. pc = "take" /\ pc' = "above_wpipe" /\ asked' = asked /\ force' = force /\ given' = given /\ Unforked /\ Same
  BY <1>1 DEF ChildStep, Unforked, Same
<1> SUFFICES ASSUME ~Clash PROVE LaidOut'
  BY <1>2, ClashFacts DEF Layout, LaidOut
<1>3. LaidOut  BY <1>2, ChildStages DEF Layout, LaidOut
<1>4. CASE force \in {-1, fd.notify}
  <2>1. t' = t /\ fd' = fd  BY <1>1, <1>4
  <2>2. NumbersKept' /\ Survives'
    BY <1>2, <1>3, <1>4, <2>1 DEF LaidOut, NumbersKept, Survives, Taken, Moved, Ending, Untaken
  <2>3. SocketAt' /\ InputAt'  BY <1>2, <1>3, <2>1 DEF LaidOut, SocketAt, InputAt, Moved, Ending
  <2>4. OutputAt'  BY <1>2, <1>3, <2>1 DEF LaidOut, OutputAt, Arranging, Redirecting, Ending
  <2> QED  BY <2>2, <2>3, <2>4 DEF LaidOut
<1>5. CASE force \notin {-1, fd.notify}
  <2>1. /\ fd.notify \in Fds /\ force \in Fds /\ fd.notify # force /\ fd.notify >= 4
        /\ t.tab[fd.notify] = "notify" /\ fd.notify # -1
    <3>1. fd.notify \in Fds /\ force \in Fds /\ fd.notify # -1  BY <1>1, <1>5, SmallFds
    <3> QED  BY <1>3, <1>5, <3>1 DEF LaidOut, NumbersKept, Survives
  <2>2. /\ \A k \in Fds : t'.tab[k] = IF k = force THEN "notify" ELSE IF k = fd.notify THEN "closed" ELSE t.tab[k]
        /\ \A k \in Fds : k \in t'.cx <=> k \in t.cx /\ k # fd.notify /\ k # force
    BY <1>1, <1>5, <2>1 DEF IsMove
  <2>3. /\ fd'.notify = force /\ fd'.cs = fd.cs /\ fd'.socket = fd.socket /\ fd'.input = fd.input
        /\ fd'.output = fd.output /\ fd'.wpipe = fd.wpipe
    BY <1>1, <1>5, NameFacts DEF LaunchType, Numbers
  <2>4. /\ force # fd.cs /\ force # fd.output /\ (fd.socket # -1 => force # fd.socket /\ force # 3)
        /\ force = 0 => fd.input = -1
    BY <1>2, <1>3, <1>5 DEF LaidOut, NumbersKept, Clash, Ending
  <2>5. NumbersKept'  BY <1>2, <1>3, <2>3 DEF LaidOut, NumbersKept, Taken, Moved, Ending, Untaken
  <2>6. Survives'
    <3>1. 3 .. MaxFd \subseteq Fds /\ 0 .. 2 \subseteq Fds  BY LaunchAssumption DEF Fds
    <3>2. \A x \in {"cs", "notify"} : \A k \in Fds : t'.tab[k] = x <=> k = fd'[x]
      BY <1>3, <2>1, <2>2, <2>3, <2>4 DEF LaidOut, Survives
    <3>3. /\ \A k \in Fds : t'.tab[k] \in {"cs", "notify"} => k \notin t'.cx
          /\ \A k \in 0 .. 2 : k \notin t'.cx
      BY <1>3, <2>2, <3>1 DEF LaidOut, Survives
    <3>4. \A k \in 3 .. MaxFd : t'.tab[k] \in {"closed", "cs", "notify"} \/ k \in t'.cx
      BY <1>2, <1>3, <2>2, <3>1 DEF LaidOut, Survives, Moved, Ending
    <3> QED  BY <3>2, <3>3, <3>4 DEF Survives
  <2>7. SocketAt'
    <3>1. \A k \in Fds : t.tab[k] = "socket" <=> k = fd.socket
      BY <1>2, <1>3 DEF LaidOut, SocketAt, Moved, Ending
    <3> QED  BY <1>2, <2>1, <2>2, <2>3, <2>4, <3>1, SmallFds DEF SocketAt, Moved, Ending
  <2>8. InputAt'
    <3>1. fd.input # -1 <=> "input" \in asked  BY <1>2, ChildStages DEF AskedIsOpen
    <3>2. 0 \in Fds /\ 0 # fd.notify  BY <2>1, SmallFds
    <3> QED  BY <1>2, <1>3, <2>2, <2>4, <3>1, <3>2 DEF LaidOut, InputAt
  <2>9. OutputAt'
    <3>1. {1, 2} \subseteq Fds /\ fd.notify \notin {1, 2}  BY <2>1, SmallFds
    <3>2. \A k \in {1, 2} : t'.tab[k] = "tty" \/ (k = force /\ t'.tab[k] = "notify")
      BY <1>2, <1>3, <2>2, <3>1 DEF LaidOut, OutputAt, Arranging
    <3>3. "output" \in asked => fd.output >= 3 /\ t'.tab[fd.output] = "output"
      <4> SUFFICES ASSUME "output" \in asked PROVE fd.output >= 3 /\ t'.tab[fd.output] = "output"
        OBVIOUS
      <4>1. fd.output >= 3 /\ t.tab[fd.output] = "output"  BY <1>2, <1>3 DEF LaidOut, OutputAt, Arranging
      <4>2. fd.output \in Fds  BY <1>2, FdFacts, NameFacts, ChildStages DEF AskedIsOpen, BeforeFork, Ending
      <4> QED  BY <2>1, <2>2, <2>4, <4>1, <4>2
    <3> QED  BY <1>2, <2>3, <3>2, <3>3 DEF OutputAt, Redirecting, Ending
  <2> QED  BY <2>5, <2>6, <2>7, <2>8, <2>9 DEF LaidOut
<1> QED  BY <1>4, <1>5

\* None of the three that must be above the reserved numbers is below them.
LEMMA AboveMinLayout ==
    ASSUME PipeInv, Layout, WpipeAboveMin \/ CsAboveMin \/ NotifyAboveMin
    PROVE  Layout'
<1> USE DEF PipeInv
<1>0. TRUE \in BOOLEAN /\ FALSE \in BOOLEAN /\ "wpipe" \in Names /\ "cs" \in Names /\ "notify" \in Names
  BY NameFacts
<1>1. pc \in {"above_wpipe", "above_cs", "above_notify"} /\ Unforked /\ Same
  BY DEF WpipeAboveMin, CsAboveMin, NotifyAboveMin, AboveMin, Step
<1> SUFFICES ASSUME ~Clash PROVE Layout'
  BY <1>1, ClashFacts DEF Layout
<1>2. LaidOut  BY <1>1, ChildStages DEF Layout, LaidOut
<1>3. pc' \in {"above_cs", "above_notify", "environment"}
  BY DEF WpipeAboveMin, CsAboveMin, NotifyAboveMin, AboveMin, Step
<1>4. CASE WpipeAboveMin
  <2>1. pc = "above_wpipe"  BY <1>4 DEF WpipeAboveMin, AboveMin, Step
  <2>2. fd.wpipe \in 3 .. MaxFd  BY <2>1, ChildStages DEF StatusPipeKept
  <2>3. fd.wpipe >= minfd  BY <1>2, <2>1, <2>2, LaunchAssumption DEF LaidOut, NumbersKept, minfd
  <2>4. t' = t /\ fd' = fd  BY <1>4, <2>3 DEF WpipeAboveMin, AboveMin, Step
  <2> QED  BY <1>1, <1>3, <2>4, LayoutSame
<1>5. CASE CsAboveMin
  <2>1. fd.cs = -1 \/ fd.cs >= minfd  BY <1>2, FdFacts, NameFacts DEF LaidOut, NumbersKept
  <2>2. t' = t /\ fd' = fd  BY <1>5, <2>1 DEF CsAboveMin, AboveMin, Step
  <2> QED  BY <1>1, <1>3, <2>2, LayoutSame
<1>6. CASE NotifyAboveMin
  <2>1. fd.notify = -1 \/ fd.notify >= minfd \/ fd.notify = force
    BY <1>2, FdFacts, NameFacts DEF LaidOut, NumbersKept
  <2>2. t' = t /\ fd' = fd  BY <1>6, <2>1 DEF NotifyAboveMin, AboveMin, Step
  <2> QED  BY <1>1, <1>3, <2>2, LayoutSame
<1> QED  BY <1>4, <1>5, <1>6

\* The socket gets the number 3, which without a clash is nobody's.
LEMMA EnvironmentLayout ==
    ASSUME PipeInv, Layout, Environment
    PROVE  Layout'
<1> USE DEF PipeInv
<1>1. /\ ChildStep("environment", IF "console" \in asked THEN "limits" ELSE "null")
      /\ fd' = fd /\ t' \in Tables
      /\ fd.socket = -1 => t' = t
      /\ fd.socket # -1 => fd.socket \in Fds /\ IsMove(t', t, fd.socket, 3)
  BY EnvironmentFacts
<1>2. /\ pc = "environment" /\ pc' = IF "console" \in asked THEN "limits" ELSE "null"
      /\ asked' = asked /\ force' = force /\ given' = given /\ Unforked /\ Same
  BY <1>1 DEF ChildStep, Unforked, Same
<1> SUFFICES ASSUME ~Clash PROVE LaidOut'
  BY <1>2, ClashFacts DEF Layout, LaidOut
<1>3. LaidOut  BY <1>2, ChildStages DEF Layout, LaidOut
<1>4. fd.socket # -1 <=> "socket" \in asked  BY <1>2, ChildStages DEF AskedIsOpen
<1>5. "output" \in asked => fd.output \in Fds /\ fd.output >= 3 /\ t.tab[fd.output] = "output"
  <2>1. "output" \in asked => fd.output # -1  BY <1>2, ChildStages DEF AskedIsOpen, BeforeFork, Ending
  <2>2. "output" \in asked => fd.output \in Fds  BY <2>1, FdFacts, NameFacts
  <2> QED  BY <1>2, <1>3, <2>2 DEF LaidOut, OutputAt, Arranging
<1>6. \A k \in Fds : t.tab[k] = "socket" <=> k = fd.socket
  BY <1>2, <1>3 DEF LaidOut, SocketAt, Moved, Ending
<1>7. fd.socket # -1 => fd.socket # 3 /\ fd.cs # 3 /\ fd.notify # 3 /\ fd.output # 3
  BY <1>2, <1>3 DEF LaidOut, NumbersKept, Clash, Ending
<1>8. pc' \in Moved /\ (pc' = "limits" <=> "console" \in asked) /\ (pc' = "null" <=> "console" \notin asked)
  BY <1>2 DEF Moved, Ending
<1>9. NumbersKept'  BY <1>1, <1>2, <1>3 DEF LaidOut, NumbersKept, Ending, Taken, Moved, Untaken
<1>10. /\ \A k \in Fds : t'.tab[k] = IF fd.socket = -1 THEN t.tab[k] ELSE IF k = 3 THEN "socket"
                                      ELSE IF k = fd.socket THEN "closed" ELSE t.tab[k]
       /\ \A k \in Fds : k \in t'.cx => k \in t.cx
       /\ \A k \in Fds : k \in t.cx => k \in t'.cx \/ (fd.socket # -1 /\ k \in {3, fd.socket})
       /\ fd.socket # -1 => 3 \notin t'.cx
  <2>1. CASE fd.socket = -1  BY <1>1, <2>1
  <2>2. CASE fd.socket # -1
    <3>1. fd.socket \in Fds /\ t.tab[fd.socket] = "socket" /\ fd.socket # 3 /\ 3 \in Fds
      <4>1. fd.socket \in Fds /\ fd.socket # 3  BY <1>1, <1>7, <2>2
      <4>2. t.tab[fd.socket] = "socket"  BY <1>6, <4>1, Zenon
      <4>3. 3 \in Fds  BY SmallFds
      <4> QED  BY <4>1, <4>2, <4>3
    <3>2. IsMove(t', t, fd.socket, 3)  BY <1>1, <2>2
    <3> QED  BY <2>2, <3>1, <3>2 DEF IsMove
  <2> QED  BY <2>1, <2>2
<1>11. 3 .. MaxFd \subseteq Fds /\ 0 .. 2 \subseteq Fds /\ 3 \in Fds  BY LaunchAssumption DEF Fds
<1>12. Survives'
  <2>1. \A x \in {"cs", "notify"} : \A k \in Fds : t'.tab[k] = x <=> k = fd[x]
    BY <1>3, <1>6, <1>7, <1>10 DEF LaidOut, Survives
  <2>2. /\ \A k \in Fds : t'.tab[k] \in {"cs", "notify"} => k \notin t'.cx
        /\ \A k \in 0 .. 2 : k \notin t'.cx
    BY <1>3, <1>10, <1>11 DEF LaidOut, Survives
  <2>3. \A k \in 3 .. MaxFd :
        t'.tab[k] \in {"closed", "cs", "notify"} \/ k \in t'.cx \/ (k = 3 /\ t'.tab[k] = "socket")
    BY <1>2, <1>3, <1>10, <1>11 DEF LaidOut, Survives, Moved, Ending
  <2> QED  BY <1>1, <1>8, <2>1, <2>2, <2>3 DEF Survives
<1>13. SocketAt'  BY <1>1, <1>2, <1>4, <1>6, <1>7, <1>8, <1>10, <1>11 DEF SocketAt
<1>14. InputAt'
  <2>1. 0 \in Fds /\ 0 # 3  BY SmallFds
  <2> QED  BY <1>2, <1>3, <1>6, <1>10, <2>1 DEF LaidOut, InputAt
<1>15. OutputAt'
  <2>1. {1, 2} \subseteq Fds /\ 3 \notin {1, 2}  BY SmallFds
  <2>2. \A k \in {1, 2} : t.tab[k] = "tty" \/ (k = force /\ t.tab[k] = "notify")
    BY <1>2, <1>3 DEF LaidOut, OutputAt, Arranging
  <2>3. \A k \in {1, 2} \ {force} : t'.tab[k] = "tty"  BY <1>6, <1>10, <2>1, <2>2
  <2>4. "output" \in asked => t'.tab[fd.output] = "output"  BY <1>5, <1>6, <1>7, <1>10
  <2> QED  BY <1>1, <1>2, <1>5, <1>8, <2>3, <2>4 DEF OutputAt, Arranging, Redirecting, Ending
<1> QED  BY <1>9, <1>12, <1>13, <1>14, <1>15 DEF LaidOut

\* The notification has one of the numbers that are closed only if it is to.
LEMMA NotificationBelow3 ==
    ASSUME LaidOut, pc \in Moved
    PROVE  /\ force # -1 => fd.notify = force
           /\ fd.notify \in 0 .. 2 => fd.notify = force
           /\ \A k \in 0 .. 2 : k # fd.cs
           /\ \A k \in Fds : t.tab[k] = "cs" <=> k = fd.cs
           /\ \A k \in Fds : t.tab[k] = "notify" <=> k = fd.notify
BY DEF LaidOut, NumbersKept, Survives, Taken

LEMMA StdinLayout ==
    ASSUME PipeInv, Layout, Stdin
    PROVE  Layout'
<1> USE DEF PipeInv
<1> DEFINE closing == {n \in 0 .. 2 : n # force /\ ~(n = 0 /\ fd.input # -1)}
           null == fd.notify # 0 /\ fd.input = -1
<1>1. /\ ChildStep("null", "output") /\ fd' = fd /\ t' \in Tables
      /\ \A k \in Fds : t'.tab[k] = IF k = 0 /\ null THEN "null"
                                    ELSE IF k \in closing THEN "closed" ELSE t.tab[k]
      /\ \A k \in Fds : k \in t'.cx => k \in t.cx
      /\ \A k \in Fds : k \notin 0 .. 2 /\ k \in t.cx => k \in t'.cx
  BY StdinFacts
<1>2. pc = "null" /\ pc' = "output" /\ asked' = asked /\ force' = force /\ given' = given /\ Unforked /\ Same
  BY <1>1 DEF ChildStep, Unforked, Same
<1> SUFFICES ASSUME ~Clash PROVE LaidOut'
  BY <1>2, ClashFacts DEF Layout, LaidOut
<1>3. LaidOut  BY <1>2, ChildStages DEF Layout, LaidOut
<1>4. /\ force # -1 => fd.notify = force
      /\ fd.notify \in 0 .. 2 => fd.notify = force
      /\ \A k \in 0 .. 2 : k # fd.cs
      /\ \A k \in Fds : t.tab[k] = "cs" <=> k = fd.cs
      /\ \A k \in Fds : t.tab[k] = "notify" <=> k = fd.notify
  <2>1. pc \in Moved  BY <1>2 DEF Moved
  <2> QED  BY <1>3, <2>1, NotificationBelow3
<1>5. /\ fd.input # -1 <=> "input" \in asked
      /\ force = 0 => fd.input = -1
  BY <1>2, <1>3, ChildStages DEF AskedIsOpen, LaidOut, NumbersKept, Clash
<1>6. 3 .. MaxFd \subseteq Fds /\ 0 .. 2 \subseteq Fds /\ 3 \in Fds /\ \A k \in 3 .. MaxFd : k \notin 0 .. 2
  BY LaunchAssumption DEF Fds
<1>7. \A k \in 3 .. MaxFd : t'.tab[k] = t.tab[k] /\ (k \in t'.cx <=> k \in t.cx)
  BY <1>1, <1>6
<1>8. /\ \A k \in {1, 2} \ {force} : t'.tab[k] = "closed"
      /\ \A k \in {1, 2} : k = force => t'.tab[k] = t.tab[k]
      /\ 0 = force => t'.tab[0] = t.tab[0] /\ t.tab[0] = "notify"
      /\ fd.input # -1 => t'.tab[0] = t.tab[0] /\ t.tab[0] = "input"
      /\ 0 # force /\ fd.input = -1 => t'.tab[0] = "null"
  <2>1. 0 \in Fds /\ 1 \in Fds /\ 2 \in Fds /\ 0 \in 0 .. 2 /\ 1 \in 0 .. 2 /\ 2 \in 0 .. 2  BY SmallFds
  <2>2. "input" \in asked <=> t.tab[0] = "input"  BY <1>2, <1>3 DEF LaidOut, InputAt
  <2> QED  BY <1>1, <1>4, <1>5, <2>1, <2>2
<1> HIDE DEF closing, null
<1>9. NumbersKept'  BY <1>1, <1>2, <1>3 DEF LaidOut, NumbersKept, Ending, Taken, Moved, Untaken
<1>10. Survives'
  <2>1. \A k \in Fds : k \in 3 .. MaxFd \/ k \in {0, 1, 2}  BY LaunchAssumption DEF Fds
  <2>2. \A x \in {"cs", "notify"} : \A k \in Fds : t'.tab[k] = x <=> k = fd[x]
    <3>1. \A k \in {0, 1, 2} : k \in 0 .. 2 /\ k \in Fds  BY SmallFds
    <3>2. \A k \in {0, 1, 2} : t'.tab[k] # "cs" /\ (t'.tab[k] = "notify" <=> k = fd.notify)
      BY <1>4, <1>8, <3>1
    <3>3. \A k \in {0, 1, 2} : k # fd.cs  BY <1>4, <3>1
    <3> QED  BY <1>4, <1>7, <2>1, <3>2, <3>3
  <2>3. /\ \A k \in Fds : t'.tab[k] \in {"cs", "notify"} => k \notin t'.cx
        /\ \A k \in 0 .. 2 : k \notin t'.cx
    BY <1>1, <1>3, <1>4, <1>6, <2>2 DEF LaidOut, Survives
  <2>4. \A k \in 3 .. MaxFd :
        t'.tab[k] \in {"closed", "cs", "notify"} \/ k \in t'.cx \/ (k = 3 /\ t'.tab[k] = "socket")
    BY <1>3, <1>7 DEF LaidOut, Survives
  <2> QED  BY <1>1, <1>2, <2>2, <2>3, <2>4 DEF Survives, Moved
<1>11. SocketAt'
  <2>1. 3 \in 3 .. MaxFd  BY LaunchAssumption
  <2> QED  BY <1>1, <1>2, <1>3, <1>7, <2>1 DEF LaidOut, SocketAt, Moved
<1>12. InputAt'  BY <1>2, <1>5, <1>8 DEF InputAt
<1>13. OutputAt'
  <2>1. "output" \in asked => fd.output >= 3 /\ t'.tab[fd.output] = "output"
    <3> SUFFICES ASSUME "output" \in asked PROVE fd.output >= 3 /\ t'.tab[fd.output] = "output"
      OBVIOUS
    <3>1. fd.output >= 3 /\ t.tab[fd.output] = "output"  BY <1>2, <1>3 DEF LaidOut, OutputAt, Redirecting
    <3>2. fd.output # -1  BY <1>2, ChildStages DEF AskedIsOpen, BeforeFork, Ending
    <3>3. fd.output \in 3 .. MaxFd  BY <3>1, <3>2, FdFacts, NameFacts, LaunchAssumption DEF Fds
    <3> QED  BY <1>7, <3>1, <3>3
  <2>2. "console" \notin asked  BY <1>2, <1>3 DEF LaidOut, OutputAt, Redirecting
  <2>3. t'.tab[0] # "closed"  BY <1>8
  <2> QED  BY <1>1, <1>2, <1>8, <2>1, <2>2, <2>3 DEF OutputAt, Arranging, Redirecting, Ending
<1> QED  BY <1>9, <1>10, <1>11, <1>12, <1>13 DEF LaidOut

\* One of stdout and stderr is free for the log file, and no lower number is.
LEMMA OpenLogFileLayout ==
    ASSUME PipeInv, Layout, OpenLogFile
    PROVE  Layout'
<1> USE DEF PipeInv
<1>1. /\ ChildStep("output", "stdout")
      /\ fd.output # -1 => t' = t /\ fd' = fd
      /\ fd.output = -1 => \E n \in Fds : LogOpenedAt(n)
  BY OpenLogFileFacts
<1>2. pc = "output" /\ pc' = "stdout" /\ asked' = asked /\ force' = force /\ given' = given /\ Unforked /\ Same
  BY <1>1 DEF ChildStep, Unforked, Same
<1> SUFFICES ASSUME ~Clash PROVE LaidOut'
  BY <1>2, ClashFacts DEF Layout, LaidOut
<1>3. LaidOut  BY <1>2, ChildStages DEF Layout, LaidOut
<1>4. fd.output # -1 <=> "output" \in asked  BY <1>2, ChildStages DEF AskedIsOpen, BeforeFork, Ending
<1>5. CASE fd.output # -1
  <2>1. t' = t /\ fd' = fd  BY <1>1, <1>5
  <2>2. NumbersKept' /\ Survives'
    BY <1>2, <1>3, <2>1 DEF LaidOut, NumbersKept, Survives, Taken, Moved, Ending, Untaken
  <2>3. SocketAt' /\ InputAt'  BY <1>2, <1>3, <2>1 DEF LaidOut, SocketAt, InputAt, Moved
  <2>4. OutputAt'  BY <1>2, <1>3, <1>4, <1>5, <2>1 DEF LaidOut, OutputAt, Arranging, Redirecting, Ending
  <2> QED  BY <2>2, <2>3, <2>4 DEF LaidOut
<1>6. CASE fd.output = -1
  <2>1. PICK n \in Fds : LogOpenedAt(n)  BY <1>1, <1>6
  <2>2. /\ t.tab[n] = "closed" /\ fd' = [fd EXCEPT !.output = n]
        /\ \A m \in Free(t, 0) : n <= m
        /\ \A k \in Fds : t'.tab[k] = IF k = n THEN "log" ELSE t.tab[k]
        /\ \A k \in Fds : k \in t'.cx <=> k # n /\ k \in t.cx
    BY <2>1 DEF LogOpenedAt, IsPut
  <2>3. /\ force # -1 => fd.notify = force
        /\ fd.notify \in 0 .. 2 => fd.notify = force
        /\ \A k \in Fds : t.tab[k] = "notify" <=> k = fd.notify
    <3>1. pc \in Moved  BY <1>2 DEF Moved
    <3> QED  BY <1>3, <3>1, NotificationBelow3
  <2>4. t.tab[0] # "closed" /\ \A k \in {1, 2} \ {force} : t.tab[k] = "closed"
    BY <1>2, <1>3 DEF LaidOut, OutputAt
  <2>5. n \in {1, 2} \ {force}
    <3>1. n # 0 /\ n \in Int /\ n >= 0  BY <2>2, <2>4, LaunchAssumption DEF Fds
    <3>2. PICK k \in {1, 2} : k # force  OBVIOUS
    <3>3. k \in Free(t, 0)
      <4>1. k \in 0 .. MaxFd  BY LaunchAssumption
      <4> QED  BY <2>4, <3>2, <4>1 DEF Free
    <3>4. n <= 2  BY <2>2, <3>1, <3>2, <3>3
    <3>5. n # force
      <4> SUFFICES ASSUME n = force PROVE FALSE
        OBVIOUS
      <4>1. fd.notify = n  BY <2>3, <3>1
      <4> QED  BY <2>2, <2>3, <4>1
    <3> QED  BY <3>1, <3>4, <3>5
  <2>6. /\ fd'.output = n /\ fd'.cs = fd.cs /\ fd'.socket = fd.socket /\ fd'.input = fd.input
        /\ fd'.notify = fd.notify
    BY <2>2, NameFacts DEF LaunchType, Numbers
  <2>7. 3 .. MaxFd \subseteq Fds /\ 0 .. 2 \subseteq Fds /\ n \notin 3 .. MaxFd /\ 3 \in 3 .. MaxFd /\ 0 \in Fds
    BY <2>5, LaunchAssumption DEF Fds
  <2>8. NumbersKept'
    BY <1>2, <1>3, <1>4, <1>6, <2>6 DEF LaidOut, NumbersKept, Taken, Moved, Ending, Untaken
  <2>9. Survives'
    <3>1. \A x \in {"cs", "notify"} : \A k \in Fds : t'.tab[k] = x <=> k = fd'[x]
      <4>1. \A x \in {"cs", "notify"} : fd'[x] = fd[x]  BY <2>6
      <4>2. \A x \in {"cs", "notify"} : \A k \in Fds : t.tab[k] = x <=> k = fd[x]
        BY <1>3 DEF LaidOut, Survives
      <4>3. \A x \in {"cs", "notify"} : \A k \in Fds : t'.tab[k] = x <=> t.tab[k] = x  BY <2>2
      <4> SUFFICES ASSUME NEW x \in {"cs", "notify"}, NEW k \in Fds PROVE t'.tab[k] = x <=> k = fd'[x]
        OBVIOUS
      <4>4. fd'[x] = fd[x]  BY <4>1
      <4>5. t.tab[k] = x <=> k = fd[x]  BY <4>2
      <4>6. t'.tab[k] = x <=> t.tab[k] = x  BY <4>3
      <4> QED  BY <4>4, <4>5, <4>6
    <3>2. /\ \A k \in Fds : t'.tab[k] \in {"cs", "notify"} => k \notin t'.cx
          /\ \A k \in 0 .. 2 : k \notin t'.cx
      BY <1>3, <2>2, <2>7 DEF LaidOut, Survives
    <3>3. \A k \in 3 .. MaxFd :
            t'.tab[k] \in {"closed", "cs", "notify"} \/ k \in t'.cx \/ (k = 3 /\ t'.tab[k] = "socket")
      BY <1>3, <2>2, <2>7 DEF LaidOut, Survives
    <3> QED  BY <1>2, <3>1, <3>2, <3>3 DEF Survives, Moved
  <2>10. SocketAt'
    <3>1. t'.tab[3] = t.tab[3] /\ (3 \in t'.cx <=> 3 \in t.cx) /\ fd'.output # 3  BY <2>2, <2>5, <2>6, <2>7
    <3> QED  BY <1>2, <1>3, <3>1 DEF LaidOut, SocketAt, Moved
  <2>11. InputAt'
    <3>1. t'.tab[0] = t.tab[0]  BY <2>2, <2>5, <2>7
    <3> QED  BY <1>2, <1>3, <3>1 DEF LaidOut, InputAt
  <2>12. OutputAt'
    <3>1. t'.tab[n] = "log"  BY <2>2
    <3>2. "console" \notin asked  BY <1>2, <1>3 DEF LaidOut, OutputAt, Redirecting
    <3> QED  BY <1>2, <1>4, <1>6, <2>5, <2>6, <3>1, <3>2 DEF OutputAt, Arranging, Redirecting, Ending
  <2> QED  BY <2>8, <2>9, <2>10, <2>11, <2>12 DEF LaidOut
<1> QED  BY <1>5, <1>6

LEMMA StdoutLayout ==
    ASSUME PipeInv, Layout, Stdout
    PROVE  Layout'
<1> USE DEF PipeInv
<1>0. pc = "stdout"  BY DEF Stdout, Step
<1>1. /\ ChildStep("stdout", "limits") /\ fd' = fd /\ t' \in Tables /\ fd.output \in Fds
      /\ \A k \in Fds : t'.tab[k] =
           IF k \in {1, 2} /\ k # fd.notify THEN t.tab[fd.output]
           ELSE IF k = fd.output THEN "closed" ELSE t.tab[k]
      /\ \A k \in Fds : k \in t'.cx => k \in t.cx
      /\ \A k \in Fds : k \in t.cx /\ k \notin {1, 2, fd.output} => k \in t'.cx
  <2>1. fd.output # -1  BY <1>0, ChildStages DEF StatusPipeKept
  <2> QED  BY <2>1, StdoutFacts
<1>2. pc = "stdout" /\ pc' = "limits" /\ asked' = asked /\ force' = force /\ given' = given /\ Unforked /\ Same
  BY <1>1 DEF ChildStep, Unforked, Same
<1> SUFFICES ASSUME ~Clash PROVE LaidOut'
  BY <1>2, ClashFacts DEF Layout, LaidOut
<1>3. LaidOut  BY <1>2, ChildStages DEF Layout, LaidOut
<1>4. /\ force # -1 => fd.notify = force
      /\ fd.notify \in 0 .. 2 => fd.notify = force
      /\ \A k \in 0 .. 2 : k # fd.cs
      /\ \A k \in Fds : t.tab[k] = "cs" <=> k = fd.cs
      /\ \A k \in Fds : t.tab[k] = "notify" <=> k = fd.notify
  <2>1. pc \in Moved  BY <1>2 DEF Moved
  <2> QED  BY <1>3, <2>1, NotificationBelow3
<1>5. /\ "console" \notin asked /\ fd.output # 0
      /\ t.tab[fd.output] = IF "output" \in asked THEN "output" ELSE "log"
      /\ fd.output \in {1, 2} => fd.output # force
  BY <1>2, <1>3 DEF LaidOut, OutputAt, Redirecting
<1>6. 3 .. MaxFd \subseteq Fds /\ 0 .. 2 \subseteq Fds /\ 0 \in Fds /\ 3 \in 3 .. MaxFd
  BY LaunchAssumption DEF Fds
<1>7. \A k \in 3 .. MaxFd :
        /\ t'.tab[k] = IF k = fd.output THEN "closed" ELSE t.tab[k]
        /\ k \in t.cx /\ k # fd.output => k \in t'.cx
  BY <1>1, <1>6
<1>8. NumbersKept'  BY <1>1, <1>2, <1>3 DEF LaidOut, NumbersKept, Ending, Taken, Moved, Untaken
<1>9. Survives'
  <2>1. \A k \in Fds : t'.tab[k] = "cs" <=> k = fd.cs
    <3>1. fd.cs # fd.output  BY <1>1, <1>4, <1>5
    <3>2. fd.cs \notin {1, 2}  BY <1>4
    <3> QED  BY <1>1, <1>4, <1>5, <3>1, <3>2
  <2>2. \A k \in Fds : t'.tab[k] = "notify" <=> k = fd.notify
    <3>1. fd.notify # fd.output  BY <1>1, <1>4, <1>5
    <3> QED  BY <1>1, <1>4, <1>5, <3>1
  <2>3. /\ \A k \in Fds : t'.tab[k] \in {"cs", "notify"} => k \notin t'.cx
        /\ \A k \in 0 .. 2 : k \notin t'.cx
    BY <1>1, <1>3, <1>4, <1>6, <2>1, <2>2 DEF LaidOut, Survives
  <2>4. \A k \in 3 .. MaxFd :
          t'.tab[k] \in {"closed", "cs", "notify"} \/ k \in t'.cx \/ (k = 3 /\ t'.tab[k] = "socket")
    BY <1>3, <1>7 DEF LaidOut, Survives
  <2>5. \A x \in {"cs", "notify"} : \A k \in Fds : t'.tab[k] = x <=> k = fd'[x]  BY <1>1, <2>1, <2>2
  <2> QED  BY <1>1, <1>2, <2>3, <2>4, <2>5 DEF Survives, Moved, Ending
<1>10. SocketAt'
  BY <1>1, <1>2, <1>3, <1>6, <1>7 DEF LaidOut, SocketAt, Moved, Ending
<1>11. InputAt'
  <2>1. t'.tab[0] = t.tab[0]  BY <1>1, <1>5, <1>6
  <2> QED  BY <1>2, <1>3, <2>1 DEF LaidOut, InputAt
<1>12. OutputAt'
  <2>1. \A k \in {1, 2} \ {force} : k \in Fds /\ k # fd.notify  BY <1>4, SmallFds
  <2>2. \A k \in {1, 2} \ {force} : t'.tab[k] = t.tab[fd.output]  BY <1>1, <2>1
  <2> QED  BY <1>2, <1>5, <2>2 DEF OutputAt, Arranging, Redirecting, Ending
<1> QED  BY <1>8, <1>9, <1>10, <1>11, <1>12 DEF LaidOut

\* What exec leaves of the layout is what the service asked for.
LEMMA ExecRuns ==
    ASSUME PipeInv, Layout, Exec
    PROVE  RunsWithWhatItAsked'
<1> USE DEF PipeInv
<1>1. /\ ChildStep("exec", "running") /\ fd' = fd /\ t' \in Tables
      /\ \A k \in Fds : t'.tab[k] = IF k \in t.cx THEN "closed" ELSE t.tab[k]
  BY ExecFacts
<1>2. pc = "exec" /\ pc' = "running" /\ asked' = asked /\ force' = force /\ given' = given /\ Unforked /\ Same
  BY <1>1 DEF ChildStep, Unforked, Same
<1> SUFFICES ASSUME ~Clash
             PROVE  /\ Running("cs")' /\ Running("notify")'
                    /\ force # -1 => fd.notify = force
                    /\ "socket" \in asked <=> t'.tab[3] = "socket"
                    /\ "input" \in asked <=> t'.tab[0] = "input"
                    /\ \A n \in {1, 2} \ {force} :
                         t'.tab[n] = IF "console" \in asked THEN "tty"
                                     ELSE IF "output" \in asked THEN "output" ELSE "log"
                    /\ \A n \in 3 .. MaxFd : t'.tab[n] \in {"closed", "cs", "notify", "socket"}
  BY <1>1, <1>2, ClashFacts DEF RunsWithWhatItAsked
<1>3. LaidOut  BY <1>2, ChildStages DEF Layout, LaidOut
<1>4. pc \in Moved /\ pc \in Ending  BY <1>2 DEF Moved, Ending
<1>5. /\ 3 .. MaxFd \subseteq Fds /\ {1, 2} \subseteq Fds /\ {1, 2} \subseteq 0 .. 2
      /\ 0 \in Fds /\ 0 \in 0 .. 2 /\ 3 \in Fds
  BY LaunchAssumption DEF Fds
<1>6. /\ fd.cs # -1 <=> "cs" \in asked
      /\ fd.notify # -1 <=> "notify" \in asked
  BY <1>2, ChildStages DEF AskedIsOpen, BeforeFork
<1>7. \A x \in {"cs", "notify"} : \A k \in Fds : t'.tab[k] = x <=> k = fd[x]
  BY <1>1, <1>3 DEF LaidOut, Survives
<1>8. Running("cs")'
  <2>1. "cs" \in asked => fd.cs \in Fds  BY <1>6, FdFacts, NameFacts
  <2>2. "cs" \notin asked => fd.cs \notin Fds  BY <1>6, SmallFds
  <2> QED  BY <1>1, <1>2, <1>7, <2>1, <2>2 DEF Running, At
<1>9. Running("notify")'
  <2>1. "notify" \in asked => fd.notify \in Fds  BY <1>6, FdFacts, NameFacts
  <2>2. "notify" \notin asked => fd.notify \notin Fds  BY <1>6, SmallFds
  <2> QED  BY <1>1, <1>2, <1>7, <2>1, <2>2 DEF Running, At
<1>10. force # -1 => fd.notify = force  BY <1>3, <1>4 DEF LaidOut, NumbersKept, Taken
<1>11. "socket" \in asked <=> t'.tab[3] = "socket"  BY <1>1, <1>3, <1>4, <1>5 DEF LaidOut, SocketAt
<1>12. "input" \in asked <=> t'.tab[0] = "input"
  BY <1>1, <1>2, <1>3, <1>5 DEF LaidOut, InputAt, Survives
<1>13. \A n \in {1, 2} : t'.tab[n] = t.tab[n]  BY <1>1, <1>3, <1>5 DEF LaidOut, Survives
<1>14. \A n \in {1, 2} \ {force} :
         t'.tab[n] = IF "console" \in asked THEN "tty" ELSE IF "output" \in asked THEN "output" ELSE "log"
  BY <1>3, <1>4, <1>13 DEF LaidOut, OutputAt
<1>15. \A n \in 3 .. MaxFd : t'.tab[n] \in {"closed", "cs", "notify", "socket"}
  BY <1>1, <1>3, <1>5 DEF LaidOut, Survives
<1> QED  BY <1>8, <1>9, <1>10, <1>11, <1>12, <1>14, <1>15

\* The layout is kept by every step, and only exec makes a process of the child.
LEMMA LaunchInvStep ==
    ASSUME PipeInv, Layout, RunsWithWhatItAsked, [Next]_vars
    PROVE  Layout' /\ RunsWithWhatItAsked'
<1>1. CASE UNCHANGED vars
  <2>1. /\ pc' = pc /\ t' = t /\ fd' = fd /\ asked' = asked /\ force' = force /\ given' = given
    BY <1>1 DEF vars
  <2>2. Clash' <=> Clash  BY <2>1 DEF Clash
  <2>3. Layout'
    BY <2>1, <2>2 DEF Layout, NumbersKept, Survives, SocketAt, InputAt, OutputAt
  <2>4. RunsWithWhatItAsked'  BY <2>1, <2>2 DEF RunsWithWhatItAsked, Running, At
  <2> QED  BY <2>3, <2>4
<1>2. CASE \/ open_socket \/ StatusPipe \/ InputFd \/ LogPipe \/ ControlSocket \/ NotifyPipe \/ LaunchFails
           \/ CallFails
  <2>1. pc' \notin Child /\ pc' # "running"
    BY <1>2, ChildStages, ZenonT(40)
    DEF open_socket, StatusPipe, InputFd, LogPipe, ControlSocket, NotifyPipe, Pair, LaunchFails, CallFails,
        failure_out, Step
  <2> QED  BY <2>1 DEF Layout, RunsWithWhatItAsked
<1>3. CASE \/ Fork \/ MoveInput \/ FreeForWpipe \/ FreeForCs \/ FreeForSocket \/ TakeForcedNumber
           \/ WpipeAboveMin \/ CsAboveMin \/ NotifyAboveMin
           \/ Environment \/ Stdin \/ OpenLogFile \/ Stdout
  <2>1. pc' # "running"
    BY <1>3 DEF Fork, MoveInput, FreeForWpipe, FreeForCs, FreeForSocket, FreeForcedNumber, TakeForcedNumber,
                WpipeAboveMin, CsAboveMin, NotifyAboveMin, AboveMin, Environment, Stdin, OpenLogFile, Stdout, Step
  <2>2. RunsWithWhatItAsked'  BY <2>1 DEF RunsWithWhatItAsked
  <2>3. Layout'
    BY <1>3, ForkLayout, MoveInputLayout, FreeForcedLayout, TakeLayout, AboveMinLayout, EnvironmentLayout, StdinLayout,
       OpenLogFileLayout, StdoutLayout
  <2> QED  BY <2>2, <2>3
<1>4. CASE Limits \/ EnterCgroup \/ Privileges
  <2>1. /\ pc \in {"limits", "cgroup", "privileges"} /\ pc' \in {"cgroup", "privileges", "exec"}
        /\ t' = t /\ fd' = fd /\ Unforked /\ Same
    BY <1>4 DEF Limits, EnterCgroup, Privileges, Step
  <2>2. RunsWithWhatItAsked'  BY <2>1 DEF RunsWithWhatItAsked
  <2> QED  BY <2>1, <2>2, LayoutSame
<1>5. CASE Exec
  <2>1. pc' = "running"  BY <1>5 DEF Exec, Step
  <2>2. Layout'  BY <2>1, ChildStages DEF Layout
  <2> QED  BY <1>5, <2>2, ExecRuns
<1> QED  BY <1>1, <1>2, <1>3, <1>4, <1>5 DEF Next

\* Whichever numbers were free, whatever the service asks for, and unless the
\* numbers clash, the process that runs has its control socket, its readiness
\* descriptor, its activation socket, its stdin, stdout and stderr where it is
\* told, each once, and nothing else of dinit's.
THEOREM ProcessHasItsDescriptors == Spec => []RunsWithWhatItAsked
<1>1. Init => Layout /\ RunsWithWhatItAsked
  <2>1. Init => pc = "socket"  BY DEF Init
  <2> QED  BY <2>1, ChildStages DEF Layout, RunsWithWhatItAsked
<1>2. PipeInv /\ Layout /\ RunsWithWhatItAsked /\ [Next]_vars => Layout' /\ RunsWithWhatItAsked'
  BY LaunchInvStep
<1> QED  BY <1>1, <1>2, PipeInvHolds, PTL DEF Spec
=============================================================================
