------------------------ MODULE BlockingCallsProofs ------------------------
(***************************************************************************)
(* For any ranks, views and programs that wait for an operation before     *)
(* they use its views again: the variables have their types, and kernels   *)
(* keep away from the memory that MPI is using (Quiet).                    *)
(*                                                                         *)
(* The inductive invariant says what is left of the call a rank is in      *)
(* (Ordered), that its execution space is empty from the fence on until    *)
(* the call enqueues kernels again (Drained), and that only what comes     *)
(* after the call that started an operation is queued while the operation  *)
(* is open (Open).  The rest, how the views of the operation differ from   *)
(* those of the queued calls, follows from the assumption on programs.     *)
(*                                                                         *)
(* The last part is about the order of results: Aligning says that the     *)
(* kernels and steps that are left use what the calls brought in the order *)
(* of the program, leaving out the calls that are refused.                 *)
(***************************************************************************)
EXTENDS BlockingCalls, SequenceTheorems, TLAPS

(* The steps of a call.                                                    *)
Labels == {"contiguous", "equal", "fit", "fence", "pack", "unpack", "consume",
           "collective", "leave", "message", "finish"}
Enqueued == {"pack", "unpack", "consume"}
InMpi == {"collective", "leave", "message", "finish"}
Unfenced == {"wait", "barrier"}
Messages == Promise!Senders \union Promise!Receivers

(* What holds of the steps of a call, and of what is left of them at any   *)
(* time: no MPI call comes before a fence; after kernels were enqueued no  *)
(* MPI call comes without one; a message is followed by its completion     *)
(* unless the call leaves that to a wait.                                  *)
Ordered(c, t) ==
  /\ t \in Seq(Labels)
  /\ \A m \in DOMAIN t :
       /\ t[m] \in {"collective", "leave"} => c.fn \notin Promise!PointToPoint
       /\ t[m] = "leave" => m = 1 \/ t[m - 1] = "collective"
       /\ t[m] = "message" =>
            /\ c.fn \in Messages
            /\ c.fn \in Promise!Posts \/ (m < Len(t) /\ t[m + 1] = "finish")
            /\ \A l \in DOMAIN t : t[l] = "message" => l = m
       /\ t[m] = "finish" =>
            /\ c.fn \in Promise!PointToPoint \ Promise!Posts
            /\ m = 1 \/ (c.fn # "wait" /\ t[m - 1] = "message")
       /\ t[m] = "pack" => c.fn \notin Unfenced
       /\ t[m] = "pack" /\ c.fn \in Promise!Posts => \E l \in m + 1 .. Len(t) : t[l] = "message"
       /\ t[m] = "unpack" => c.fn \in {"recv", "reduce", "wait"}
       /\ t[m] \in Enqueued /\ m < Len(t) => t[m + 1] \in Enqueued \union {"fence"}
       /\ t[m] \in InMpi /\ c.fn \notin Unfenced => \A l \in DOMAIN t : t[l] = "fence" => l < m

(* The state of a rank.  A wait is over when its operation is complete.    *)
Left(p) == Range(todo[p])
Over(p, w) == w \in 1 .. at[p] /\ (w = at[p] => "finish" \notin Left(p))

Tasks(p) ==
  /\ at[p] \in 0 .. Len(program[p])
  /\ IF at[p] = 0 THEN todo[p] = <<>> ELSE Ordered(Current(p), todo[p])
  /\ todo[p] # <<>> /\ Head(todo[p]) = "leave" => entered[p] # <<>>

(* Once a call is past its fence, and until it enqueues kernels again,     *)
(* there are none.                                                         *)
Drained(p) ==
  todo[p] # <<>> /\ Head(todo[p]) \notin Enqueued /\ "fence" \notin Left(p)
    /\ Current(p).fn \notin Unfenced => queue[p] = <<>>

Kernel(p, k) ==
  /\ k.op \in Enqueued \union {"produce"} /\ k.call \in 1 .. at[p]
  /\ k.op \in {"produce", "pack"} => program[p][k.call].fn \notin Unfenced
  /\ k.op = "unpack" => program[p][k.call].fn \in {"recv", "reduce", "wait"}
  /\ program[p][k.call].fn = "wait" => Over(p, k.call)

Kernels(p) == \A n \in DOMAIN queue[p] : Kernel(p, queue[p][n])

(* An operation under way is that of the call p is in, or was left open by *)
(* a call and no wait for it is over.  Then only what the program does     *)
(* after that call can be queued.                                          *)
Open(p, i) ==
  IF program[p][i].fn \notin Promise!Posts
  THEN i = at[p] /\ todo[p] # <<>> /\ Head(todo[p]) = "finish"
  ELSE /\ \A w \in Calls(p) : WaitsFor(program[p], w, i) => ~ Over(p, w)
       /\ \A n \in DOMAIN queue[p] :
            LET k == queue[p][n] IN k.call > i \/ (k.call = i /\ k.op = "consume")

MessageRecords ==
  [kind : {"send", "recv"}, peer : Ranks, tag : Nat, call : Nat, data : SUBSET (Ranks \X Nat),
   matched : BOOLEAN, lost : BOOLEAN, open : BOOLEAN]

Sent(p, m) ==
  /\ m.call \in 1 .. at[p] /\ program[p][m.call].fn \in Messages
  /\ m.kind = "send" <=> program[p][m.call].fn \in Promise!Senders
  /\ m.call = at[p] => "message" \notin Left(p)
  /\ m.open => Open(p, m.call)

Posted(p) ==
  /\ posted[p] \in Seq(MessageRecords)
  /\ \A n \in DOMAIN posted[p] : Sent(p, posted[p][n])
  /\ \A m, n \in DOMAIN posted[p] : posted[p][m].call = posted[p][n].call => m = n

Local(p) == Tasks(p) /\ Drained(p) /\ Kernels(p) /\ Posted(p)

(* Data was produced by calls that have begun.                             *)
Begun(D) == \A d \in D : d \in Ranks \X Nat /\ d[2] \in 1 .. at[d[1]]

Memory(p) ==
  /\ buf[p] \in [Buffers(p) -> SUBSET (Ranks \X Nat)]
  /\ \A b \in Buffers(p) : Begun(buf[p][b])
  /\ entered[p] \in Seq(SUBSET (Ranks \X Nat))
  /\ \A n \in DOMAIN entered[p] : Begun(entered[p][n])
  /\ \A n \in DOMAIN posted[p] : Begun(posted[p][n].data)

Domains ==
  /\ program \in Programs /\ aborted \in BOOLEAN
  /\ at \in [Ranks -> Nat] /\ DOMAIN todo = Ranks
  /\ queue \in [Ranks -> Seq([op : Enqueued \union {"produce"}, call : Nat])]
  /\ DOMAIN buf = Ranks /\ DOMAIN entered = Ranks /\ DOMAIN posted = Ranks

IInv == Domains /\ \A p \in Ranks : Local(p) /\ Memory(p)

-----------------------------------------------------------------------------
(* Joining short lists.                                                    *)
LEMMA Join ==
  ASSUME NEW S, NEW s \in Seq(S), NEW t \in Seq(S), NEW u \in Seq(S), Len(u) = Len(s) + Len(t),
         \A i \in 1 .. Len(s) : u[i] = s[i], \A i \in 1 .. Len(t) : u[Len(s) + i] = t[i]
  PROVE  s \o t = u
<1>1. s \o t \in Seq(S) /\ Len(s \o t) = Len(u)
      /\ \A i \in 1 .. Len(s \o t) : (s \o t)[i] = IF i <= Len(s) THEN s[i] ELSE t[i - Len(s)]
  BY ConcatProperties
<1>2. ASSUME NEW i \in 1 .. Len(u) PROVE (s \o t)[i] = u[i]
  <2>1. CASE i <= Len(s)
    BY <1>1, <2>1
  <2>2. CASE ~ (i <= Len(s))
    <3>1. i - Len(s) \in 1 .. Len(t) /\ Len(s) + (i - Len(s)) = i
      BY <2>2
    <3>2. QED
      BY <1>1, <2>2, <3>1
  <2>3. QED
    BY <2>1, <2>2
<1>3. QED
  BY <1>1, <1>2, SeqEqual

LEMMA Join02 ==
  ASSUME NEW a, NEW b
  PROVE  <<>> \o <<a, b>> = <<a, b>>
<1>1. PICK S, s, t, u : /\ S = {a, b} /\ s = <<>> /\ t = <<a, b>>
                        /\ u = <<a, b>>
  OBVIOUS
<1>2. s \in Seq(S) /\ t \in Seq(S) /\ u \in Seq(S) /\ Len(s) = 0 /\ Len(t) = 2 /\ Len(u) = 2
  BY <1>1
<1>3. \A i \in 1 .. Len(s) : u[i] = s[i]
  BY <1>1, <1>2
<1>4. \A i \in 1 .. Len(t) : u[Len(s) + i] = t[i]
  BY <1>1, <1>2
<1>5. Len(u) = Len(s) + Len(t)
  BY <1>2
<1>6. s \o t = u
  BY <1>2, <1>3, <1>4, <1>5, Join, ZenonT(30)
<1>7. QED
  BY <1>1, <1>6

LEMMA Join03 ==
  ASSUME NEW a, NEW b, NEW c
  PROVE  <<>> \o <<a, b, c>> = <<a, b, c>>
<1>1. PICK S, s, t, u : /\ S = {a, b, c} /\ s = <<>> /\ t = <<a, b, c>>
                        /\ u = <<a, b, c>>
  OBVIOUS
<1>2. s \in Seq(S) /\ t \in Seq(S) /\ u \in Seq(S) /\ Len(s) = 0 /\ Len(t) = 3 /\ Len(u) = 3
  BY <1>1
<1>3. \A i \in 1 .. Len(s) : u[i] = s[i]
  BY <1>1, <1>2
<1>4. \A i \in 1 .. Len(t) : u[Len(s) + i] = t[i]
  BY <1>1, <1>2
<1>5. Len(u) = Len(s) + Len(t)
  BY <1>2
<1>6. s \o t = u
  BY <1>2, <1>3, <1>4, <1>5, Join, ZenonT(30)
<1>7. QED
  BY <1>1, <1>6

LEMMA Join10 ==
  ASSUME NEW a
  PROVE  <<a>> \o <<>> = <<a>>
<1>1. PICK S, s, t, u : /\ S = {a} /\ s = <<a>> /\ t = <<>>
                        /\ u = <<a>>
  OBVIOUS
<1>2. s \in Seq(S) /\ t \in Seq(S) /\ u \in Seq(S) /\ Len(s) = 1 /\ Len(t) = 0 /\ Len(u) = 1
  BY <1>1
<1>3. \A i \in 1 .. Len(s) : u[i] = s[i]
  BY <1>1, <1>2
<1>4. \A i \in 1 .. Len(t) : u[Len(s) + i] = t[i]
  BY <1>1, <1>2
<1>5. Len(u) = Len(s) + Len(t)
  BY <1>2
<1>6. s \o t = u
  BY <1>2, <1>3, <1>4, <1>5, Join, ZenonT(30)
<1>7. QED
  BY <1>1, <1>6

LEMMA Join30 ==
  ASSUME NEW a, NEW b, NEW c
  PROVE  <<a, b, c>> \o <<>> = <<a, b, c>>
<1>1. PICK S, s, t, u : /\ S = {a, b, c} /\ s = <<a, b, c>> /\ t = <<>>
                        /\ u = <<a, b, c>>
  OBVIOUS
<1>2. s \in Seq(S) /\ t \in Seq(S) /\ u \in Seq(S) /\ Len(s) = 3 /\ Len(t) = 0 /\ Len(u) = 3
  BY <1>1
<1>3. \A i \in 1 .. Len(s) : u[i] = s[i]
  BY <1>1, <1>2
<1>4. \A i \in 1 .. Len(t) : u[Len(s) + i] = t[i]
  BY <1>1, <1>2
<1>5. Len(u) = Len(s) + Len(t)
  BY <1>2
<1>6. s \o t = u
  BY <1>2, <1>3, <1>4, <1>5, Join, ZenonT(30)
<1>7. QED
  BY <1>1, <1>6

LEMMA Join40 ==
  ASSUME NEW a, NEW b, NEW c, NEW d
  PROVE  <<a, b, c, d>> \o <<>> = <<a, b, c, d>>
<1>1. PICK S, s, t, u : /\ S = {a, b, c, d} /\ s = <<a, b, c, d>> /\ t = <<>>
                        /\ u = <<a, b, c, d>>
  OBVIOUS
<1>2. s \in Seq(S) /\ t \in Seq(S) /\ u \in Seq(S) /\ Len(s) = 4 /\ Len(t) = 0 /\ Len(u) = 4
  BY <1>1
<1>3. \A i \in 1 .. Len(s) : u[i] = s[i]
  BY <1>1, <1>2
<1>4. \A i \in 1 .. Len(t) : u[Len(s) + i] = t[i]
  BY <1>1, <1>2
<1>5. Len(u) = Len(s) + Len(t)
  BY <1>2
<1>6. s \o t = u
  BY <1>2, <1>3, <1>4, <1>5, Join, ZenonT(30)
<1>7. QED
  BY <1>1, <1>6

LEMMA Join11 ==
  ASSUME NEW a, NEW b
  PROVE  <<a>> \o <<b>> = <<a, b>>
<1>1. PICK S, s, t, u : /\ S = {a, b} /\ s = <<a>> /\ t = <<b>>
                        /\ u = <<a, b>>
  OBVIOUS
<1>2. s \in Seq(S) /\ t \in Seq(S) /\ u \in Seq(S) /\ Len(s) = 1 /\ Len(t) = 1 /\ Len(u) = 2
  BY <1>1
<1>3. \A i \in 1 .. Len(s) : u[i] = s[i]
  BY <1>1, <1>2
<1>4. \A i \in 1 .. Len(t) : u[Len(s) + i] = t[i]
  BY <1>1, <1>2
<1>5. Len(u) = Len(s) + Len(t)
  BY <1>2
<1>6. s \o t = u
  BY <1>2, <1>3, <1>4, <1>5, Join, ZenonT(30)
<1>7. QED
  BY <1>1, <1>6

LEMMA Join12 ==
  ASSUME NEW a, NEW b, NEW c
  PROVE  <<a>> \o <<b, c>> = <<a, b, c>>
<1>1. PICK S, s, t, u : /\ S = {a, b, c} /\ s = <<a>> /\ t = <<b, c>>
                        /\ u = <<a, b, c>>
  OBVIOUS
<1>2. s \in Seq(S) /\ t \in Seq(S) /\ u \in Seq(S) /\ Len(s) = 1 /\ Len(t) = 2 /\ Len(u) = 3
  BY <1>1
<1>3. \A i \in 1 .. Len(s) : u[i] = s[i]
  BY <1>1, <1>2
<1>4. \A i \in 1 .. Len(t) : u[Len(s) + i] = t[i]
  BY <1>1, <1>2
<1>5. Len(u) = Len(s) + Len(t)
  BY <1>2
<1>6. s \o t = u
  BY <1>2, <1>3, <1>4, <1>5, Join, ZenonT(30)
<1>7. QED
  BY <1>1, <1>6

LEMMA Join13 ==
  ASSUME NEW a, NEW b, NEW c, NEW d
  PROVE  <<a>> \o <<b, c, d>> = <<a, b, c, d>>
<1>1. PICK S, s, t, u : /\ S = {a, b, c, d} /\ s = <<a>> /\ t = <<b, c, d>>
                        /\ u = <<a, b, c, d>>
  OBVIOUS
<1>2. s \in Seq(S) /\ t \in Seq(S) /\ u \in Seq(S) /\ Len(s) = 1 /\ Len(t) = 3 /\ Len(u) = 4
  BY <1>1
<1>3. \A i \in 1 .. Len(s) : u[i] = s[i]
  BY <1>1, <1>2
<1>4. \A i \in 1 .. Len(t) : u[Len(s) + i] = t[i]
  BY <1>1, <1>2
<1>5. Len(u) = Len(s) + Len(t)
  BY <1>2
<1>6. s \o t = u
  BY <1>2, <1>3, <1>4, <1>5, Join, ZenonT(30)
<1>7. QED
  BY <1>1, <1>6

LEMMA Join14 ==
  ASSUME NEW a, NEW b, NEW c, NEW d, NEW e
  PROVE  <<a>> \o <<b, c, d, e>> = <<a, b, c, d, e>>
<1>1. PICK S, s, t, u : /\ S = {a, b, c, d, e} /\ s = <<a>> /\ t = <<b, c, d, e>>
                        /\ u = <<a, b, c, d, e>>
  OBVIOUS
<1>2. s \in Seq(S) /\ t \in Seq(S) /\ u \in Seq(S) /\ Len(s) = 1 /\ Len(t) = 4 /\ Len(u) = 5
  BY <1>1
<1>3. \A i \in 1 .. Len(s) : u[i] = s[i]
  BY <1>1, <1>2
<1>4. \A i \in 1 .. Len(t) : u[Len(s) + i] = t[i]
  BY <1>1, <1>2
<1>5. Len(u) = Len(s) + Len(t)
  BY <1>2
<1>6. s \o t = u
  BY <1>2, <1>3, <1>4, <1>5, Join, ZenonT(30)
<1>7. QED
  BY <1>1, <1>6

LEMMA Join15 ==
  ASSUME NEW a, NEW b, NEW c, NEW d, NEW e, NEW f
  PROVE  <<a>> \o <<b, c, d, e, f>> = <<a, b, c, d, e, f>>
<1>1. PICK S, s, t, u : /\ S = {a, b, c, d, e, f} /\ s = <<a>> /\ t = <<b, c, d, e, f>>
                        /\ u = <<a, b, c, d, e, f>>
  OBVIOUS
<1>2. s \in Seq(S) /\ t \in Seq(S) /\ u \in Seq(S) /\ Len(s) = 1 /\ Len(t) = 5 /\ Len(u) = 6
  BY <1>1
<1>3. \A i \in 1 .. Len(s) : u[i] = s[i]
  BY <1>1, <1>2
<1>4. \A i \in 1 .. Len(t) : u[Len(s) + i] = t[i]
  BY <1>1, <1>2
<1>5. Len(u) = Len(s) + Len(t)
  BY <1>2
<1>6. s \o t = u
  BY <1>2, <1>3, <1>4, <1>5, Join, ZenonT(30)
<1>7. QED
  BY <1>1, <1>6

LEMMA Join21 ==
  ASSUME NEW a, NEW b, NEW c
  PROVE  <<a, b>> \o <<c>> = <<a, b, c>>
<1>1. PICK S, s, t, u : /\ S = {a, b, c} /\ s = <<a, b>> /\ t = <<c>>
                        /\ u = <<a, b, c>>
  OBVIOUS
<1>2. s \in Seq(S) /\ t \in Seq(S) /\ u \in Seq(S) /\ Len(s) = 2 /\ Len(t) = 1 /\ Len(u) = 3
  BY <1>1
<1>3. \A i \in 1 .. Len(s) : u[i] = s[i]
  BY <1>1, <1>2
<1>4. \A i \in 1 .. Len(t) : u[Len(s) + i] = t[i]
  BY <1>1, <1>2
<1>5. Len(u) = Len(s) + Len(t)
  BY <1>2
<1>6. s \o t = u
  BY <1>2, <1>3, <1>4, <1>5, Join, ZenonT(30)
<1>7. QED
  BY <1>1, <1>6

LEMMA Join23 ==
  ASSUME NEW a, NEW b, NEW c, NEW d, NEW e
  PROVE  <<a, b>> \o <<c, d, e>> = <<a, b, c, d, e>>
<1>1. PICK S, s, t, u : /\ S = {a, b, c, d, e} /\ s = <<a, b>> /\ t = <<c, d, e>>
                        /\ u = <<a, b, c, d, e>>
  OBVIOUS
<1>2. s \in Seq(S) /\ t \in Seq(S) /\ u \in Seq(S) /\ Len(s) = 2 /\ Len(t) = 3 /\ Len(u) = 5
  BY <1>1
<1>3. \A i \in 1 .. Len(s) : u[i] = s[i]
  BY <1>1, <1>2
<1>4. \A i \in 1 .. Len(t) : u[Len(s) + i] = t[i]
  BY <1>1, <1>2
<1>5. Len(u) = Len(s) + Len(t)
  BY <1>2
<1>6. s \o t = u
  BY <1>2, <1>3, <1>4, <1>5, Join, ZenonT(30)
<1>7. QED
  BY <1>1, <1>6

LEMMA Join24 ==
  ASSUME NEW a, NEW b, NEW c, NEW d, NEW e, NEW f
  PROVE  <<a, b>> \o <<c, d, e, f>> = <<a, b, c, d, e, f>>
<1>1. PICK S, s, t, u : /\ S = {a, b, c, d, e, f} /\ s = <<a, b>> /\ t = <<c, d, e, f>>
                        /\ u = <<a, b, c, d, e, f>>
  OBVIOUS
<1>2. s \in Seq(S) /\ t \in Seq(S) /\ u \in Seq(S) /\ Len(s) = 2 /\ Len(t) = 4 /\ Len(u) = 6
  BY <1>1
<1>3. \A i \in 1 .. Len(s) : u[i] = s[i]
  BY <1>1, <1>2
<1>4. \A i \in 1 .. Len(t) : u[Len(s) + i] = t[i]
  BY <1>1, <1>2
<1>5. Len(u) = Len(s) + Len(t)
  BY <1>2
<1>6. s \o t = u
  BY <1>2, <1>3, <1>4, <1>5, Join, ZenonT(30)
<1>7. QED
  BY <1>1, <1>6

LEMMA Join31 ==
  ASSUME NEW a, NEW b, NEW c, NEW d
  PROVE  <<a, b, c>> \o <<d>> = <<a, b, c, d>>
<1>1. PICK S, s, t, u : /\ S = {a, b, c, d} /\ s = <<a, b, c>> /\ t = <<d>>
                        /\ u = <<a, b, c, d>>
  OBVIOUS
<1>2. s \in Seq(S) /\ t \in Seq(S) /\ u \in Seq(S) /\ Len(s) = 3 /\ Len(t) = 1 /\ Len(u) = 4
  BY <1>1
<1>3. \A i \in 1 .. Len(s) : u[i] = s[i]
  BY <1>1, <1>2
<1>4. \A i \in 1 .. Len(t) : u[Len(s) + i] = t[i]
  BY <1>1, <1>2
<1>5. Len(u) = Len(s) + Len(t)
  BY <1>2
<1>6. s \o t = u
  BY <1>2, <1>3, <1>4, <1>5, Join, ZenonT(30)
<1>7. QED
  BY <1>1, <1>6

LEMMA Join41 ==
  ASSUME NEW a, NEW b, NEW c, NEW d, NEW e
  PROVE  <<a, b, c, d>> \o <<e>> = <<a, b, c, d, e>>
<1>1. PICK S, s, t, u : /\ S = {a, b, c, d, e} /\ s = <<a, b, c, d>> /\ t = <<e>>
                        /\ u = <<a, b, c, d, e>>
  OBVIOUS
<1>2. s \in Seq(S) /\ t \in Seq(S) /\ u \in Seq(S) /\ Len(s) = 4 /\ Len(t) = 1 /\ Len(u) = 5
  BY <1>1
<1>3. \A i \in 1 .. Len(s) : u[i] = s[i]
  BY <1>1, <1>2
<1>4. \A i \in 1 .. Len(t) : u[Len(s) + i] = t[i]
  BY <1>1, <1>2
<1>5. Len(u) = Len(s) + Len(t)
  BY <1>2
<1>6. s \o t = u
  BY <1>2, <1>3, <1>4, <1>5, Join, ZenonT(30)
<1>7. QED
  BY <1>1, <1>6

LEMMA Join51 ==
  ASSUME NEW a, NEW b, NEW c, NEW d, NEW e, NEW f
  PROVE  <<a, b, c, d, e>> \o <<f>> = <<a, b, c, d, e, f>>
<1>1. PICK S, s, t, u : /\ S = {a, b, c, d, e, f} /\ s = <<a, b, c, d, e>> /\ t = <<f>>
                        /\ u = <<a, b, c, d, e, f>>
  OBVIOUS
<1>2. s \in Seq(S) /\ t \in Seq(S) /\ u \in Seq(S) /\ Len(s) = 5 /\ Len(t) = 1 /\ Len(u) = 6
  BY <1>1
<1>3. \A i \in 1 .. Len(s) : u[i] = s[i]
  BY <1>1, <1>2
<1>4. \A i \in 1 .. Len(t) : u[Len(s) + i] = t[i]
  BY <1>1, <1>2
<1>5. Len(u) = Len(s) + Len(t)
  BY <1>2
<1>6. s \o t = u
  BY <1>2, <1>3, <1>4, <1>5, Join, ZenonT(30)
<1>7. QED
  BY <1>1, <1>6

LEMMA Join61 ==
  ASSUME NEW a, NEW b, NEW c, NEW d, NEW e, NEW f, NEW g
  PROVE  <<a, b, c, d, e, f>> \o <<g>> = <<a, b, c, d, e, f, g>>
<1>1. PICK S, s, t, u : /\ S = {a, b, c, d, e, f, g} /\ s = <<a, b, c, d, e, f>> /\ t = <<g>>
                        /\ u = <<a, b, c, d, e, f, g>>
  OBVIOUS
<1>2. s \in Seq(S) /\ t \in Seq(S) /\ u \in Seq(S) /\ Len(s) = 6 /\ Len(t) = 1 /\ Len(u) = 7
  BY <1>1
<1>3. \A i \in 1 .. Len(s) : u[i] = s[i]
  BY <1>1, <1>2
<1>4. \A i \in 1 .. Len(t) : u[Len(s) + i] = t[i]
  BY <1>1, <1>2
<1>5. Len(u) = Len(s) + Len(t)
  BY <1>2
<1>6. s \o t = u
  BY <1>2, <1>3, <1>4, <1>5, Join, ZenonT(30)
<1>7. QED
  BY <1>1, <1>6

-----------------------------------------------------------------------------
(* The steps of each function, spelled out.                                *)
LEMMA Lists ==
  ASSUME NEW p, NEW c
  PROVE
    /\ c.fn \in {"allgather_low", "broadcast_low", "reduce_low", "allreduce_inplace_low"} =>
         Steps(p, c) = <<"fence", "contiguous", "collective", "leave", "consume">>
    /\ c.fn = "allreduce_low" =>
         Steps(p, c) = <<"fence", "contiguous", "equal", "collective", "leave", "consume">>
    /\ c.fn \in {"inclusive_scan_low", "exclusive_scan_low"} =>
         Steps(p, c) = <<"fence", "contiguous", "equal", "collective", "leave", "consume">>
    /\ c.fn = "allgather_inplace" =>
         Steps(p, c) = <<"contiguous", "fence", "collective", "leave", "consume">>
    /\ c.fn \in {"allgather", "allreduce_inplace"} =>
         Steps(p, c) = <<"contiguous", "fence", "contiguous", "collective", "leave", "consume">>
    /\ c.fn \in {"allreduce", "inclusive_scan", "exclusive_scan"} =>
         Steps(p, c) = <<"contiguous", "fence", "contiguous", "equal", "collective", "leave",
           "consume">>
    /\ c.fn \in {"alltoall", "alltoall_inplace"} =>
         Steps(p, c) = <<"fence", "contiguous", "fit", "collective", "leave", "consume">>
    /\ c.fn = "broadcast" =>
         Steps(p, c) = <<"fence", "contiguous", "collective", "leave", "consume">>
    /\ c.fn = "barrier" =>
         Steps(p, c) = <<"collective", "leave", "consume">>
    /\ c.fn = "recv_low" =>
         Steps(p, c) = <<"fence", "contiguous", "message", "finish", "consume">>
    /\ c.fn \in {"isend_low", "irecv_low"} =>
         Steps(p, c) = <<"fence", "contiguous", "message", "consume">>
    /\ c.fn = "irecv" =>
         Steps(p, c) = <<"fence", "message", "consume">>
    /\ c.fn = "send" =>
         Steps(p, c) = IF Packs(c) THEN <<"pack", "fence", "message", "finish", "consume">>
           ELSE <<"fence", "message", "finish", "consume">>
    /\ c.fn = "isend" =>
         Steps(p, c) = IF Packs(c) THEN <<"pack", "fence", "message", "consume">>
           ELSE <<"fence", "message", "consume">>
    /\ c.fn = "recv" =>
         Steps(p, c) = IF Unpacks(p, c) THEN <<"fence", "message", "finish", "unpack", "consume">>
           ELSE <<"fence", "message", "finish", "consume">>
    /\ c.fn = "wait" =>
         Steps(p, c) = IF Unpacks(p, program[p][c.of]) THEN <<"finish", "unpack", "fence",
           "consume">>
           ELSE <<"finish", "consume">>
    /\ c.fn = "reduce" =>
         /\ Packs(c) /\ Unpacks(p, c) =>
              Steps(p, c) = <<"pack", "fence", "collective", "leave", "unpack", "consume">>
         /\ Packs(c) /\ ~ Unpacks(p, c) =>
              Steps(p, c) = <<"pack", "fence", "collective", "leave", "consume">>
         /\ ~ Packs(c) /\ Unpacks(p, c) =>
              Steps(p, c) = <<"fence", "collective", "leave", "unpack", "consume">>
         /\ ~ Packs(c) /\ ~ Unpacks(p, c) =>
              Steps(p, c) = <<"fence", "collective", "leave", "consume">>
<1>1. ASSUME c.fn \in {"allgather_low", "broadcast_low", "reduce_low", "allreduce_inplace_low"}
      PROVE  Steps(p, c) = <<"fence", "contiguous", "collective", "leave", "consume">>
  <2>1. Function(p, c) = allgather_low \/ Function(p, c) = broadcast_low
          \/ Function(p, c) = reduce_low \/ Function(p, c) = allreduce_inplace_low
    BY <1>1 DEF Function
  <2>2. Function(p, c) = <<"contiguous", "collective", "leave">>
    BY <2>1, Zenon DEF allgather_low, broadcast_low, reduce_low, allreduce_inplace_low
  <2>3. Function(p, c) \o <<"consume">> = <<"contiguous", "collective", "leave", "consume">>
    BY <2>2, Join31
  <2>4. <<"fence">> \o <<"contiguous", "collective", "leave", "consume">>
         = <<"fence", "contiguous", "collective", "leave", "consume">>
    BY Join14
  <2>5. QED
    BY <1>1, <2>3, <2>4 DEF Steps, Low
<1>2. ASSUME c.fn = "allreduce_low"
      PROVE  Steps(p, c) = <<"fence", "contiguous", "equal", "collective", "leave", "consume">>
  <2>1. Function(p, c) = allreduce_low
    BY <1>2 DEF Function
  <2>2. Function(p, c) = <<"contiguous", "equal", "collective", "leave">>
    BY <2>1 DEF allreduce_low
  <2>3. Function(p, c) \o <<"consume">> = <<"contiguous", "equal", "collective", "leave",
          "consume">>
    BY <2>2, Join41
  <2>4. <<"fence">> \o <<"contiguous", "equal", "collective", "leave", "consume">>
         = <<"fence", "contiguous", "equal", "collective", "leave", "consume">>
    BY Join15
  <2>5. QED
    BY <1>2, <2>3, <2>4 DEF Steps, Low
<1>3. ASSUME c.fn \in {"inclusive_scan_low", "exclusive_scan_low"}
      PROVE  Steps(p, c) = <<"fence", "contiguous", "equal", "collective", "leave", "consume">>
  <2>1. Function(p, c) = inclusive_scan_low \/ Function(p, c) = exclusive_scan_low
    BY <1>3 DEF Function
  <2>2. Function(p, c) = <<"contiguous", "equal", "collective", "leave">>
    BY <2>1 DEF inclusive_scan_low, exclusive_scan_low
  <2>3. Function(p, c) \o <<"consume">> = <<"contiguous", "equal", "collective", "leave",
          "consume">>
    BY <2>2, Join41
  <2>4. <<"fence">> \o <<"contiguous", "equal", "collective", "leave", "consume">>
         = <<"fence", "contiguous", "equal", "collective", "leave", "consume">>
    BY Join15
  <2>5. QED
    BY <1>3, <2>3, <2>4 DEF Steps, Low
<1>4. ASSUME c.fn = "allgather_inplace"
      PROVE  Steps(p, c) = <<"contiguous", "fence", "collective", "leave", "consume">>
  <2>1. Function(p, c) = allgather_inplace
    BY <1>4 DEF Function
  <2>2. Function(p, c) = <<"contiguous", "fence", "collective", "leave">>
    BY <2>1 DEF allgather_inplace
  <2>3. Function(p, c) \o <<"consume">> = <<"contiguous", "fence", "collective", "leave",
          "consume">>
    BY <2>2, Join41
  <2>4. QED
    BY <1>4, <2>3 DEF Steps, Low
<1>5. ASSUME c.fn \in {"allgather", "allreduce_inplace"}
      PROVE  Steps(p, c) = <<"contiguous", "fence", "contiguous", "collective", "leave",
             "consume">>
  <2>1. Function(p, c) = allgather \/ Function(p, c) = allreduce_inplace
    BY <1>5 DEF Function
  <2>2. Function(p, c) = <<"contiguous", "fence", "contiguous", "collective", "leave">>
    BY <2>1, Join23 DEF allgather, allreduce_inplace, allgather_low, allreduce_inplace_low
  <2>3. Function(p, c) \o <<"consume">> = <<"contiguous", "fence", "contiguous", "collective",
          "leave", "consume">>
    BY <2>2, Join51
  <2>4. QED
    BY <1>5, <2>3 DEF Steps, Low
<1>6. ASSUME c.fn \in {"allreduce", "inclusive_scan", "exclusive_scan"}
      PROVE  Steps(p, c) = <<"contiguous", "fence", "contiguous", "equal", "collective", "leave",
             "consume">>
  <2>1. Function(p, c) = allreduce \/ Function(p, c) = inclusive_scan
          \/ Function(p, c) = exclusive_scan
    BY <1>6 DEF Function
  <2>2. Function(p, c) = <<"contiguous", "fence", "contiguous", "equal", "collective", "leave">>
    BY <2>1, Join24 DEF allreduce, inclusive_scan, exclusive_scan, allreduce_low,
       inclusive_scan_low, exclusive_scan_low
  <2>3. Function(p, c) \o <<"consume">> = <<"contiguous", "fence", "contiguous", "equal",
          "collective", "leave", "consume">>
    BY <2>2, Join61
  <2>4. QED
    BY <1>6, <2>3 DEF Steps, Low
<1>7. ASSUME c.fn \in {"alltoall", "alltoall_inplace"}
      PROVE  Steps(p, c) = <<"fence", "contiguous", "fit", "collective", "leave", "consume">>
  <2>1. Function(p, c) = alltoall \/ Function(p, c) = alltoall_inplace
    BY <1>7 DEF Function
  <2>2. Function(p, c) = <<"fence", "contiguous", "fit", "collective", "leave">>
    BY <2>1 DEF alltoall, alltoall_inplace
  <2>3. Function(p, c) \o <<"consume">> = <<"fence", "contiguous", "fit", "collective", "leave",
          "consume">>
    BY <2>2, Join51
  <2>4. QED
    BY <1>7, <2>3 DEF Steps, Low
<1>8. ASSUME c.fn = "broadcast"
      PROVE  Steps(p, c) = <<"fence", "contiguous", "collective", "leave", "consume">>
  <2>1. Function(p, c) = broadcast
    BY <1>8 DEF Function
  <2>2. Function(p, c) = <<"fence", "contiguous", "collective", "leave">>
    BY <2>1, Join13 DEF broadcast, broadcast_low
  <2>3. Function(p, c) \o <<"consume">> = <<"fence", "contiguous", "collective", "leave",
          "consume">>
    BY <2>2, Join41
  <2>4. QED
    BY <1>8, <2>3 DEF Steps, Low
<1>9. ASSUME c.fn = "barrier"
      PROVE  Steps(p, c) = <<"collective", "leave", "consume">>
  <2>1. Function(p, c) = barrier
    BY <1>9 DEF Function
  <2>2. Function(p, c) = <<"collective", "leave">>
    BY <2>1 DEF barrier
  <2>3. Function(p, c) \o <<"consume">> = <<"collective", "leave", "consume">>
    BY <2>2, Join21
  <2>4. QED
    BY <1>9, <2>3 DEF Steps, Low
<1>10. ASSUME c.fn = "recv_low"
      PROVE  Steps(p, c) = <<"fence", "contiguous", "message", "finish", "consume">>
  <2>1. Function(p, c) = recv_low
    BY <1>10 DEF Function
  <2>2. Function(p, c) = <<"contiguous", "message", "finish">>
    BY <2>1 DEF recv_low
  <2>3. Function(p, c) \o <<"consume">> = <<"contiguous", "message", "finish", "consume">>
    BY <2>2, Join31
  <2>4. <<"fence">> \o <<"contiguous", "message", "finish", "consume">>
         = <<"fence", "contiguous", "message", "finish", "consume">>
    BY Join14
  <2>5. QED
    BY <1>10, <2>3, <2>4 DEF Steps, Low
<1>11. ASSUME c.fn \in {"isend_low", "irecv_low"}
      PROVE  Steps(p, c) = <<"fence", "contiguous", "message", "consume">>
  <2>1. Function(p, c) = isend_low \/ Function(p, c) = irecv_low
    BY <1>11 DEF Function
  <2>2. Function(p, c) = <<"contiguous", "message">>
    BY <2>1 DEF isend_low, irecv_low
  <2>3. Function(p, c) \o <<"consume">> = <<"contiguous", "message", "consume">>
    BY <2>2, Join21
  <2>4. <<"fence">> \o <<"contiguous", "message", "consume">>
         = <<"fence", "contiguous", "message", "consume">>
    BY Join13
  <2>5. QED
    BY <1>11, <2>3, <2>4 DEF Steps, Low
<1>12. ASSUME c.fn = "irecv"
      PROVE  Steps(p, c) = <<"fence", "message", "consume">>
  <2>1. Function(p, c) = irecv
    BY <1>12 DEF Function
  <2>2. Function(p, c) = <<"fence", "message">>
    BY <2>1 DEF irecv
  <2>3. Function(p, c) \o <<"consume">> = <<"fence", "message", "consume">>
    BY <2>2, Join21
  <2>4. QED
    BY <1>12, <2>3 DEF Steps, Low
<1>13. ASSUME c.fn = "send"
      PROVE  Steps(p, c) = IF Packs(c) THEN <<"pack", "fence", "message", "finish", "consume">>
                        ELSE <<"fence", "message", "finish", "consume">>
  <2>1. Function(p, c) = send(c)
    BY <1>13 DEF Function
  <2>2. Function(p, c) = IF Packs(c) THEN <<"pack", "fence", "message",
          "finish">> ELSE <<"fence", "message", "finish">>
    BY <2>1, Join13, Join03 DEF send
  <2>3. Steps(p, c) = Function(p, c) \o <<"consume">>
    BY <1>13 DEF Steps, Low
  <2>4. CASE Packs(c)
    BY <2>2, <2>3, <2>4, Join41
  <2>5. CASE ~ Packs(c)
    BY <2>2, <2>3, <2>5, Join31
  <2>6. QED
    BY <2>4, <2>5
<1>14. ASSUME c.fn = "isend"
      PROVE  Steps(p, c) = IF Packs(c) THEN <<"pack", "fence", "message", "consume">>
                        ELSE <<"fence", "message", "consume">>
  <2>1. Function(p, c) = isend(c)
    BY <1>14 DEF Function
  <2>2. Function(p, c) = IF Packs(c) THEN <<"pack", "fence", "message">> ELSE <<"fence",
          "message">>
    BY <2>1, Join12, Join02 DEF isend
  <2>3. Steps(p, c) = Function(p, c) \o <<"consume">>
    BY <1>14 DEF Steps, Low
  <2>4. CASE Packs(c)
    BY <2>2, <2>3, <2>4, Join31
  <2>5. CASE ~ Packs(c)
    BY <2>2, <2>3, <2>5, Join21
  <2>6. QED
    BY <2>4, <2>5
<1>15. ASSUME c.fn = "recv"
      PROVE  Steps(p, c) = IF Unpacks(p, c) THEN <<"fence", "message", "finish", "unpack",
             "consume">>
                        ELSE <<"fence", "message", "finish", "consume">>
  <2>1. Function(p, c) = recv(p, c)
    BY <1>15 DEF Function
  <2>2. Function(p, c) = IF Unpacks(p, c) THEN <<"fence", "message", "finish",
          "unpack">> ELSE <<"fence", "message", "finish">>
    BY <2>1, Join31, Join30 DEF recv
  <2>3. Steps(p, c) = Function(p, c) \o <<"consume">>
    BY <1>15 DEF Steps, Low
  <2>4. CASE Unpacks(p, c)
    BY <2>2, <2>3, <2>4, Join41
  <2>5. CASE ~ Unpacks(p, c)
    BY <2>2, <2>3, <2>5, Join31
  <2>6. QED
    BY <2>4, <2>5
<1>16. ASSUME c.fn = "wait"
      PROVE  Steps(p, c) = IF Unpacks(p, program[p][c.of]) THEN <<"finish", "unpack", "fence",
             "consume">>
                        ELSE <<"finish", "consume">>
  <2>1. Function(p, c) = wait(p, c)
    BY <1>16 DEF Function
  <2>2. Function(p, c) = IF Unpacks(p, program[p][c.of]) THEN <<"finish", "unpack",
          "fence">> ELSE <<"finish">>
    BY <2>1, Join12, Join10 DEF wait
  <2>3. Steps(p, c) = Function(p, c) \o <<"consume">>
    BY <1>16 DEF Steps, Low
  <2>4. CASE Unpacks(p, program[p][c.of])
    BY <2>2, <2>3, <2>4, Join31
  <2>5. CASE ~ Unpacks(p, program[p][c.of])
    BY <2>2, <2>3, <2>5, Join11
  <2>6. QED
    BY <2>4, <2>5
<1>17. ASSUME c.fn = "reduce"
      PROVE  /\ Packs(c) /\ Unpacks(p, c) =>
                  Steps(p, c) = <<"pack", "fence", "collective", "leave", "unpack", "consume">>
             /\ Packs(c) /\ ~ Unpacks(p, c) =>
                  Steps(p, c) = <<"pack", "fence", "collective", "leave", "consume">>
             /\ ~ Packs(c) /\ Unpacks(p, c) =>
                  Steps(p, c) = <<"fence", "collective", "leave", "unpack", "consume">>
             /\ ~ Packs(c) /\ ~ Unpacks(p, c) =>
                  Steps(p, c) = <<"fence", "collective", "leave", "consume">>
  <2> DEFINE front == (IF Packs(c) THEN <<"pack">> ELSE <<>>) \o <<"fence", "collective",
    "leave">>
  <2>1. Function(p, c) = front \o (IF Unpacks(p, c) THEN <<"unpack">> ELSE <<>>)
    BY <1>17 DEF Function, reduce
  <2>2. front = IF Packs(c) THEN <<"pack", "fence", "collective", "leave">> ELSE <<"fence",
          "collective", "leave">>
    BY Join13, Join03
  <2> HIDE DEF front
  <2>3. Steps(p, c) = Function(p, c) \o <<"consume">>
    BY <1>17 DEF Steps, Low
  <2>4. ASSUME Packs(c) /\ Unpacks(p, c)
        PROVE  Steps(p, c) = <<"pack", "fence", "collective", "leave", "unpack", "consume">>
    <3>1. Function(p, c) = <<"pack", "fence", "collective", "leave", "unpack">>
      BY <2>1, <2>2, <2>4, Join41
    <3>2. QED
      BY <2>3, <3>1, Join51
  <2>5. ASSUME Packs(c) /\ ~ Unpacks(p, c)
        PROVE  Steps(p, c) = <<"pack", "fence", "collective", "leave", "consume">>
    <3>1. Function(p, c) = <<"pack", "fence", "collective", "leave">>
      BY <2>1, <2>2, <2>5, Join40
    <3>2. QED
      BY <2>3, <3>1, Join41
  <2>6. ASSUME ~ Packs(c) /\ Unpacks(p, c)
        PROVE  Steps(p, c) = <<"fence", "collective", "leave", "unpack", "consume">>
    <3>1. Function(p, c) = <<"fence", "collective", "leave", "unpack">>
      BY <2>1, <2>2, <2>6, Join31
    <3>2. QED
      BY <2>3, <3>1, Join41
  <2>7. ASSUME ~ Packs(c) /\ ~ Unpacks(p, c)
        PROVE  Steps(p, c) = <<"fence", "collective", "leave", "consume">>
    <3>1. Function(p, c) = <<"fence", "collective", "leave">>
      BY <2>1, <2>2, <2>7, Join30
    <3>2. QED
      BY <2>3, <3>1, Join31
  <2>8. QED
    BY <2>4, <2>5, <2>6, <2>7
<1>18. QED
  BY <1>1, <1>2, <1>3, <1>4, <1>5, <1>6, <1>7, <1>8, <1>9, <1>10, <1>11, <1>12, <1>13, <1>14,
     <1>15, <1>16, <1>17

-----------------------------------------------------------------------------
(* The steps of a call are in order, and stay so while they are done.      *)
LEMMA StepsOrdered ==
  ASSUME NEW p, NEW c \in CallRecords, NEW t, t = Steps(p, c)
  PROVE  /\ Ordered(c, t) /\ t # <<>> /\ t[1] # "leave"
         /\ c.fn \notin Unfenced => \E l \in DOMAIN t : t[l] = "fence"
         /\ c.fn = "wait" => t[1] = "finish"
<1> USE DEF Labels, Enqueued, InMpi, Unfenced, Messages, Promise!Senders, Promise!Receivers,
            Promise!Posts, Promise!PointToPoint
<1>1. CASE c.fn \in {"allgather_low", "broadcast_low", "reduce_low", "allreduce_inplace_low",
             "broadcast"}
  <2>1. t = <<"fence", "contiguous", "collective", "leave", "consume">>
    BY <1>1, Lists
  <2>2. /\ t \in Seq(Labels) /\ t # <<>> /\ Len(t) = 5 /\ DOMAIN t = {1, 2, 3, 4, 5}
        /\ t[1] = "fence" /\ t[2] = "contiguous" /\ t[3] = "collective" /\ t[4] = "leave"
           /\ t[5] = "consume"
    BY <2>1
  <2>3. QED
    BY <1>1, <2>2 DEF Ordered
<1>2. CASE c.fn \in {"allreduce_low", "inclusive_scan_low", "exclusive_scan_low"}
  <2>1. t = <<"fence", "contiguous", "equal", "collective", "leave", "consume">>
    BY <1>2, Lists
  <2>2. /\ t \in Seq(Labels) /\ t # <<>> /\ Len(t) = 6 /\ DOMAIN t = {1, 2, 3, 4, 5, 6}
        /\ t[1] = "fence" /\ t[2] = "contiguous" /\ t[3] = "equal" /\ t[4] = "collective"
           /\ t[5] = "leave" /\ t[6] = "consume"
    BY <2>1
  <2>3. QED
    BY <1>2, <2>2 DEF Ordered
<1>3. CASE c.fn = "allgather_inplace"
  <2>1. t = <<"contiguous", "fence", "collective", "leave", "consume">>
    BY <1>3, Lists
  <2>2. /\ t \in Seq(Labels) /\ t # <<>> /\ Len(t) = 5 /\ DOMAIN t = {1, 2, 3, 4, 5}
        /\ t[1] = "contiguous" /\ t[2] = "fence" /\ t[3] = "collective" /\ t[4] = "leave"
           /\ t[5] = "consume"
    BY <2>1
  <2>3. QED
    BY <1>3, <2>2 DEF Ordered
<1>4. CASE c.fn \in {"allgather", "allreduce_inplace"}
  <2>1. t = <<"contiguous", "fence", "contiguous", "collective", "leave", "consume">>
    BY <1>4, Lists
  <2>2. /\ t \in Seq(Labels) /\ t # <<>> /\ Len(t) = 6 /\ DOMAIN t = {1, 2, 3, 4, 5, 6}
        /\ t[1] = "contiguous" /\ t[2] = "fence" /\ t[3] = "contiguous" /\ t[4] = "collective"
           /\ t[5] = "leave" /\ t[6] = "consume"
    BY <2>1
  <2>3. QED
    BY <1>4, <2>2 DEF Ordered
<1>5. CASE c.fn \in {"allreduce", "inclusive_scan", "exclusive_scan"}
  <2>1. t = <<"contiguous", "fence", "contiguous", "equal", "collective", "leave", "consume">>
    BY <1>5, Lists
  <2>2. /\ t \in Seq(Labels) /\ t # <<>> /\ Len(t) = 7 /\ DOMAIN t = {1, 2, 3, 4, 5, 6, 7}
        /\ t[1] = "contiguous" /\ t[2] = "fence" /\ t[3] = "contiguous" /\ t[4] = "equal"
           /\ t[5] = "collective" /\ t[6] = "leave" /\ t[7] = "consume"
    BY <2>1
  <2>3. QED
    BY <1>5, <2>2 DEF Ordered
<1>6. CASE c.fn \in {"alltoall", "alltoall_inplace"}
  <2>1. t = <<"fence", "contiguous", "fit", "collective", "leave", "consume">>
    BY <1>6, Lists
  <2>2. /\ t \in Seq(Labels) /\ t # <<>> /\ Len(t) = 6 /\ DOMAIN t = {1, 2, 3, 4, 5, 6}
        /\ t[1] = "fence" /\ t[2] = "contiguous" /\ t[3] = "fit" /\ t[4] = "collective"
           /\ t[5] = "leave" /\ t[6] = "consume"
    BY <2>1
  <2>3. QED
    BY <1>6, <2>2 DEF Ordered
<1>7. CASE c.fn = "barrier"
  <2>1. t = <<"collective", "leave", "consume">>
    BY <1>7, Lists
  <2>2. /\ t \in Seq(Labels) /\ t # <<>> /\ Len(t) = 3 /\ DOMAIN t = {1, 2, 3}
        /\ t[1] = "collective" /\ t[2] = "leave" /\ t[3] = "consume"
    BY <2>1
  <2>3. QED
    BY <1>7, <2>2 DEF Ordered
<1>8. CASE c.fn = "recv_low"
  <2>1. t = <<"fence", "contiguous", "message", "finish", "consume">>
    BY <1>8, Lists
  <2>2. /\ t \in Seq(Labels) /\ t # <<>> /\ Len(t) = 5 /\ DOMAIN t = {1, 2, 3, 4, 5}
        /\ t[1] = "fence" /\ t[2] = "contiguous" /\ t[3] = "message" /\ t[4] = "finish"
           /\ t[5] = "consume"
    BY <2>1
  <2>3. QED
    BY <1>8, <2>2 DEF Ordered
<1>9. CASE c.fn \in {"isend_low", "irecv_low"}
  <2>1. t = <<"fence", "contiguous", "message", "consume">>
    BY <1>9, Lists
  <2>2. /\ t \in Seq(Labels) /\ t # <<>> /\ Len(t) = 4 /\ DOMAIN t = {1, 2, 3, 4}
        /\ t[1] = "fence" /\ t[2] = "contiguous" /\ t[3] = "message" /\ t[4] = "consume"
    BY <2>1
  <2>3. QED
    BY <1>9, <2>2 DEF Ordered
<1>10. CASE c.fn = "irecv"
  <2>1. t = <<"fence", "message", "consume">>
    BY <1>10, Lists
  <2>2. /\ t \in Seq(Labels) /\ t # <<>> /\ Len(t) = 3 /\ DOMAIN t = {1, 2, 3}
        /\ t[1] = "fence" /\ t[2] = "message" /\ t[3] = "consume"
    BY <2>1
  <2>3. QED
    BY <1>10, <2>2 DEF Ordered
<1>11. CASE c.fn = "send" /\ Packs(c)
  <2>1. t = <<"pack", "fence", "message", "finish", "consume">>
    BY <1>11, Lists
  <2>2. /\ t \in Seq(Labels) /\ t # <<>> /\ Len(t) = 5 /\ DOMAIN t = {1, 2, 3, 4, 5}
        /\ t[1] = "pack" /\ t[2] = "fence" /\ t[3] = "message" /\ t[4] = "finish"
           /\ t[5] = "consume"
    BY <2>1
  <2>3. QED
    BY <1>11, <2>2 DEF Ordered
<1>12. CASE c.fn = "send" /\ ~ Packs(c)
  <2>1. t = <<"fence", "message", "finish", "consume">>
    BY <1>12, Lists
  <2>2. /\ t \in Seq(Labels) /\ t # <<>> /\ Len(t) = 4 /\ DOMAIN t = {1, 2, 3, 4}
        /\ t[1] = "fence" /\ t[2] = "message" /\ t[3] = "finish" /\ t[4] = "consume"
    BY <2>1
  <2>3. QED
    BY <1>12, <2>2 DEF Ordered
<1>13. CASE c.fn = "isend" /\ Packs(c)
  <2>1. t = <<"pack", "fence", "message", "consume">>
    BY <1>13, Lists
  <2>2. /\ t \in Seq(Labels) /\ t # <<>> /\ Len(t) = 4 /\ DOMAIN t = {1, 2, 3, 4}
        /\ t[1] = "pack" /\ t[2] = "fence" /\ t[3] = "message" /\ t[4] = "consume"
    BY <2>1
  <2>3. QED
    BY <1>13, <2>2 DEF Ordered
<1>14. CASE c.fn = "isend" /\ ~ Packs(c)
  <2>1. t = <<"fence", "message", "consume">>
    BY <1>14, Lists
  <2>2. /\ t \in Seq(Labels) /\ t # <<>> /\ Len(t) = 3 /\ DOMAIN t = {1, 2, 3}
        /\ t[1] = "fence" /\ t[2] = "message" /\ t[3] = "consume"
    BY <2>1
  <2>3. QED
    BY <1>14, <2>2 DEF Ordered
<1>15. CASE c.fn = "recv" /\ Unpacks(p, c)
  <2>1. t = <<"fence", "message", "finish", "unpack", "consume">>
    BY <1>15, Lists
  <2>2. /\ t \in Seq(Labels) /\ t # <<>> /\ Len(t) = 5 /\ DOMAIN t = {1, 2, 3, 4, 5}
        /\ t[1] = "fence" /\ t[2] = "message" /\ t[3] = "finish" /\ t[4] = "unpack"
           /\ t[5] = "consume"
    BY <2>1
  <2>3. QED
    BY <1>15, <2>2 DEF Ordered
<1>16. CASE c.fn = "recv" /\ ~ Unpacks(p, c)
  <2>1. t = <<"fence", "message", "finish", "consume">>
    BY <1>16, Lists
  <2>2. /\ t \in Seq(Labels) /\ t # <<>> /\ Len(t) = 4 /\ DOMAIN t = {1, 2, 3, 4}
        /\ t[1] = "fence" /\ t[2] = "message" /\ t[3] = "finish" /\ t[4] = "consume"
    BY <2>1
  <2>3. QED
    BY <1>16, <2>2 DEF Ordered
<1>17. CASE c.fn = "wait" /\ Unpacks(p, program[p][c.of])
  <2>1. t = <<"finish", "unpack", "fence", "consume">>
    BY <1>17, Lists
  <2>2. /\ t \in Seq(Labels) /\ t # <<>> /\ Len(t) = 4 /\ DOMAIN t = {1, 2, 3, 4}
        /\ t[1] = "finish" /\ t[2] = "unpack" /\ t[3] = "fence" /\ t[4] = "consume"
    BY <2>1
  <2>3. QED
    BY <1>17, <2>2 DEF Ordered
<1>18. CASE c.fn = "wait" /\ ~ Unpacks(p, program[p][c.of])
  <2>1. t = <<"finish", "consume">>
    BY <1>18, Lists
  <2>2. /\ t \in Seq(Labels) /\ t # <<>> /\ Len(t) = 2 /\ DOMAIN t = {1, 2}
        /\ t[1] = "finish" /\ t[2] = "consume"
    BY <2>1
  <2>3. QED
    BY <1>18, <2>2 DEF Ordered
<1>19. CASE c.fn = "reduce" /\ Packs(c) /\ Unpacks(p, c)
  <2>1. t = <<"pack", "fence", "collective", "leave", "unpack", "consume">>
    BY <1>19, Lists
  <2>2. /\ t \in Seq(Labels) /\ t # <<>> /\ Len(t) = 6 /\ DOMAIN t = {1, 2, 3, 4, 5, 6}
        /\ t[1] = "pack" /\ t[2] = "fence" /\ t[3] = "collective" /\ t[4] = "leave"
           /\ t[5] = "unpack" /\ t[6] = "consume"
    BY <2>1
  <2>3. QED
    BY <1>19, <2>2 DEF Ordered
<1>20. CASE c.fn = "reduce" /\ Packs(c) /\ ~ Unpacks(p, c)
  <2>1. t = <<"pack", "fence", "collective", "leave", "consume">>
    BY <1>20, Lists
  <2>2. /\ t \in Seq(Labels) /\ t # <<>> /\ Len(t) = 5 /\ DOMAIN t = {1, 2, 3, 4, 5}
        /\ t[1] = "pack" /\ t[2] = "fence" /\ t[3] = "collective" /\ t[4] = "leave"
           /\ t[5] = "consume"
    BY <2>1
  <2>3. QED
    BY <1>20, <2>2 DEF Ordered
<1>21. CASE c.fn = "reduce" /\ ~ Packs(c) /\ Unpacks(p, c)
  <2>1. t = <<"fence", "collective", "leave", "unpack", "consume">>
    BY <1>21, Lists
  <2>2. /\ t \in Seq(Labels) /\ t # <<>> /\ Len(t) = 5 /\ DOMAIN t = {1, 2, 3, 4, 5}
        /\ t[1] = "fence" /\ t[2] = "collective" /\ t[3] = "leave" /\ t[4] = "unpack"
           /\ t[5] = "consume"
    BY <2>1
  <2>3. QED
    BY <1>21, <2>2 DEF Ordered
<1>22. CASE c.fn = "reduce" /\ ~ Packs(c) /\ ~ Unpacks(p, c)
  <2>1. t = <<"fence", "collective", "leave", "consume">>
    BY <1>22, Lists
  <2>2. /\ t \in Seq(Labels) /\ t # <<>> /\ Len(t) = 4 /\ DOMAIN t = {1, 2, 3, 4}
        /\ t[1] = "fence" /\ t[2] = "collective" /\ t[3] = "leave" /\ t[4] = "consume"
    BY <2>1
  <2>3. QED
    BY <1>22, <2>2 DEF Ordered
<1>23. QED
  BY <1>1, <1>2, <1>3, <1>4, <1>5, <1>6, <1>7, <1>8, <1>9, <1>10, <1>11, <1>12, <1>13, <1>14,
     <1>15, <1>16, <1>17, <1>18, <1>19, <1>20, <1>21, <1>22
  DEF CallRecords, Promise!Gathers, Promise!Broadcasts, Promise!Reductions, Promise!Scans,
      Promise!InclusiveScans, Promise!ExclusiveScans

LEMMA TailOrdered ==
  ASSUME NEW c, NEW t, Ordered(c, t), t # <<>>
  PROVE  /\ Ordered(c, Tail(t)) /\ Len(t) \in Nat /\ Len(t) > 0 /\ Head(t) = t[1]
         /\ Len(Tail(t)) = Len(t) - 1 /\ \A m \in 1 .. Len(t) - 1 : Tail(t)[m] = t[m + 1]
<1>1. PICK n \in Nat : n = Len(t) - 1 /\ n + 1 = Len(t) /\ DOMAIN t = 1 .. n + 1
  BY DEF Ordered
<1>2. /\ Tail(t) \in Seq(Labels) /\ Len(Tail(t)) = n /\ DOMAIN Tail(t) = 1 .. n
      /\ \A m \in 1 .. n : Tail(t)[m] = t[m + 1]
  BY <1>1 DEF Ordered
<1>3. PICK u : u = Tail(t)
  OBVIOUS
<1>4. ASSUME NEW m \in 1 .. n
      PROVE  /\ m + 1 \in DOMAIN t /\ u[m] = t[m + 1] /\ m + 1 # 1 /\ (m + 1) - 1 = m
             /\ m < n => m + 1 < n + 1 /\ u[m + 1] = t[(m + 1) + 1]
             /\ m # 1 => u[m - 1] = t[m]
  <2>1. m < n => m + 1 \in 1 .. n
    OBVIOUS
  <2>2. m # 1 => m - 1 \in 1 .. n /\ (m - 1) + 1 = m
    OBVIOUS
  <2>3. QED
    BY <1>1, <1>2, <1>3, <2>1, <2>2
<1>5. ASSUME NEW m \in 1 .. n
      PROVE  /\ u[m] \in {"collective", "leave"} => c.fn \notin Promise!PointToPoint
             /\ u[m] = "message" => c.fn \in Messages
             /\ u[m] = "finish" => c.fn \in Promise!PointToPoint \ Promise!Posts /\ c.fn # "wait"
             /\ u[m] = "pack" => c.fn \notin Unfenced
             /\ u[m] = "unpack" => c.fn \in {"recv", "reduce", "wait"}
             /\ u[m] = "leave" => m = 1 \/ u[m - 1] = "collective"
             /\ u[m] = "finish" => m = 1 \/ u[m - 1] = "message"
  <2>1. PICK k \in DOMAIN t : k = m + 1
    BY <1>4
  <2>2. u[m] = t[k] /\ k # 1 /\ k - 1 = m /\ (m # 1 => u[m - 1] = t[k - 1])
    BY <1>4, <2>1
  <2>3. /\ t[k] \in {"collective", "leave"} => c.fn \notin Promise!PointToPoint
        /\ t[k] = "leave" => k = 1 \/ t[k - 1] = "collective"
        /\ t[k] = "message" => c.fn \in Messages
        /\ t[k] = "finish" => /\ c.fn \in Promise!PointToPoint \ Promise!Posts
                              /\ k = 1 \/ (c.fn # "wait" /\ t[k - 1] = "message")
        /\ t[k] = "pack" => c.fn \notin Unfenced
        /\ t[k] = "unpack" => c.fn \in {"recv", "reduce", "wait"}
    BY DEF Ordered
  <2>4. QED
    BY <2>2, <2>3
<1>6. ASSUME NEW m \in 1 .. n
      PROVE  /\ u[m] = "message" => c.fn \in Promise!Posts \/ (m < n /\ u[m + 1] = "finish")
             /\ u[m] \in Enqueued /\ m < n => u[m + 1] \in Enqueued \union {"fence"}
  <2>1. u[m] = t[m + 1] /\ m + 1 \in DOMAIN t /\ (m < n <=> m + 1 < Len(t))
    BY <1>1, <1>4
  <2>2. QED
    BY <1>4, <2>1 DEF Ordered
<1>7. ASSUME NEW m \in 1 .. n, NEW l \in 1 .. n
      PROVE  /\ u[m] = "message" /\ u[l] = "message" => l = m
             /\ u[m] \in InMpi /\ c.fn \notin Unfenced /\ u[l] = "fence" => l < m
  <2>1. /\ u[m] = t[m + 1] /\ m + 1 \in DOMAIN t /\ u[l] = t[l + 1] /\ l + 1 \in DOMAIN t
    BY <1>4
  <2>2. (l + 1 = m + 1 => l = m) /\ (l + 1 < m + 1 => l < m)
    OBVIOUS
  <2>3. QED
    BY <2>1, <2>2 DEF Ordered
<1>8. ASSUME NEW m \in 1 .. n, u[m] = "pack", c.fn \in Promise!Posts
      PROVE  \E l \in m + 1 .. n : u[l] = "message"
  <2>0. PICK o \in DOMAIN t : o = m + 1 /\ t[o] = "pack"
    BY <1>4, <1>8
  <2>1. PICK k \in o + 1 .. Len(t) : t[k] = "message"
    BY <1>8, <2>0 DEF Ordered
  <2>2. k - 1 \in m + 1 .. n /\ k - 1 \in 1 .. n /\ (k - 1) + 1 = k
    BY <1>1, <2>0
  <2>3. u[k - 1] = t[k]
    BY <1>4, <2>2
  <2>4. QED
    BY <2>1, <2>2, <2>3
<1>9. u \in Seq(Labels) /\ Len(u) = n /\ DOMAIN u = 1 .. n
  BY <1>2, <1>3
<1>10. Ordered(c, u)
  BY <1>5, <1>6, <1>7, <1>8, <1>9 DEF Ordered
<1>11. QED
  BY <1>1, <1>2, <1>3, <1>10 DEF Ordered

(* What follows for the steps after the first one.                         *)
LEMMA AfterFirst ==
  ASSUME NEW c, NEW t, Ordered(c, t), t # <<>>, NEW u, u = Tail(t)
  PROVE  /\ Ordered(c, u) /\ t[1] = Head(t) /\ t[1] \in Labels
         /\ t[1] \in Range(t) /\ Range(t) = {t[1]} \union Range(u)
         /\ t[1] = "message" => "message" \notin Range(u)
         /\ t[1] = "message" /\ c.fn \notin Promise!Posts => u # <<>> /\ Head(u) = "finish"
         /\ t[1] \in Enqueued /\ u # <<>> => Head(u) \in Enqueued \union {"fence"}
         /\ t[1] \in InMpi /\ c.fn \notin Unfenced => "fence" \notin Range(t)
         /\ c.fn = "wait" => "finish" \notin Range(u)
         /\ t[1] = "pack" /\ c.fn \in Promise!Posts => "message" \in Range(u)
         /\ u # <<>> /\ Head(u) = "leave" => t[1] = "collective"
         /\ u # <<>> /\ Head(u) = "finish" => t[1] = "message"
<1>1. /\ Ordered(c, u) /\ Len(t) \in Nat /\ Len(t) > 0 /\ Head(t) = t[1]
      /\ Len(u) = Len(t) - 1 /\ \A m \in 1 .. Len(t) - 1 : u[m] = t[m + 1]
  BY TailOrdered
<1>2. PICK n \in Nat : n = Len(t) - 1 /\ n + 1 = Len(t)
  <2>1. PICK l \in Nat : l = Len(t) /\ l > 0
    BY <1>1
  <2>2. l - 1 \in Nat /\ (l - 1) + 1 = l
    BY <2>1
  <2>3. QED
    BY <2>1, <2>2
<1>3. /\ t \in Seq(Labels) /\ DOMAIN t = 1 .. n + 1 /\ u \in Seq(Labels) /\ DOMAIN u = 1 .. n
      /\ Len(u) = n /\ \A m \in 1 .. n : u[m] = t[m + 1] /\ m + 1 \in DOMAIN t /\ m + 1 # 1
  <2>1. /\ t \in Seq(Labels) /\ DOMAIN t = 1 .. n + 1 /\ u \in Seq(Labels) /\ DOMAIN u = 1 .. n
        /\ Len(u) = n
    BY <1>1, <1>2 DEF Ordered
  <2>2. \A m \in 1 .. n : m + 1 \in 1 .. n + 1 /\ m + 1 # 1
    OBVIOUS
  <2>3. QED
    BY <1>1, <1>2, <2>1, <2>2
<1>4. 1 \in DOMAIN t /\ t[1] \in Labels /\ t[1] \in Range(t)
  BY <1>3 DEF Range
<1>5. \A m \in 1 .. n + 1 : m = 1 \/ (m - 1 \in 1 .. n /\ (m - 1) + 1 = m)
  OBVIOUS
<1>6. Range(t) = {t[1]} \union Range(u)
  <2>1. ASSUME NEW m \in DOMAIN t PROVE t[m] = t[1] \/ t[m] \in Range(u)
    <3>1. CASE m = 1
      BY <3>1
    <3>2. CASE m - 1 \in 1 .. n /\ (m - 1) + 1 = m
      BY <1>3, <3>2 DEF Range
    <3>3. QED
      BY <1>3, <1>5, <3>1, <3>2
  <2>2. \A x \in Range(u) : x \in Range(t)
    BY <1>3 DEF Range
  <2>3. QED
    BY <1>4, <2>1, <2>2 DEF Range
<1>7. u # <<>> => n > 0 /\ 1 \in 1 .. n /\ Head(u) = t[2] /\ 2 \in DOMAIN t /\ 1 < Len(t)
  <2> SUFFICES ASSUME u # <<>> PROVE n > 0 /\ 1 \in 1 .. n /\ Head(u) = t[2] /\ 2 \in DOMAIN t
    /\ 1 < Len(t)
    OBVIOUS
  <2>1. n > 0 /\ 1 \in 1 .. n /\ 2 \in DOMAIN t /\ 1 < Len(t)
    BY <1>2, <1>3
  <2>2. Head(u) = u[1]
    BY <1>3
  <2>3. u[1] = t[2]
    BY <1>3, <2>1
  <2>4. QED
    BY <2>1, <2>2, <2>3
<1>8. t[1] = "message" => "message" \notin Range(u)
  BY <1>3, <1>4 DEF Ordered, Range
<1>9. ASSUME t[1] = "message", c.fn \notin Promise!Posts PROVE u # <<>> /\ Head(u) = "finish"
  <2>1. 1 < Len(t) /\ t[1 + 1] = "finish"
    BY <1>4, <1>9 DEF Ordered
  <2>2. u # <<>>
    <3>1. n # 0
      BY <1>2, <2>1
    <3>2. QED
      BY <1>3, <3>1
  <2>3. QED
    BY <1>7, <2>1, <2>2
<1>10. ASSUME t[1] \in Enqueued, u # <<>> PROVE Head(u) \in Enqueued \union {"fence"}
  <2>1. t[1 + 1] \in Enqueued \union {"fence"}
    BY <1>4, <1>7, <1>10 DEF Ordered
  <2>2. QED
    BY <1>7, <1>10, <2>1
<1>11. t[1] \in InMpi /\ c.fn \notin Unfenced => "fence" \notin Range(t)
  BY <1>3, <1>4 DEF Ordered, Range
<1>12. c.fn = "wait" => "finish" \notin Range(u)
  BY <1>3 DEF Ordered, Range
<1>13. ASSUME t[1] = "pack", c.fn \in Promise!Posts PROVE "message" \in Range(u)
  <2>1. PICK l \in 1 + 1 .. Len(t) : t[l] = "message"
    BY <1>4, <1>13 DEF Ordered
  <2>2. l - 1 \in 1 .. n /\ (l - 1) + 1 = l
    BY <1>2
  <2>3. QED
    BY <1>3, <2>1, <2>2 DEF Range
<1>14. ASSUME u # <<>> PROVE /\ Head(u) = "leave" => t[1] = "collective"
                             /\ Head(u) = "finish" => t[1] = "message"
  <2>1. t[2] = "leave" => 2 = 1 \/ t[2 - 1] = "collective"
    BY <1>7, <1>14 DEF Ordered
  <2>2. t[2] = "finish" => 2 = 1 \/ t[2 - 1] = "message"
    BY <1>7, <1>14 DEF Ordered
  <2>3. QED
    BY <1>7, <1>14, <2>1, <2>2
<1>15. QED
  BY <1>1, <1>4, <1>6, <1>8, <1>9, <1>10, <1>11, <1>12, <1>13, <1>14

-----------------------------------------------------------------------------
(* The program.                                                            *)
LEMMA Programmed ==
  ASSUME program \in Programs, NEW p \in Ranks
  PROVE  /\ program[p] \in Seq(CallRecords) /\ Len(program[p]) \in Nat
         /\ Calls(p) = 1 .. Len(program[p])
         /\ \A i \in Calls(p) : program[p][i] \in CallRecords
         /\ \A i \in Calls(p) : program[p][i].fn = "wait" =>
              /\ program[p][i].of \in 1 .. i - 1 /\ program[p][i].of \in Calls(p)
              /\ program[p][program[p][i].of].fn \in Promise!Posts
              /\ \A h \in 1 .. i - 1 : ~ WaitsFor(program[p], h, program[p][i].of)
         /\ \A i \in Calls(p) : program[p][i].fn \notin Unfenced =>
              \A j \in 1 .. i - 1 :
                program[p][j].fn \in Promise!Posts /\ program[p][j].v = program[p][i].v =>
                  \E h \in j + 1 .. i - 1 : WaitsFor(program[p], h, j)
<1>1. program \in [Ranks -> Seq(CallRecords)]
  BY BlockingCallsAssumption
<1>2. program[p] \in Seq(CallRecords)
  BY <1>1
<1>3. /\ Len(program[p]) \in Nat /\ Calls(p) = 1 .. Len(program[p])
      /\ \A i \in Calls(p) : program[p][i] \in CallRecords
  BY <1>2 DEF Calls
<1>4. \A i \in Calls(p) :
        LET c == program[p][i] IN
        /\ c.fn = "wait" =>
             /\ c.of \in 1 .. i - 1 /\ program[p][c.of].fn \in Promise!Posts
             /\ \A h \in 1 .. i - 1 : ~ WaitsFor(program[p], h, c.of)
        /\ c.fn \notin {"wait", "barrier"} =>
             \A j \in 1 .. i - 1 :
               program[p][j].fn \in Promise!Posts /\ program[p][j].v = c.v =>
                 \E h \in j + 1 .. i - 1 : WaitsFor(program[p], h, j)
  BY BlockingCallsAssumption DEF Calls
<1>5. \A i \in Calls(p) : \A j \in 1 .. i - 1 : j \in Calls(p)
  BY <1>3
<1>6. QED
  BY <1>2, <1>3, <1>4, <1>5 DEF Unfenced

LEMMA OneWait ==
  ASSUME program \in Programs, NEW p \in Ranks, NEW j, NEW h \in Calls(p), NEW w \in Calls(p),
         WaitsFor(program[p], h, j), WaitsFor(program[p], w, j)
  PROVE  h = w
<1>1. h \in Int /\ w \in Int /\ h > 0 /\ w > 0
  BY Programmed
<1>2. CASE h < w
  <2>1. h \in 1 .. w - 1
    BY <1>1, <1>2
  <2>2. QED
    BY <2>1, Programmed DEF WaitsFor
<1>3. CASE w < h
  <2>1. w \in 1 .. h - 1
    BY <1>1, <1>3
  <2>2. QED
    BY <2>1, Programmed DEF WaitsFor
<1>4. QED
  BY <1>1, <1>2, <1>3

(* A rank inside a call.                                                   *)
LEMMA Here ==
  ASSUME IInv, NEW p \in Ranks
  PROVE  /\ at[p] \in Nat /\ at[p] <= Len(program[p])
         /\ Len(program[p]) \in Nat /\ Calls(p) = 1 .. Len(program[p])
         /\ todo[p] # <<>> =>
              /\ at[p] \in Calls(p) /\ at[p] > 0 /\ Current(p) \in CallRecords
              /\ Current(p) = program[p][at[p]]
              /\ Ordered(Current(p), todo[p]) /\ Head(todo[p]) = todo[p][1]
              /\ Head(todo[p]) \in Labels /\ Head(todo[p]) \in Left(p)
              /\ Left(p) = {Head(todo[p])} \union Range(Tail(todo[p]))
<1>1. program \in Programs /\ Tasks(p) /\ at[p] \in Nat
  BY DEF IInv, Domains, Local
<1>2. at[p] <= Len(program[p]) /\ Len(program[p]) \in Nat /\ Calls(p) = 1 .. Len(program[p])
  BY <1>1, Programmed DEF Tasks
<1>3. ASSUME todo[p] # <<>>
      PROVE  /\ at[p] \in Calls(p) /\ at[p] > 0 /\ Current(p) \in CallRecords
             /\ Ordered(Current(p), todo[p])
  <2>1. at[p] # 0 /\ Ordered(Current(p), todo[p])
    BY <1>1, <1>3 DEF Tasks
  <2>2. at[p] \in Calls(p) /\ at[p] > 0
    BY <1>1, <1>2, <2>1
  <2>3. QED
    BY <1>1, <2>1, <2>2, Programmed DEF Current
<1>4. todo[p] # <<>> =>
        /\ Head(todo[p]) = todo[p][1] /\ Head(todo[p]) \in Labels /\ Head(todo[p]) \in Left(p)
        /\ Left(p) = {Head(todo[p])} \union Range(Tail(todo[p]))
  <2> SUFFICES ASSUME todo[p] # <<>>
               PROVE  /\ Head(todo[p]) = todo[p][1] /\ Head(todo[p]) \in Labels
                      /\ Head(todo[p]) \in Left(p)
                      /\ Left(p) = {Head(todo[p])} \union Range(Tail(todo[p]))
    OBVIOUS
  <2>1. PICK c, t, u : c = Current(p) /\ t = todo[p] /\ u = Tail(t)
    OBVIOUS
  <2>2. Ordered(c, t) /\ t # <<>>
    BY <1>3, <2>1
  <2>3. t[1] = Head(t) /\ t[1] \in Labels /\ t[1] \in Range(t)
          /\ Range(t) = {t[1]} \union Range(u)
    BY <2>1, <2>2, AfterFirst
  <2>4. QED
    BY <2>1, <2>3 DEF Left
<1>5. QED
  BY <1>1, <1>2, <1>3, <1>4 DEF Current

(* A rank that a step leaves alone.                                        *)
LEMMA Frame ==
  ASSUME IInv, NEW q \in Ranks, program' = program, at'[q] = at[q], todo'[q] = todo[q],
         queue'[q] = queue[q], posted'[q] = posted[q], entered'[q] = entered[q]
  PROVE  Local(q)'
<1>1. Local(q)
  BY DEF IInv
<1>2. Left(q)' = Left(q) /\ Current(q)' = Current(q) /\ Calls(q)' = Calls(q)
  BY DEF Left, Current, Calls
<1>3. Tasks(q)' /\ Drained(q)'
  BY <1>1, <1>2 DEF Local, Tasks, Drained
<1>4. \A w : Over(q, w)' <=> Over(q, w)
  BY <1>2 DEF Over
<1>5. \A k : Kernel(q, k)' <=> Kernel(q, k)
  BY <1>4 DEF Kernel
<1>6. Kernels(q)'
  BY <1>1, <1>5 DEF Local, Kernels
<1>7. \A i : Open(q, i)' <=> Open(q, i)
  BY <1>2, <1>4 DEF Open
<1>8. \A m : Sent(q, m)' <=> Sent(q, m)
  BY <1>2, <1>7 DEF Sent
<1>9. Posted(q)'
  BY <1>1, <1>8 DEF Local, Posted
<1>10. QED
  BY <1>3, <1>6, <1>9 DEF Local

-----------------------------------------------------------------------------
(* Steps of a call.  Rank p does the first of those that are left, h.      *)
Does(p, h) ==
  /\ todo[p] # <<>> /\ h = Head(todo[p])
  /\ todo' = [todo EXCEPT ![p] = Tail(@)] /\ program' = program /\ at' = at

Enqueues(p, k) ==
  \A n \in DOMAIN queue'[p] :
    (n \in DOMAIN queue[p] /\ queue'[p][n] = queue[p][n]) \/ queue'[p][n] = k

LEMMA DoesFacts ==
  ASSUME IInv, NEW p \in Ranks, NEW h, Does(p, h)
  PROVE  /\ todo'[p] = Tail(todo[p]) /\ Ordered(Current(p), todo'[p])
         /\ Current(p)' = Current(p) /\ Calls(p)' = Calls(p) /\ at'[p] = at[p] /\ at[p] > 0
         /\ at[p] \in Nat /\ at[p] \in Calls(p) /\ Current(p) = program[p][at[p]]
         /\ h \in Labels /\ Left(p) = {h} \union Left(p)'
         /\ h = "message" => "message" \notin Left(p)'
         /\ h = "message" /\ Current(p).fn \notin Promise!Posts =>
              todo'[p] # <<>> /\ Head(todo'[p]) = "finish"
         /\ h \in Enqueued /\ todo'[p] # <<>> => Head(todo'[p]) \in Enqueued \union {"fence"}
         /\ h \in InMpi /\ Current(p).fn \notin Unfenced => "fence" \notin Left(p)
         /\ Current(p).fn = "wait" => "finish" \notin Left(p)'
         /\ h = "pack" /\ Current(p).fn \in Promise!Posts => "message" \in Left(p)'
         /\ todo'[p] # <<>> /\ Head(todo'[p]) = "leave" => h = "collective"
         /\ \A w : Over(p, w) => Over(p, w)'
         /\ \A w : Over(p, w)' => Over(p, w) \/ (w = at[p] /\ h = "finish")
<1>1. PICK c, t, u : c = Current(p) /\ t = todo[p] /\ u = Tail(t)
  OBVIOUS
<1>2. Ordered(c, t) /\ t # <<>> /\ h = t[1]
  BY <1>1, Here DEF Does
<1>3. todo'[p] = u /\ at'[p] = at[p]
  BY <1>1 DEF Does, IInv, Domains
<1>4. Left(p) = Range(t) /\ Left(p)' = Range(u)
  BY <1>1, <1>3 DEF Left
<1>5. Current(p)' = Current(p) /\ Calls(p)' = Calls(p)
  BY DEF Does, Current, Calls
<1>6. /\ at[p] > 0 /\ at[p] \in Nat /\ at[p] \in Calls(p) /\ Current(p) = program[p][at[p]]
  BY Here DEF Does
<1>7. /\ Ordered(c, u) /\ h \in Labels
      /\ Range(t) = {h} \union Range(u)
      /\ h = "message" => "message" \notin Range(u)
      /\ h = "message" /\ c.fn \notin Promise!Posts => u # <<>> /\ Head(u) = "finish"
      /\ h \in Enqueued /\ u # <<>> => Head(u) \in Enqueued \union {"fence"}
      /\ h \in InMpi /\ c.fn \notin Unfenced => "fence" \notin Range(t)
      /\ c.fn = "wait" => "finish" \notin Range(u)
      /\ h = "pack" /\ c.fn \in Promise!Posts => "message" \in Range(u)
      /\ u # <<>> /\ Head(u) = "leave" => h = "collective"
  <2>1. Ordered(c, t) /\ t # <<>> /\ u = Tail(t)
    BY <1>1, <1>2
  <2>2. /\ Ordered(c, u) /\ t[1] \in Labels
        /\ Range(t) = {t[1]} \union Range(u)
        /\ t[1] = "message" => "message" \notin Range(u)
        /\ t[1] = "message" /\ c.fn \notin Promise!Posts => u # <<>> /\ Head(u) = "finish"
        /\ t[1] \in Enqueued /\ u # <<>> => Head(u) \in Enqueued \union {"fence"}
        /\ t[1] \in InMpi /\ c.fn \notin Unfenced => "fence" \notin Range(t)
        /\ c.fn = "wait" => "finish" \notin Range(u)
        /\ t[1] = "pack" /\ c.fn \in Promise!Posts => "message" \in Range(u)
        /\ u # <<>> /\ Head(u) = "leave" => t[1] = "collective"
    BY <2>1, AfterFirst
  <2>3. QED
    BY <1>2, <2>2
<1>8. /\ \A w : Over(p, w) => Over(p, w)'
      /\ \A w : Over(p, w)' => Over(p, w) \/ (w = at[p] /\ h = "finish")
  BY <1>3, <1>4, <1>7 DEF Over
<1>9. QED
  BY <1>1, <1>3, <1>4, <1>5, <1>6, <1>7, <1>8

LEMMA DoesTasks ==
  ASSUME IInv, NEW p \in Ranks, NEW h, Does(p, h), h = "collective" => entered'[p] # <<>>
  PROVE  Tasks(p)'
<1>1. Tasks(p)
  BY DEF IInv, Local
<1>2. /\ at'[p] = at[p] /\ program' = program /\ at[p] > 0 /\ at[p] \in Nat
      /\ Ordered(Current(p)', todo'[p])
  <2>1. at'[p] = at[p] /\ at[p] > 0 /\ at[p] \in Nat /\ Current(p)' = Current(p)
    BY DoesFacts
  <2>2. Ordered(Current(p), todo'[p])
    BY DoesFacts
  <2>3. program' = program
    BY DEF Does
  <2>4. QED
    BY <2>1, <2>2, <2>3
<1>3. todo'[p] # <<>> /\ Head(todo'[p]) = "leave" => entered'[p] # <<>>
  BY DoesFacts
<1>4. QED
  <2>1. at[p] # 0
    BY <1>2
  <2>2. QED
    BY <1>1, <1>2, <1>3, <2>1 DEF Tasks

LEMMA DoesDrained ==
  ASSUME IInv, NEW p \in Ranks, NEW h, Does(p, h), h = "fence" => queue[p] = <<>>,
         h \notin Enqueued => queue'[p] = queue[p]
  PROVE  Drained(p)'
<1> SUFFICES ASSUME todo'[p] # <<>>, Head(todo'[p]) \notin Enqueued, "fence" \notin Left(p)',
                    Current(p)'.fn \notin Unfenced
             PROVE  queue'[p] = <<>>
  BY DEF Drained
<1>1. Left(p) = {h} \union Left(p)' /\ Current(p)' = Current(p)
  BY DoesFacts
<1>2. "fence" \in Left(p)' \/ Head(todo'[p]) # "fence"
  <2>1. Ordered(Current(p), todo'[p])
    BY DoesFacts
  <2>2. PICK t : t = todo'[p] /\ Ordered(Current(p), t) /\ t # <<>>
    BY <2>1
  <2>3. Head(t) = t[1] /\ t[1] \in Range(t)
    BY <2>2, AfterFirst
  <2>4. QED
    BY <2>2, <2>3 DEF Left
<1>3. h \notin Enqueued
  BY <1>2, DoesFacts
<1>4. CASE h = "fence"
  BY <1>3, <1>4
<1>5. CASE h # "fence"
  <2>1. Drained(p) /\ todo[p] # <<>> /\ Head(todo[p]) = h
    BY DEF IInv, Local, Does
  <2>2. QED
    BY <1>1, <1>3, <1>5, <2>1 DEF Drained
<1>6. QED
  BY <1>4, <1>5

LEMMA DoesKernels ==
  ASSUME IInv, NEW p \in Ranks, NEW h, Does(p, h),
         queue'[p] = queue[p] \/ (h \in Enqueued /\ Enqueues(p, [op |-> h, call |-> at[p]]))
  PROVE  Kernels(p)'
<1>1. PICK k : k = [op |-> h, call |-> at[p]]
  OBVIOUS
<1>2. ASSUME NEW n \in DOMAIN queue[p], NEW l, l = queue[p][n] PROVE Kernel(p, l)'
  <2>1. Kernel(p, l)
    BY <1>2 DEF IInv, Local, Kernels
  <2>2. at' = at /\ program' = program
    BY DEF Does
  <2>3. \A w : Over(p, w) => Over(p, w)'
    BY DoesFacts
  <2>4. QED
    BY <2>1, <2>2, <2>3 DEF Kernel
<1>3. ASSUME h \in Enqueued PROVE Kernel(p, k)'
  <2>0. PICK i : i = at[p]
    OBVIOUS
  <2>1. k.op = h /\ k.call = i
    BY <1>1, <2>0
  <2>2. i \in 1 .. at'[p] /\ i = at'[p]
    BY <2>0, DoesFacts
  <2>3. Current(p) = program'[p][i]
    BY <2>0, DoesFacts DEF Does
  <2>4. /\ h = "pack" => Current(p).fn \notin Unfenced
        /\ h = "unpack" => Current(p).fn \in {"recv", "reduce", "wait"}
    <3>1. Ordered(Current(p), todo[p]) /\ todo[p][1] = h
      BY Here DEF Does
    <3>2. 1 \in DOMAIN todo[p]
      BY <3>1, TailOrdered DEF Does, Ordered
    <3>3. QED
      BY <3>1, <3>2 DEF Ordered
  <2>5. Current(p).fn = "wait" => Over(p, i)'
    BY <2>2, DoesFacts DEF Over
  <2>6. h # "produce"
    BY <1>3 DEF Enqueued
  <2>7. program'[p][k.call] = Current(p)
    BY <2>1, <2>3
  <2>8. QED
    BY <1>3, <2>1, <2>2, <2>4, <2>5, <2>6, <2>7 DEF Kernel
<1>4. ASSUME NEW n \in DOMAIN queue'[p], NEW l, l = queue'[p][n] PROVE Kernel(p, l)'
  <2>1. CASE queue'[p] = queue[p]
    BY <1>2, <1>4, <2>1
  <2>2. CASE h \in Enqueued /\ Enqueues(p, k)
    BY <1>2, <1>3, <1>4, <2>2 DEF Enqueues
  <2>3. QED
    BY <1>1, <2>1, <2>2
<1>5. QED
  BY <1>4 DEF Kernels

(* An operation that is open stays so until it is completed.               *)
LEMMA DoesOpen ==
  ASSUME IInv, NEW p \in Ranks, NEW h, Does(p, h), NEW m \in DOMAIN posted[p],
         posted[p][m].open, NEW i, i = posted[p][m].call,
         h = "finish" => Promise!Subject(p, at[p]) # i,
         queue'[p] = queue[p] \/ (h \in Enqueued /\ Enqueues(p, [op |-> h, call |-> at[p]]))
  PROVE  Open(p, i)'
<1>1. /\ Open(p, i) /\ i \in 1 .. at[p] /\ program[p][i].fn \in Messages
      /\ i = at[p] => "message" \notin Left(p)
  BY DEF IInv, Local, Posted, Sent
<1>3. at[p] \in Nat /\ at[p] > 0 /\ Current(p) = program[p][at[p]]
        /\ Left(p) = {h} \union Left(p)'
      /\ at[p] \in Calls(p) /\ Calls(p)' = Calls(p)
  BY DoesFacts
<1>4. CASE program[p][i].fn \notin Promise!Posts
  <2>1. i = at[p] /\ h = "finish"
    BY <1>1, <1>4 DEF Open, Does
  <2>2. program[p][at[p]].fn # "wait"
    BY <1>1, <2>1 DEF Messages, Promise!Senders, Promise!Receivers
  <2>3. Promise!Subject(p, at[p]) = at[p]
    BY <2>2 DEF Promise!Subject
  <2>4. QED
    BY <2>1, <2>3
<1>5. CASE program[p][i].fn \in Promise!Posts
  <2>1. ASSUME NEW w \in Calls(p), WaitsFor(program[p], w, i) PROVE ~ Over(p, w)'
    <3>1. ~ Over(p, w)
      BY <1>1, <1>5, <2>1 DEF Open
    <3>2. ASSUME w = at[p], h = "finish" PROVE FALSE
      <4>1. Promise!Subject(p, at[p]) = i
        BY <2>1, <3>2 DEF WaitsFor, Promise!Subject
      <4>2. QED
        BY <3>2, <4>1
    <3>3. QED
      BY <3>1, <3>2, DoesFacts
  <2>2. ASSUME NEW n \in DOMAIN queue[p]
        PROVE  queue[p][n].call > i \/ (queue[p][n].call = i /\ queue[p][n].op = "consume")
    BY <1>1, <1>5 DEF Open
  <2>3. ASSUME h \in Enqueued PROVE at[p] > i \/ (at[p] = i /\ h = "consume")
    <3>1. at[p] > i \/ at[p] = i
      BY <1>1, <1>3
    <3>2. ASSUME at[p] = i PROVE h = "consume"
      <4>1. Current(p).fn \in Promise!Posts /\ "message" \notin Left(p)'
        BY <1>1, <1>3, <1>5, <3>2
      <4>2. h # "pack"
        BY <4>1, DoesFacts
      <4>3. Ordered(Current(p), todo[p]) /\ todo[p][1] = h
        BY Here DEF Does
      <4>4. 1 \in DOMAIN todo[p]
        BY <4>3, TailOrdered DEF Does, Ordered
      <4>5. h = "unpack" => Current(p).fn \in {"recv", "reduce", "wait"}
        BY <4>3, <4>4 DEF Ordered
      <4>6. h # "unpack"
        BY <4>1, <4>5 DEF Promise!Posts
      <4>7. QED
        BY <2>3, <4>2, <4>6 DEF Enqueued
    <3>3. QED
      BY <3>1, <3>2
  <2>4. ASSUME NEW n \in DOMAIN queue'[p]
        PROVE  queue'[p][n].call > i \/ (queue'[p][n].call = i /\ queue'[p][n].op = "consume")
    <3>1. CASE queue'[p] = queue[p]
      BY <2>2, <3>1
    <3>2. CASE h \in Enqueued /\ Enqueues(p, [op |-> h, call |-> at[p]])
      <4>1. CASE n \in DOMAIN queue[p] /\ queue'[p][n] = queue[p][n]
        BY <2>2, <4>1
      <4>2. CASE queue'[p][n] = [op |-> h, call |-> at[p]]
        BY <2>3, <3>2, <4>2
      <4>3. QED
        BY <3>2, <4>1, <4>2 DEF Enqueues
    <3>3. QED
      BY <3>1, <3>2
  <2>5. program'[p][i].fn \in Promise!Posts /\ program' = program
    BY <1>5 DEF Does
  <2>6. QED
    BY <1>3, <2>1, <2>4, <2>5 DEF Open
<1>6. QED
  BY <1>4, <1>5


LEMMA DoesPosted ==
  ASSUME IInv, NEW p \in Ranks, NEW h, Does(p, h), h \notin {"message", "finish"},
         posted'[p] = posted[p],
         queue'[p] = queue[p] \/ (h \in Enqueued /\ Enqueues(p, [op |-> h, call |-> at[p]]))
  PROVE  Posted(p)'
<1>1. Posted(p)
  BY DEF IInv, Local
<1>2. ASSUME NEW n \in DOMAIN posted[p], NEW m, m = posted[p][n] PROVE Sent(p, m)'
  <2>1. Sent(p, m)
    BY <1>1, <1>2 DEF Posted
  <2>2. PICK i : i = m.call
    OBVIOUS
  <2>3. at'[p] = at[p] /\ Left(p) = {h} \union Left(p)'
    BY DoesFacts
  <2>4. m.open => Open(p, i)'
    BY <1>2, <2>2, DoesOpen
  <2>5. program' = program
    BY DEF Does
  <2>6. QED
    BY <2>1, <2>2, <2>3, <2>4, <2>5 DEF Sent
<1>3. QED
  BY <1>1, <1>2 DEF Posted

(* The steps that are about kernels and collectives.                       *)
LEMMA DoesLocal ==
  ASSUME IInv, NEW p \in Ranks, NEW h, Does(p, h), h \notin {"message", "finish"},
         h = "fence" => queue[p] = <<>>, h = "collective" => entered'[p] # <<>>,
         posted'[p] = posted[p],
         \/ queue'[p] = queue[p]
         \/ h \in Enqueued /\ Enqueues(p, [op |-> h, call |-> at[p]])
  PROVE  Local(p)'
<1>1. Tasks(p)'
  BY DoesTasks
<1>2. Drained(p)'
  BY DoesDrained
<1>3. Kernels(p)'
  BY DoesKernels
<1>4. Posted(p)'
  BY DoesPosted
<1>5. QED
  BY <1>1, <1>2, <1>3, <1>4 DEF Local

(* An exception ends a call before it did anything.                        *)
LEMMA Throws ==
  ASSUME IInv, NEW p \in Ranks, todo[p] # <<>>, Head(todo[p]) # "finish", todo'[p] = <<>>,
         program' = program, at'[p] = at[p], queue'[p] = queue[p], posted'[p] = posted[p],
         Current(p).fn # "wait"
  PROVE  Local(p)'
<1>1. Tasks(p) /\ Drained(p) /\ Kernels(p) /\ Posted(p)
  BY DEF IInv, Local
<1>2. Left(p)' = {} /\ Calls(p)' = Calls(p)
  BY DEF Left, Calls, Range
<1>3. Tasks(p)'
  <2>1. Ordered(Current(p)', <<>>)
    BY DEF Ordered
  <2>2. QED
    BY <1>1, <2>1 DEF Tasks
<1>4. Drained(p)'
  BY DEF Drained
<1>5. ASSUME NEW w PROVE Over(p, w) => Over(p, w)'
  BY <1>2 DEF Over
<1>6. ASSUME NEW w, Over(p, w)', program[p][w].fn = "wait" PROVE Over(p, w)
  <2>1. w # at[p]
    BY <1>6 DEF Current
  <2>2. QED
    BY <1>6, <2>1 DEF Over
<1>7. ASSUME NEW n \in DOMAIN queue[p], NEW k, k = queue[p][n] PROVE Kernel(p, k)'
  <2>1. Kernel(p, k)
    BY <1>1, <1>7 DEF Kernels
  <2>2. QED
    BY <1>5, <2>1 DEF Kernel
<1>8. Kernels(p)'
  BY <1>7 DEF Kernels
<1>9. ASSUME NEW i, Open(p, i) PROVE Open(p, i)'
  <2>1. program[p][i].fn \in Promise!Posts
    BY <1>9 DEF Open
  <2>2. \A w \in Calls(p) : WaitsFor(program[p], w, i) => ~ Over(p, w)'
    BY <1>6, <1>9, <2>1 DEF Open, WaitsFor
  <2>3. QED
    BY <1>2, <1>9, <2>1, <2>2 DEF Open
<1>10. ASSUME NEW m, Sent(p, m) PROVE Sent(p, m)'
  <2>1. PICK i : i = m.call
    OBVIOUS
  <2>2. m.open => Open(p, i)'
    BY <1>9, <1>10, <2>1 DEF Sent
  <2>3. QED
    BY <1>2, <1>10, <2>1, <2>2 DEF Sent
<1>11. Posted(p)'
  BY <1>1, <1>10 DEF Posted
<1>12. QED
  BY <1>3, <1>4, <1>8, <1>11 DEF Local

-----------------------------------------------------------------------------
(* Memory.                                                                 *)
LEMMA BegunKept ==
  ASSUME Domains, Domains', \A r \in Ranks : at[r] <= at'[r], NEW D, Begun(D)
  PROVE  Begun(D)'
<1> SUFFICES ASSUME NEW d \in D PROVE d \in Ranks \X Nat /\ d[2] \in 1 .. at'[d[1]]
  BY DEF Begun
<1>1. d \in Ranks \X Nat /\ d[2] \in 1 .. at[d[1]]
  BY DEF Begun
<1>2. at[d[1]] \in Nat /\ at'[d[1]] \in Nat /\ at[d[1]] <= at'[d[1]]
  BY <1>1 DEF Domains
<1>3. QED
  BY <1>1, <1>2

LEMMA MemoryFrame ==
  ASSUME IInv, Domains', program' = program, \A r \in Ranks : at[r] <= at'[r],
         NEW q \in Ranks, buf'[q] = buf[q], entered'[q] = entered[q], posted'[q] = posted[q]
  PROVE  Memory(q)'
<1>1. Domains /\ Memory(q) /\ Buffers(q)' = Buffers(q)
  BY DEF IInv, Buffers, Calls
<1>2. \A D : Begun(D) => Begun(D)'
  BY <1>1, BegunKept
<1>3. PICK b, e, s : b = buf[q] /\ e = entered[q] /\ s = posted[q]
  OBVIOUS
<1>4. /\ b \in [Buffers(q) -> SUBSET (Ranks \X Nat)] /\ \A x \in Buffers(q) : Begun(b[x])
      /\ e \in Seq(SUBSET (Ranks \X Nat)) /\ \A n \in DOMAIN e : Begun(e[n])
      /\ \A n \in DOMAIN s : Begun(s[n].data)
  BY <1>1, <1>3 DEF Memory
<1>5. /\ \A x \in Buffers(q) : Begun(b[x])'
      /\ \A n \in DOMAIN e : Begun(e[n])'
      /\ \A n \in DOMAIN s : Begun(s[n].data)'
  BY <1>2, <1>4
<1>6. buf'[q] = b /\ entered'[q] = e /\ posted'[q] = s
  BY <1>3
<1>7. QED
  BY <1>1, <1>4, <1>5, <1>6 DEF Memory

LEMMA MemoryKept ==
  ASSUME IInv, Domains', program' = program, at' = at, NEW q \in Ranks,
         buf'[q] = buf[q], entered'[q] = entered[q], posted'[q] = posted[q]
  PROVE  Memory(q)'
<1>1. ASSUME NEW r \in Ranks PROVE at[r] <= at'[r]
  <2>1. at[r] \in Nat
    BY DEF IInv, Domains
  <2>2. QED
    BY <2>1
<1>2. QED
  BY <1>1, MemoryFrame

(* A step of rank p.                                                       *)
LEMMA Alone ==
  ASSUME IInv, NEW p \in Ranks, Domains', program' = program, Local(p)', Memory(p)',
         at[p] <= at'[p],
         \A q \in Ranks \ {p} :
           /\ at'[q] = at[q] /\ todo'[q] = todo[q] /\ queue'[q] = queue[q]
           /\ buf'[q] = buf[q] /\ entered'[q] = entered[q] /\ posted'[q] = posted[q]
  PROVE  IInv'
<1>1. ASSUME NEW r \in Ranks PROVE at[r] <= at'[r]
  <2>1. at[r] \in Nat
    BY DEF IInv, Domains
  <2>2. QED
    BY <2>1
<1>2. ASSUME NEW q \in Ranks \ {p} PROVE Local(q)' /\ Memory(q)'
  BY <1>1, <1>2, Frame, MemoryFrame
<1>3. QED
  BY <1>2 DEF IInv

-----------------------------------------------------------------------------
(* The actions of a rank.                                                  *)
LEMMA FenceStep == ASSUME IInv, NEW p \in Ranks, Fence(p) PROVE IInv'
<1>1. Does(p, "fence") /\ queue[p] = <<>>
  BY DEF Fence, At, Done, Does
<1>2. UNCHANGED <<program, at, queue, buf, entered, posted, aborted>>
  BY DEF Fence
<1>3. Domains' /\ \A q \in Ranks \ {p} : todo'[q] = todo[q]
  BY <1>1, <1>2 DEF IInv, Domains, Does
<1>4. Local(p)'
  BY <1>1, <1>2, DoesLocal
<1>5. at[p] <= at'[p]
  BY <1>2 DEF IInv, Domains
<1>6. Memory(p)'
  BY <1>2, <1>3, MemoryKept
<1>7. QED
  BY <1>2, <1>3, <1>4, <1>5, <1>6, Alone

LEMMA CheckStep == ASSUME IInv, NEW p \in Ranks, Check(p) PROVE IInv'
<1>1. PICK step \in {"contiguous", "equal", "fit"} :
        /\ At(p, step)
        /\ \/ Done(p) /\ UNCHANGED aborted
           \/ /\ Current(p).fn \in Promise!Scans
              /\ todo' = [todo EXCEPT ![p] = <<>>] /\ UNCHANGED aborted
           \/ aborted' = TRUE /\ UNCHANGED todo
  BY DEF Check
<1>2. UNCHANGED <<program, at, queue, buf, entered, posted>>
  BY DEF Check
<1>3. Domains' /\ \A q \in Ranks \ {p} : todo'[q] = todo[q]
  BY <1>1, <1>2 DEF IInv, Domains, Done
<1>4. at[p] <= at'[p]
  BY <1>2 DEF IInv, Domains
<1>5. Memory(p)'
  BY <1>2, <1>3, MemoryKept
<1>6. Local(p)'
  <2>1. todo[p] # <<>> /\ Head(todo[p]) = step
    BY <1>1 DEF At
  <2>2. CASE Done(p)
    <3>1. Does(p, step)
      BY <1>2, <2>1, <2>2 DEF Done, Does
    <3>2. QED
      BY <1>2, <3>1, DoesLocal
  <2>3. CASE Current(p).fn \in Promise!Scans /\ todo' = [todo EXCEPT ![p] = <<>>]
    <3>1. Current(p).fn # "wait"
      BY <2>3 DEF Promise!Scans, Promise!InclusiveScans, Promise!ExclusiveScans
    <3>2. todo'[p] = <<>>
      BY <2>3 DEF IInv, Domains
    <3>3. QED
      BY <1>2, <2>1, <3>1, <3>2, Throws
  <2>4. CASE UNCHANGED todo
    BY <1>2, <2>4, Frame
  <2>5. QED
    BY <1>1, <2>2, <2>3, <2>4
<1>7. QED
  BY <1>2, <1>3, <1>4, <1>5, <1>6, Alone

LEMMA EnqueueStep == ASSUME IInv, NEW p \in Ranks, Enqueue(p) PROVE IInv'
<1>1. PICK op \in {"pack", "unpack", "consume"} : At(p, op) /\ Launch(p, op)
  BY DEF Enqueue
<1>2. Does(p, op) /\ op \in Enqueued
  BY <1>1 DEF At, Enqueue, Done, Does, Enqueued
<1>3. UNCHANGED <<program, at, buf, entered, posted, aborted>>
  BY DEF Enqueue
<1>4. PICK k : k = [op |-> op, call |-> at[p]]
  OBVIOUS
<1>5. /\ queue' = [queue EXCEPT ![p] = Append(@, k)] /\ at[p] \in Nat
      /\ k \in [op : Enqueued \union {"produce"}, call : Nat]
  BY <1>1, <1>2, <1>4 DEF Launch, IInv, Domains
<1>6. Domains' /\ \A q \in Ranks \ {p} : todo'[q] = todo[q] /\ queue'[q] = queue[q]
  <2>1. \A q \in Ranks \ {p} : todo'[q] = todo[q] /\ queue'[q] = queue[q]
    BY <1>2, <1>5 DEF IInv, Domains, Does
  <2>2. DOMAIN todo' = Ranks
    BY <1>2 DEF IInv, Domains, Does
  <2>3. queue' \in [Ranks -> Seq([op : Enqueued \union {"produce"}, call : Nat])]
    <3>1. PICK K : K = [op : Enqueued \union {"produce"}, call : Nat] /\ k \in K
      BY <1>5
    <3>2. queue \in [Ranks -> Seq(K)]
      BY <3>1 DEF IInv, Domains
    <3>3. queue[p] \in Seq(K)
      BY <3>2
    <3>4. Append(queue[p], k) \in Seq(K)
      BY <3>1, <3>3
    <3>5. queue' \in [Ranks -> Seq(K)]
      BY <1>5, <3>2, <3>4
    <3>6. QED
      BY <3>1, <3>5
  <2>4. QED
    BY <1>3, <2>1, <2>2, <2>3 DEF IInv, Domains
<1>7. Enqueues(p, k)
  <2>1. queue'[p] = Append(queue[p], k)
          /\ queue[p] \in Seq([op : Enqueued \union {"produce"}, call : Nat])
    BY <1>5 DEF IInv, Domains
  <2>2. QED
    BY <2>1 DEF Enqueues
<1>8. Local(p)'
  BY <1>2, <1>3, <1>4, <1>7, DoesLocal DEF Enqueued
<1>9. at[p] <= at'[p]
  BY <1>3 DEF IInv, Domains
<1>10. Memory(p)'
  BY <1>3, <1>6, MemoryKept
<1>11. QED
  BY <1>3, <1>6, <1>8, <1>9, <1>10, Alone

(* What p contributes was produced by calls that have begun.               *)
LEMMA Contributed ==
  ASSUME IInv, NEW p \in Ranks, NEW i \in Calls(p)
  PROVE  /\ SendBuffer(p, i) \in Buffers(p) /\ RecvBuffer(p, i) \in Buffers(p)
         /\ OwnView(program[p][i]) \in Buffers(p) /\ RecvView(program[p][i]) \in Buffers(p)
         /\ Contribution(p, i) \in SUBSET (Ranks \X Nat) /\ Begun(Contribution(p, i))
<1>1. program[p][i].v \in Views
  BY Programmed DEF IInv, Domains, CallRecords
<1>2. /\ OwnView(program[p][i]) \in Buffers(p) /\ RecvView(program[p][i]) \in Buffers(p)
      /\ <<"packed sv", i>> \in Buffers(p) /\ <<"packed rv", i>> \in Buffers(p)
  BY <1>1 DEF OwnView, RecvView, Buffers
<1>3. SendBuffer(p, i) \in Buffers(p) /\ RecvBuffer(p, i) \in Buffers(p)
  BY <1>2 DEF SendBuffer, RecvBuffer
<1>4. Contribution(p, i) \in SUBSET (Ranks \X Nat) /\ Begun(Contribution(p, i))
  <2>1. PICK b : b = SendBuffer(p, i)
    OBVIOUS
  <2>2. buf[p][b] \in SUBSET (Ranks \X Nat) /\ Begun(buf[p][b])
    BY <1>3, <2>1 DEF IInv, Memory
  <2>3. Begun({})
    BY DEF Begun
  <2>4. Contribution(p, i) = buf[p][b] \/ Contribution(p, i) = {}
    BY <2>1 DEF Contribution
  <2>5. QED
    BY <2>2, <2>3, <2>4
<1>5. QED
  BY <1>2, <1>3, <1>4

LEMMA EnterStep == ASSUME IInv, NEW p \in Ranks, Enter(p) PROVE IInv'
<1>1. Does(p, "collective")
  BY DEF Enter, At, Done, Does
<1>2. UNCHANGED <<program, at, queue, buf, posted, aborted>>
  BY DEF Enter
<1>3. PICK D : D = Contribution(p, at[p])
  OBVIOUS
<1>4. D \in SUBSET (Ranks \X Nat) /\ Begun(D)
  BY <1>1, <1>3, DoesFacts, Contributed
<1>5. entered' = [entered EXCEPT ![p] = Append(@, D)]
  BY <1>3 DEF Enter
<1>6. Domains' /\ \A q \in Ranks \ {p} : todo'[q] = todo[q] /\ entered'[q] = entered[q]
  BY <1>1, <1>2, <1>5 DEF IInv, Domains, Does
<1>7. PICK e : e = entered[p] /\ e \in Seq(SUBSET (Ranks \X Nat))
        /\ \A n \in DOMAIN e : Begun(e[n])
  BY DEF IInv, Memory
<1>8. /\ entered'[p] = Append(e, D) /\ entered'[p] \in Seq(SUBSET (Ranks \X Nat))
      /\ entered'[p] # <<>>
  <2>1. entered'[p] = Append(e, D)
    BY <1>5, <1>7 DEF IInv, Domains
  <2>2. QED
    BY <1>4, <1>7, <2>1
<1>9. Local(p)'
  BY <1>1, <1>2, <1>8, DoesLocal
<1>10. at[p] <= at'[p]
  BY <1>2 DEF IInv, Domains
<1>11. Memory(p)'
  <2>1. PICK f : f = Append(e, D)
    OBVIOUS
  <2>2. ASSUME NEW n \in DOMAIN f PROVE Begun(f[n])
    <3>1. (n \in DOMAIN e /\ f[n] = e[n]) \/ f[n] = D
      BY <1>7, <2>1, <2>2
    <3>2. QED
      BY <1>4, <1>7, <3>1
  <2>3. \A E : Begun(E) => Begun(E)'
    BY <1>2 DEF Begun
  <2>4. \A n \in DOMAIN f : Begun(f[n])'
    BY <2>2, <2>3
  <2>5. entered'[p] = f /\ f \in Seq(SUBSET (Ranks \X Nat))
    BY <1>8, <2>1
  <2>6. PICK b, s : b = buf[p] /\ s = posted[p]
    OBVIOUS
  <2>7. /\ b \in [Buffers(p) -> SUBSET (Ranks \X Nat)] /\ \A x \in Buffers(p) : Begun(b[x])
        /\ \A n \in DOMAIN s : Begun(s[n].data)
    BY <2>6 DEF IInv, Memory
  <2>8. (\A x \in Buffers(p) : Begun(b[x])') /\ \A n \in DOMAIN s : Begun(s[n].data)'
    BY <2>3, <2>7
  <2>9. buf'[p] = b /\ posted'[p] = s /\ Buffers(p)' = Buffers(p)
    BY <1>2, <2>6 DEF Buffers, Calls
  <2>10. QED
    BY <2>4, <2>5, <2>7, <2>8, <2>9 DEF Memory
<1>12. QED
  BY <1>2, <1>6, <1>9, <1>10, <1>11, Alone

LEMMA MemoryIs ==
  ASSUME program' = program, at' = at, NEW p \in Ranks, NEW b, NEW e, NEW s,
         buf'[p] = b, entered'[p] = e, posted'[p] = s,
         b \in [Buffers(p) -> SUBSET (Ranks \X Nat)], \A x \in Buffers(p) : Begun(b[x]),
         e \in Seq(SUBSET (Ranks \X Nat)), \A n \in DOMAIN e : Begun(e[n]),
         \A n \in DOMAIN s : Begun(s[n].data)
  PROVE  Memory(p)'
<1>1. \A D : Begun(D) => Begun(D)'
  BY DEF Begun
<1>2. /\ \A x \in Buffers(p) : Begun(b[x])'
      /\ \A n \in DOMAIN e : Begun(e[n])'
      /\ \A n \in DOMAIN s : Begun(s[n].data)'
  BY <1>1
<1>3. Buffers(p)' = Buffers(p)
  BY DEF Buffers, Calls
<1>4. QED
  BY <1>2, <1>3 DEF Memory

LEMMA FromRanks ==
  ASSUME program \in Programs, NEW p \in Ranks, NEW i \in Calls(p)
  PROVE  /\ Promise!From(p, i) \subseteq Ranks /\ Promise!Subject(p, i) \in Calls(p)
         /\ program[p][i].fn = "barrier" => Promise!From(p, i) = {}
         /\ program[p][i].fn \notin Promise!PointToPoint =>
              Promise!From(p, i) \subseteq Promise!Needed(p, i)
<1>1. PICK c : c = program[p][i] /\ c \in CallRecords
  BY Programmed
<1>2. c.root \in Ranks /\ c.peer \in Ranks
  BY <1>1 DEF CallRecords
<1>3. c.fn = "wait" => c.of \in Calls(p)
  BY <1>1, Programmed
<1>4. c.fn = "wait" => program[p][c.of].peer \in Ranks
  BY <1>3, Programmed DEF CallRecords
<1>5. Promise!From(p, i) \subseteq Ranks
  BY <1>1, <1>2, <1>4 DEF Promise!From
<1>6. Promise!Subject(p, i) \in Calls(p)
  BY <1>1, <1>3 DEF Promise!Subject
<1>7. ASSUME c.fn = "barrier" PROVE Promise!From(p, i) = {}
  BY <1>1, <1>7 DEF Promise!From, Promise!Gathers, Promise!Broadcasts, Promise!Reductions,
     Promise!InclusiveScans, Promise!ExclusiveScans, Promise!Receivers, Promise!Posts
<1>8. ASSUME c.fn \notin Promise!PointToPoint PROVE Promise!From(p,
             i) \subseteq Promise!Needed(p, i)
  <2>1. c.fn \notin {"send", "wait"}
    BY <1>8 DEF Promise!PointToPoint, Promise!Senders
  <2>2. QED
    BY <1>1, <1>7, <2>1 DEF Promise!Needed
<1>9. QED
  BY <1>1, <1>5, <1>6, <1>7, <1>8

LEMMA LeaveStep == ASSUME IInv, NEW p \in Ranks, Leave(p) PROVE IInv'
<1>1. Does(p, "leave")
  BY DEF Leave, At, Done, Does
<1>2. UNCHANGED <<program, at, queue, entered, posted, aborted>>
  BY DEF Leave
<1>3. PICK i, n, from : i = at[p] /\ n = Len(entered[p]) /\ from = Promise!From(p, i)
  OBVIOUS
<1>4. /\ \A q \in Promise!Needed(p, i) : Len(entered[q]) >= n
      /\ buf' = IF from = {} THEN buf
                ELSE [buf EXCEPT ![p][RecvBuffer(p, i)] = UNION {entered[q][n] : q \in from}]
  BY <1>3 DEF Leave
<1>5. i \in Calls(p) /\ program[p][i].fn \notin Promise!PointToPoint
  <2>1. i \in Calls(p) /\ Current(p) = program[p][i]
    BY <1>1, <1>3, DoesFacts
  <2>2. PICK c, t : c = Current(p) /\ t = todo[p]
    OBVIOUS
  <2>3. Ordered(c, t) /\ t # <<>> /\ t[1] = "leave"
    BY <1>1, <2>2, Here DEF Does
  <2>4. 1 \in DOMAIN t
    BY <2>3, TailOrdered DEF Ordered
  <2>5. QED
    BY <2>1, <2>2, <2>3, <2>4 DEF Ordered
<1>6. n \in Nat /\ n > 0
  <2>1. entered[p] # <<>> /\ entered[p] \in Seq(SUBSET (Ranks \X Nat))
    BY <1>1 DEF IInv, Local, Tasks, Memory, Does
  <2>2. QED
    BY <1>3, <2>1
<1>7. from \subseteq Ranks /\ from \subseteq Promise!Needed(p, i)
  BY <1>3, <1>5, FromRanks DEF IInv, Domains
<1>8. ASSUME NEW q \in from PROVE entered[q][n] \in SUBSET (Ranks \X Nat) /\ Begun(entered[q][n])
  <2>1. PICK e : e = entered[q] /\ e \in Seq(SUBSET (Ranks \X Nat))
          /\ \A m \in DOMAIN e : Begun(e[m])
    BY <1>7 DEF IInv, Memory
  <2>2. Len(e) >= n
    BY <1>4, <1>7, <2>1
  <2>3. n \in DOMAIN e
    BY <1>6, <2>1, <2>2
  <2>4. QED
    BY <2>1, <2>3
<1>9. PICK D : D = UNION {entered[q][n] : q \in from}
  OBVIOUS
<1>10. D \in SUBSET (Ranks \X Nat) /\ Begun(D)
  BY <1>8, <1>9 DEF Begun
<1>11. PICK b0 : b0 = RecvBuffer(p, i) /\ b0 \in Buffers(p)
  BY <1>5, Contributed
<1>12. buf' = buf \/ buf' = [buf EXCEPT ![p][b0] = D]
  BY <1>4, <1>9, <1>11
<1>13. Domains' /\ \A q \in Ranks \ {p} : todo'[q] = todo[q] /\ buf'[q] = buf[q]
  BY <1>1, <1>2, <1>12 DEF IInv, Domains, Does
<1>14. Local(p)'
  BY <1>1, <1>2, DoesLocal
<1>15. at[p] <= at'[p]
  BY <1>2 DEF IInv, Domains
<1>16. Memory(p)'
  <2>1. PICK b : b = buf'[p]
    OBVIOUS
  <2>2. b = buf[p] \/ b = [buf[p] EXCEPT ![b0] = D]
    BY <1>12, <2>1 DEF IInv, Domains
  <2>3. buf[p] \in [Buffers(p) -> SUBSET (Ranks \X Nat)] /\ \A x \in Buffers(p) : Begun(buf[p][x])
    BY DEF IInv, Memory
  <2>4. b \in [Buffers(p) -> SUBSET (Ranks \X Nat)] /\ \A x \in Buffers(p) : Begun(b[x])
    BY <1>10, <1>11, <2>2, <2>3
  <2>5. Memory(p)
    BY DEF IInv
  <2>6. QED
    BY <1>2, <2>1, <2>4, <2>5, MemoryIs DEF Memory
<1>17. QED
  BY <1>2, <1>13, <1>14, <1>15, <1>16, Alone

LEMMA MessageStep == ASSUME IInv, NEW p \in Ranks, Message(p) PROVE IInv'
<1>1. Does(p, "message")
  BY DEF Message, At, Done, Does
<1>2. UNCHANGED <<program, at, queue, buf, entered, aborted>>
  BY DEF Message
<1>3. PICK i, c : i = at[p] /\ c = Current(p)
  OBVIOUS
<1>4. /\ i \in Calls(p) /\ c = program[p][i] /\ c \in CallRecords /\ i \in Nat /\ i \in 1 .. at[p]
  BY <1>1, <1>3, DoesFacts, Here DEF Does
<1>5. PICK r : /\ r \in MessageRecords /\ r.call = i /\ Begun(r.data)
               /\ r.kind = "send" <=> c.fn \in Promise!Senders
               /\ posted' = [posted EXCEPT ![p] = Append(@, r)]
  <2>1. PICK sends, lost :
          /\ sends = (c.fn \in Promise!Senders)
          /\ lost \in BOOLEAN
          /\ posted' = [posted EXCEPT ![p] = Append(@,
               [kind |-> IF sends THEN "send" ELSE "recv", peer |-> c.peer, tag |-> Tag(c),
                call |-> i, data |-> Contribution(p, i), matched |-> FALSE,
                lost |-> lost, open |-> TRUE])]
    BY <1>3 DEF Message
  <2>2. PICK D : D = Contribution(p, i) /\ D \in SUBSET (Ranks \X Nat) /\ Begun(D)
    BY <1>4, Contributed
  <2>3. c.peer \in Ranks /\ Tag(c) \in Nat
    BY <1>4 DEF CallRecords, Tag, POINTTOPOINT_TAG
  <2>4. PICK r : r = [kind |-> IF sends THEN "send" ELSE "recv", peer |-> c.peer, tag |-> Tag(c),
                call |-> i, data |-> D, matched |-> FALSE, lost |-> lost, open |-> TRUE]
    OBVIOUS
  <2>5. r \in MessageRecords
    BY <1>4, <2>1, <2>2, <2>3, <2>4 DEF MessageRecords
  <2>6. r.call = i /\ r.data = D /\ (r.kind = "send" <=> sends)
    BY <2>4
  <2>7. QED
    BY <2>1, <2>2, <2>4, <2>5, <2>6
<1>6. PICK s : s = posted[p] /\ s \in Seq(MessageRecords)
  BY DEF IInv, Local, Posted
<1>7. PICK u : u = Append(s, r)
  OBVIOUS
<1>8. posted'[p] = u /\ DOMAIN posted' = Ranks /\ \A q \in Ranks \ {p} : posted'[q] = posted[q]
  BY <1>5, <1>6, <1>7 DEF IInv, Domains
<1>9. u \in Seq(MessageRecords)
  BY <1>5, <1>6, <1>7
<1>10. ASSUME NEW n \in DOMAIN u PROVE (n \in DOMAIN s /\ u[n] = s[n]) \/ (n = Len(s) + 1
              /\ u[n] = r)
  BY <1>5, <1>6, <1>7, <1>10
<1>11. Domains' /\ \A q \in Ranks \ {p} : todo'[q] = todo[q]
  BY <1>1, <1>2, <1>8 DEF IInv, Domains, Does
<1>12. ASSUME NEW n \in DOMAIN s, NEW m, m = s[n] PROVE Sent(p, m)' /\ m.call # i
  <2>1. Sent(p, m)
    BY <1>6, <1>12 DEF IInv, Local, Posted
  <2>2. PICK j : j = m.call
    OBVIOUS
  <2>3. at'[p] = at[p] /\ Left(p) = {"message"} \union Left(p)'
    BY <1>1, DoesFacts
  <2>4. m.open => Open(p, j)'
    BY <1>1, <1>2, <1>6, <1>12, <2>2, DoesOpen
  <2>5. QED
    BY <1>2, <1>3, <2>1, <2>2, <2>3, <2>4 DEF Sent
<1>13. Sent(p, r)'
  <2>1. i = at'[p] /\ program'[p][i] = c /\ Calls(p)' = Calls(p)
    BY <1>2, <1>3, <1>4 DEF Calls
  <2>2. PICK t : t = todo[p] /\ Ordered(c, t) /\ t # <<>> /\ t[1] = "message" /\ 1 \in DOMAIN t
    <3>1. Ordered(Current(p), todo[p]) /\ todo[p] # <<>> /\ todo[p][1] = "message"
      BY <1>1, Here DEF Does
    <3>2. 1 \in DOMAIN todo[p]
      BY <3>1, TailOrdered DEF Ordered
    <3>3. QED
      BY <1>3, <3>1, <3>2
  <2>3. c.fn \in Messages
    BY <2>2 DEF Ordered
  <2>4. "message" \notin Left(p)'
    BY <1>1, DoesFacts
  <2>5. Open(p, i)'
    <3>1. CASE c.fn \notin Promise!Posts
      <4>1. todo'[p] # <<>> /\ Head(todo'[p]) = "finish"
        BY <1>1, <1>3, <3>1, DoesFacts
      <4>2. QED
        BY <2>1, <3>1, <4>1 DEF Open
    <3>2. CASE c.fn \in Promise!Posts
      <4>1. ASSUME NEW w \in Calls(p), WaitsFor(program[p], w, i), Over(p, w)' PROVE FALSE
        <5>1. i \in 1 .. w - 1
          BY <4>1, Programmed DEF WaitsFor, IInv, Domains
        <5>2. w \in 1 .. i
          BY <2>1, <4>1 DEF Over
        <5>3. QED
          BY <5>1, <5>2
      <4>2. queue'[p] = <<>>
        <5>1. "fence" \notin Left(p) /\ c.fn \notin Unfenced
          <6>1. c.fn \notin Unfenced
            BY <3>2 DEF Promise!Posts, Unfenced
          <6>2. "message" \in InMpi /\ Current(p).fn \notin Unfenced
            BY <1>3, <6>1 DEF InMpi
          <6>3. QED
            BY <1>1, <6>1, <6>2, DoesFacts
        <5>2. todo[p] # <<>> /\ Head(todo[p]) \notin Enqueued /\ Drained(p)
          BY <1>1 DEF Does, Enqueued, IInv, Local
        <5>3. QED
          BY <1>2, <1>3, <5>1, <5>2 DEF Drained
      <4>3. QED
        BY <1>2, <2>1, <3>2, <4>1, <4>2 DEF Open
    <3>3. QED
      BY <3>1, <3>2
  <2>6. QED
    BY <1>2, <1>4, <1>5, <2>1, <2>3, <2>4, <2>5 DEF Sent
<1>14. Posted(p)'
  <2>1. ASSUME NEW n \in DOMAIN u, NEW m, m = u[n] PROVE Sent(p, m)'
    BY <1>10, <1>12, <1>13, <2>1
  <2>2. ASSUME NEW m \in DOMAIN u, NEW n \in DOMAIN u, u[m].call = u[n].call PROVE m = n
    <3>1. \A k \in DOMAIN s : s[k].call # i
      BY <1>12
    <3>2. \A k, l \in DOMAIN s : s[k].call = s[l].call => k = l
      BY <1>6 DEF IInv, Local, Posted
    <3>3. r.call = i
      BY <1>5
    <3>4. QED
      BY <1>10, <2>2, <3>1, <3>2, <3>3
  <2>3. \A n \in DOMAIN u : Sent(p, u[n])'
    BY <2>1
  <2>4. QED
    BY <1>8, <1>9, <2>2, <2>3 DEF Posted
<1>15. Local(p)'
  <2>1. Tasks(p)'
    BY <1>1, DoesTasks
  <2>2. Drained(p)'
    BY <1>1, <1>2, DoesDrained
  <2>3. Kernels(p)'
    BY <1>1, <1>2, DoesKernels
  <2>4. QED
    BY <1>14, <2>1, <2>2, <2>3 DEF Local
<1>16. at[p] <= at'[p]
  BY <1>2 DEF IInv, Domains
<1>17. Memory(p)'
  <2>1. ASSUME NEW n \in DOMAIN u PROVE Begun(u[n].data)
    <3>1. \A k \in DOMAIN s : Begun(s[k].data)
      BY <1>6 DEF IInv, Memory
    <3>2. QED
      BY <1>5, <1>10, <3>1
  <2>2. Memory(p)
    BY DEF IInv
  <2>3. QED
    BY <1>2, <1>8, <2>1, <2>2, MemoryIs DEF Memory
<1>18. QED
  BY <1>2, <1>8, <1>11, <1>15, <1>16, <1>17, Alone

LEMMA FinishStep == ASSUME IInv, NEW p \in Ranks, Finish(p) PROVE IInv'
<1>1. Does(p, "finish")
  BY DEF Finish, At, Done, Does
<1>2. UNCHANGED <<program, at, queue, buf, entered, aborted>>
  BY DEF Finish
<1>3. PICK m \in DOMAIN posted[p] :
        /\ posted[p][m].call = Promise!Subject(p, at[p])
        /\ posted' = [posted EXCEPT ![p][m].open = FALSE]
  BY DEF Finish
<1>4. PICK s : /\ s = posted[p] /\ s \in Seq(MessageRecords) /\ m \in DOMAIN s
               /\ \A k, l \in DOMAIN s : s[k].call = s[l].call => k = l
  BY DEF IInv, Local, Posted
<1>5. PICK u : u = [s EXCEPT ![m].open = FALSE]
  OBVIOUS
<1>6. posted'[p] = u /\ DOMAIN posted' = Ranks /\ \A q \in Ranks \ {p} : posted'[q] = posted[q]
  BY <1>3, <1>4, <1>5 DEF IInv, Domains
<1>7. /\ u \in Seq(MessageRecords) /\ DOMAIN u = DOMAIN s
      /\ \A n \in DOMAIN s : n # m => u[n] = s[n]
      /\ u[m] = [s[m] EXCEPT !.open = FALSE] /\ s[m] \in MessageRecords
  <2>1. s[m] \in MessageRecords
    BY <1>4
  <2>2. [s[m] EXCEPT !.open = FALSE] \in MessageRecords
    BY <2>1 DEF MessageRecords
  <2>3. QED
    BY <1>4, <1>5, <2>1, <2>2
<1>8. /\ u[m].call = s[m].call /\ u[m].kind = s[m].kind /\ u[m].data = s[m].data
      /\ ~ u[m].open
  BY <1>7 DEF MessageRecords
<1>9. Domains' /\ \A q \in Ranks \ {p} : todo'[q] = todo[q]
  BY <1>1, <1>2, <1>6 DEF IInv, Domains, Does
<1>10. ASSUME NEW n \in DOMAIN u, NEW r, r = u[n] PROVE Sent(p, r)'
  <2>1. PICK o : o = s[n] /\ Sent(p, o)
    BY <1>4, <1>7, <1>10 DEF IInv, Local, Posted
  <2>2. PICK j : j = o.call
    OBVIOUS
  <2>3. at'[p] = at[p] /\ Left(p) = {"finish"} \union Left(p)'
    BY <1>1, DoesFacts
  <2>4. r.call = j /\ r.kind = o.kind
    BY <1>7, <1>8, <1>10, <2>1, <2>2
  <2>5. r.open => Open(p, j)'
    <3>1. CASE n = m
      BY <1>8, <1>10, <3>1
    <3>2. CASE n # m
      <4>1. r = o
        BY <1>7, <1>10, <2>1, <3>2
      <4>2. j # Promise!Subject(p, at[p])
        BY <1>3, <1>4, <1>7, <2>1, <2>2, <3>2
      <4>3. n \in DOMAIN posted[p] /\ posted[p][n] = o
        BY <1>4, <1>7, <2>1
      <4>4. o.open => Open(p, j)'
        BY <1>1, <1>2, <2>2, <4>2, <4>3, DoesOpen
      <4>5. QED
        BY <4>1, <4>4
    <3>3. QED
      BY <3>1, <3>2
  <2>6. QED
    BY <1>2, <2>1, <2>2, <2>3, <2>4, <2>5 DEF Sent
<1>11. Posted(p)'
  <2>1. \A k \in DOMAIN s : u[k].call = s[k].call
    BY <1>7, <1>8
  <2>2. \A k, l \in DOMAIN u : u[k].call = u[l].call => k = l
    BY <1>4, <1>7, <2>1
  <2>3. \A n \in DOMAIN u : Sent(p, u[n])'
    BY <1>10
  <2>4. QED
    BY <1>6, <1>7, <2>2, <2>3 DEF Posted
<1>12. Local(p)'
  <2>1. Tasks(p)'
    BY <1>1, DoesTasks
  <2>2. Drained(p)'
    BY <1>1, <1>2, DoesDrained
  <2>3. Kernels(p)'
    BY <1>1, <1>2, DoesKernels
  <2>4. QED
    BY <1>11, <2>1, <2>2, <2>3 DEF Local
<1>13. at[p] <= at'[p]
  BY <1>2 DEF IInv, Domains
<1>14. Memory(p)'
  <2>1. \A k \in DOMAIN s : Begun(s[k].data)
    BY <1>4 DEF IInv, Memory
  <2>2. \A n \in DOMAIN u : Begun(u[n].data)
    BY <1>7, <1>8, <2>1
  <2>3. Memory(p)
    BY DEF IInv
  <2>4. QED
    BY <1>2, <1>6, <2>2, <2>3, MemoryIs DEF Memory
<1>15. QED
  BY <1>2, <1>6, <1>9, <1>12, <1>13, <1>14, Alone

LEMMA CallStep == ASSUME IInv, NEW p \in Ranks, Call(p) PROVE IInv'
<1>1. PICK i, c, t : i = at[p] + 1 /\ c = program[p][i] /\ t = Steps(p, c)
  OBVIOUS
<1>2. /\ todo[p] = <<>> /\ at[p] < Len(program[p]) /\ at' = [at EXCEPT ![p] = i]
      /\ todo' = [todo EXCEPT ![p] = t]
      /\ UNCHANGED <<program, buf, entered, posted, aborted>>
  BY <1>1 DEF Call
<1>3. at'[p] = i /\ todo'[p] = t
  BY <1>2 DEF IInv, Domains
<1>4. /\ IF c.fn \in Unfenced THEN queue' = queue
         ELSE queue' = [queue EXCEPT ![p] = Append(@, [op |-> "produce", call |-> i])]
  BY <1>1, <1>3 DEF Call, Unfenced
<1>5. /\ i \in Calls(p) /\ i \in Nat /\ at[p] \in Nat /\ i > 0 /\ i \in 1 .. i
      /\ c \in CallRecords /\ Len(program[p]) \in Nat
  <2>1. at[p] \in Nat /\ Len(program[p]) \in Nat /\ Calls(p) = 1 .. Len(program[p])
    BY Here
  <2>2. i \in Calls(p) /\ i \in Nat /\ i > 0 /\ i \in 1 .. i
    BY <1>1, <1>2, <2>1
  <2>3. QED
    BY <1>1, <2>1, <2>2, Programmed DEF IInv, Domains
<1>6. /\ Ordered(c, t) /\ t # <<>> /\ t[1] # "leave" /\ Head(t) = t[1] /\ t[1] \in Range(t)
      /\ c.fn \notin Unfenced => "fence" \in Range(t)
      /\ c.fn = "wait" => t[1] = "finish"
  <2>1. /\ Ordered(c, t) /\ t # <<>> /\ t[1] # "leave"
        /\ c.fn \notin Unfenced => \E l \in DOMAIN t : t[l] = "fence"
        /\ c.fn = "wait" => t[1] = "finish"
    BY <1>1, <1>5, StepsOrdered
  <2>2. PICK u : u = Tail(t)
    OBVIOUS
  <2>3. Head(t) = t[1] /\ t[1] \in Range(t)
    BY <2>1, <2>2, AfterFirst
  <2>4. QED
    BY <2>1, <2>3 DEF Range
<1>7. /\ Left(p) = {} /\ Left(p)' = Range(t) /\ Calls(p)' = Calls(p) /\ Current(p)' = c
  BY <1>1, <1>2, <1>3 DEF Left, Calls, Current, Range
<1>8. PICK k, K : /\ k = [op |-> "produce", call |-> i]
                  /\ K = [op : Enqueued \union {"produce"}, call : Nat] /\ k \in K
  <2>1. PICK k : k = [op |-> "produce", call |-> i]
    OBVIOUS
  <2>2. k \in [op : Enqueued \union {"produce"}, call : Nat]
    BY <1>5, <2>1
  <2>3. QED
    BY <2>1, <2>2
<1>9. queue[p] \in Seq(K) /\ queue \in [Ranks -> Seq(K)]
  BY <1>8 DEF IInv, Domains
<1>10. /\ queue'[p] = queue[p] \/ (c.fn \notin Unfenced /\ queue'[p] = Append(queue[p], k))
       /\ queue' \in [Ranks -> Seq(K)] /\ \A q \in Ranks \ {p} : queue'[q] = queue[q]
  <2>1. CASE c.fn \in Unfenced
    BY <1>4, <1>9, <2>1
  <2>2. CASE c.fn \notin Unfenced
    <3>1. Append(queue[p], k) \in Seq(K)
      BY <1>8, <1>9
    <3>2. queue' = [queue EXCEPT ![p] = Append(queue[p], k)]
      BY <1>4, <1>8, <2>2
    <3>3. QED
      BY <1>9, <2>2, <3>1, <3>2
  <2>3. QED
    BY <2>1, <2>2
<1>11. Domains' /\ \A q \in Ranks \ {p} : todo'[q] = todo[q] /\ at'[q] = at[q]
  BY <1>2, <1>5, <1>8, <1>10 DEF IInv, Domains
<1>12. at[p] <= at'[p]
  BY <1>1, <1>3, <1>5
<1>13. ASSUME NEW n \in DOMAIN queue'[p], NEW l, l = queue'[p][n]
       PROVE  (n \in DOMAIN queue[p] /\ l = queue[p][n]) \/ (c.fn \notin Unfenced /\ l = k)
  <2>1. CASE queue'[p] = queue[p]
    BY <1>13, <2>1
  <2>2. CASE c.fn \notin Unfenced /\ queue'[p] = Append(queue[p], k)
    BY <1>8, <1>9, <1>13, <2>2
  <2>3. QED
    BY <1>10, <2>1, <2>2
(* Of the calls before, all waits are over; this one is not, if it is one. *)
<1>14. /\ \A w : Over(p, w) <=> w \in 1 .. at[p]
       /\ \A w : Over(p, w) => Over(p, w)'
       /\ \A w : Over(p, w)' => Over(p, w) \/ (w = i /\ c.fn # "wait")
  <2>1. \A w : w \in 1 .. i <=> w \in 1 .. at[p] \/ w = i
    BY <1>1, <1>5
  <2>2. \A w : Over(p, w) <=> w \in 1 .. at[p]
    BY <1>7 DEF Over
  <2>3. \A w \in 1 .. at[p] : w # i
    BY <1>1, <1>5
  <2>4. \A w : Over(p, w)' <=> w \in 1 .. i /\ (w = i => "finish" \notin Range(t))
    BY <1>3, <1>7 DEF Over
  <2>5. QED
    BY <1>6, <2>1, <2>2, <2>3, <2>4
<1>15. Tasks(p)'
  <2>1. at'[p] \in 0 .. Len(program'[p]) /\ at'[p] # 0
    BY <1>1, <1>2, <1>3, <1>5
  <2>2. Ordered(Current(p)', todo'[p])
    BY <1>3, <1>6, <1>7
  <2>3. todo'[p] # <<>> /\ Head(todo'[p]) # "leave"
    BY <1>3, <1>6
  <2>4. QED
    BY <2>1, <2>2, <2>3 DEF Tasks
<1>16. Drained(p)'
  <2>1. c.fn \notin Unfenced => "fence" \in Left(p)'
    BY <1>6, <1>7
  <2>2. QED
    BY <1>7, <2>1 DEF Drained
<1>17. Kernels(p)'
  <2>1. ASSUME NEW n \in DOMAIN queue[p], NEW l, l = queue[p][n] PROVE Kernel(p, l)'
    <3>1. Kernel(p, l)
      BY <2>1 DEF IInv, Local, Kernels
    <3>2. l.call \in 1 .. at'[p]
      BY <1>1, <1>3, <1>5, <3>1 DEF Kernel
    <3>3. QED
      BY <1>2, <1>14, <3>1, <3>2 DEF Kernel
  <2>2. ASSUME c.fn \notin Unfenced PROVE Kernel(p, k)'
    BY <1>1, <1>2, <1>3, <1>5, <1>8, <2>2 DEF Kernel, Unfenced, Enqueued
  <2>3. ASSUME NEW n \in DOMAIN queue'[p], NEW l, l = queue'[p][n] PROVE Kernel(p, l)'
    BY <1>13, <2>1, <2>2, <2>3
  <2>4. QED
    BY <2>3 DEF Kernels
<1>18. Posted(p)'
  <2>1. ASSUME NEW n \in DOMAIN posted[p], NEW m, m = posted[p][n] PROVE Sent(p, m)'
    <3>1. Sent(p, m)
      BY <2>1 DEF IInv, Local, Posted
    <3>2. PICK j : j = m.call
      OBVIOUS
    <3>3. j \in 1 .. at[p] /\ j \in 1 .. at'[p] /\ j # at'[p] /\ j < i
      BY <1>1, <1>3, <1>5, <3>1, <3>2 DEF Sent
    <3>4. ASSUME m.open PROVE Open(p, j)'
      <4>1. Open(p, j) /\ program[p][j].fn \in Promise!Posts
        BY <1>2, <3>1, <3>2, <3>4 DEF Sent, Open
      <4>2. ASSUME NEW w \in Calls(p), WaitsFor(program[p], w, j) PROVE ~ Over(p, w)'
        <5>1. ~ Over(p, w)
          BY <4>1, <4>2 DEF Open
        <5>2. w = i => c.fn = "wait"
          BY <1>1, <4>2 DEF WaitsFor
        <5>3. QED
          BY <1>14, <5>1, <5>2
      <4>3. ASSUME NEW z \in DOMAIN queue'[p], NEW l, l = queue'[p][z]
            PROVE  l.call > j \/ (l.call = j /\ l.op = "consume")
        <5>1. CASE z \in DOMAIN queue[p] /\ l = queue[p][z]
          BY <4>1, <5>1 DEF Open
        <5>2. CASE l = k
          BY <1>5, <1>8, <3>3, <5>2
        <5>3. QED
          BY <1>13, <4>3, <5>1, <5>2
      <4>4. QED
        BY <1>2, <1>7, <4>1, <4>2, <4>3 DEF Open
    <3>5. QED
      BY <1>2, <3>1, <3>2, <3>3, <3>4 DEF Sent
  <2>2. Posted(p)
    BY DEF IInv, Local
  <2>3. QED
    BY <1>2, <2>1, <2>2 DEF Posted
<1>19. Local(p)'
  BY <1>15, <1>16, <1>17, <1>18 DEF Local
<1>20. Memory(p)'
  <2>1. \A r \in Ranks : at[r] <= at'[r]
    <3>1. \A r \in Ranks : at[r] \in Nat
      BY DEF IInv, Domains
    <3>2. QED
      BY <1>11, <1>12, <3>1
  <2>2. QED
    BY <1>2, <1>11, <2>1, MemoryFrame
<1>21. QED
  BY <1>2, <1>10, <1>11, <1>12, <1>19, <1>20, Alone

(* Memory that kernels and MPI use is there.                               *)
LEMMA KernelMemory ==
  ASSUME IInv, NEW p \in Ranks, NEW k, Kernel(p, k)
  PROVE  /\ k.call \in Calls(p) /\ Promise!Subject(p, k.call) \in Calls(p)
         /\ Reads(p, k) \subseteq Buffers(p)
<1>1. PICK i, j : i = k.call /\ j = Promise!Subject(p, i)
  OBVIOUS
<1>2. i \in Calls(p)
  BY <1>1, Here DEF Kernel
<1>3. j \in Calls(p)
  BY <1>1, <1>2, FromRanks DEF IInv, Domains
<1>4. /\ OwnView(program[p][i]) \in Buffers(p) /\ RecvView(program[p][j]) \in Buffers(p)
      /\ <<"packed rv", j>> \in Buffers(p)
  <2>1. OwnView(program[p][i]) \in Buffers(p)
    BY <1>2, Contributed
  <2>2. RecvView(program[p][j]) \in Buffers(p)
    BY <1>3, Contributed
  <2>3. <<"packed rv", j>> \in Buffers(p)
    BY <1>3 DEF Buffers
  <2>4. QED
    BY <2>1, <2>2, <2>3
<1>5. Reads(p, k) \subseteq {OwnView(program[p][i]), RecvView(program[p][j]), <<"packed rv", j>>}
  BY <1>1 DEF Reads
<1>6. QED
  BY <1>1, <1>2, <1>3, <1>4, <1>5

LEMMA RunStep == ASSUME IInv, NEW p \in Ranks, Run(p) PROVE IInv'
<1>1. /\ queue[p] # <<>> /\ queue' = [queue EXCEPT ![p] = Tail(@)]
      /\ UNCHANGED <<program, at, todo, entered, posted, aborted>>
  BY DEF Run
<1>21. PICK k : k = Head(queue[p])
  OBVIOUS
<1>22. PICK c, D : c = program[p][k.call] /\ D = UNION {buf[p][b] : b \in Reads(p, k)}
  OBVIOUS
<1>2. buf' = [buf EXCEPT ![p] = [b \in Buffers(p) |->
              IF b \notin Writes(p, k) THEN buf[p][b]
              ELSE IF k.op # "produce" THEN D
              ELSE IF Contributes(p, c) /\ b = OwnView(c) THEN {<<p, k.call>>} ELSE {}]]
  <2>1. buf' = [buf EXCEPT ![p] = [b \in Buffers(p) |->
              IF b \notin Writes(p, k) THEN buf[p][b]
              ELSE IF k.op # "produce" THEN UNION {buf[p][b0] : b0 \in Reads(p, k)}
              ELSE IF Contributes(p, program[p][k.call]) /\ b = OwnView(program[p][k.call])
                   THEN {<<p, k.call>>} ELSE {}]]
    BY <1>21, ZenonT(30) DEF Run
  <2>2. QED
    BY <1>22, <2>1, ZenonT(30)
<1>3. PICK K : K = [op : Enqueued \union {"produce"}, call : Nat] /\ queue \in [Ranks -> Seq(K)]
  BY DEF IInv, Domains
<1>4. /\ queue[p] \in Seq(K) /\ queue'[p] = Tail(queue[p]) /\ queue' \in [Ranks -> Seq(K)]
      /\ \A q \in Ranks \ {p} : queue'[q] = queue[q]
      /\ 1 \in DOMAIN queue[p] /\ k = queue[p][1]
  <2>1. PICK u : u = queue[p] /\ u \in Seq(K) /\ u # <<>>
    BY <1>1, <1>3
  <2>2. Tail(u) \in Seq(K) /\ 1 \in DOMAIN u /\ Head(u) = u[1]
    BY <2>1
  <2>3. queue' = [queue EXCEPT ![p] = Tail(u)]
    BY <1>1, <2>1
  <2>4. /\ queue'[p] = Tail(u) /\ queue' \in [Ranks -> Seq(K)]
        /\ \A q \in Ranks \ {p} : queue'[q] = queue[q]
    BY <1>3, <2>2, <2>3
  <2>5. QED
    BY <1>21, <2>1, <2>2, <2>4
<1>5. \A n \in DOMAIN queue'[p] : \E m \in DOMAIN queue[p] : queue'[p][n] = queue[p][m]
  <2>1. ASSUME NEW n \in DOMAIN queue'[p]
        PROVE  n + 1 \in DOMAIN queue[p] /\ queue'[p][n] = queue[p][n + 1]
    BY <1>4, <2>1
  <2>2. QED
    BY <2>1
<1>6. Kernel(p, k)
  BY <1>4 DEF IInv, Local, Kernels
<1>7. /\ Left(p)' = Left(p) /\ Current(p)' = Current(p) /\ Calls(p)' = Calls(p)
      /\ \A w : Over(p, w)' <=> Over(p, w)
  BY <1>1 DEF Left, Current, Calls, Over
<1>8. Tasks(p)' /\ Drained(p)'
  BY <1>1, <1>7 DEF IInv, Local, Tasks, Drained
<1>9. Kernels(p)'
  <2>1. \A l : Kernel(p, l)' <=> Kernel(p, l)
    BY <1>1, <1>7 DEF Kernel
  <2>2. QED
    BY <1>5, <2>1 DEF IInv, Local, Kernels
<1>10. Posted(p)'
  <2>1. \A i : Open(p, i) => Open(p, i)'
    BY <1>1, <1>5, <1>7 DEF Open
  <2>2. \A m : Sent(p, m) => Sent(p, m)'
    BY <1>1, <1>7, <2>1 DEF Sent
  <2>3. QED
    BY <1>1, <2>2 DEF IInv, Local, Posted
<1>11. Local(p)'
  BY <1>8, <1>9, <1>10 DEF Local
<1>12. Domains' /\ \A q \in Ranks \ {p} : buf'[q] = buf[q]
  BY <1>1, <1>2, <1>3, <1>4 DEF IInv, Domains
<1>13. D \in SUBSET (Ranks \X Nat) /\ Begun(D)
  <2>1. ASSUME NEW b \in Reads(p, k) PROVE buf[p][b] \in SUBSET (Ranks \X Nat) /\ Begun(buf[p][b])
    BY <1>6, KernelMemory DEF IInv, Memory
  <2>2. QED
    BY <1>22, <2>1 DEF Begun
<1>23. PICK x : x = {<<p, k.call>>}
  OBVIOUS
<1>14. x \in SUBSET (Ranks \X Nat) /\ Begun(x)
  <2>1. PICK i : i = k.call /\ i \in 1 .. at[p]
    BY <1>6 DEF Kernel
  <2>2. at[p] \in Nat
    BY Here
  <2>3. i \in Nat
    BY <2>1, <2>2
  <2>4. <<p, i>> \in Ranks \X Nat /\ <<p, i>>[1] = p /\ <<p, i>>[2] = i
    BY <2>3
  <2>5. Begun({<<p, i>>})
    BY <2>1, <2>4 DEF Begun
  <2>6. {<<p, i>>} \in SUBSET (Ranks \X Nat)
    BY <2>4
  <2>7. x = {<<p, i>>}
    BY <1>23, <2>1
  <2>8. QED
    BY <2>5, <2>6, <2>7
<1>24. PICK e : e = {}
  OBVIOUS
<1>15. e \in SUBSET (Ranks \X Nat) /\ Begun(e)
  BY <1>24 DEF Begun
<1>16. PICK f : f = buf'[p]
  OBVIOUS
<1>17. f \in [Buffers(p) -> SUBSET (Ranks \X Nat)] /\ \A b \in Buffers(p) : Begun(f[b])
  <2>1. f = [b \in Buffers(p) |->
              IF b \notin Writes(p, k) THEN buf[p][b]
              ELSE IF k.op # "produce" THEN D
              ELSE IF Contributes(p, c) /\ b = OwnView(c) THEN x ELSE e]
    BY <1>2, <1>16, <1>23, <1>24 DEF IInv, Domains
  <2>2. \A b \in Buffers(p) : f[b] = buf[p][b] \/ f[b] = D \/ f[b] = x \/ f[b] = e
    BY <2>1
  <2>3. \A b \in Buffers(p) : buf[p][b] \in SUBSET (Ranks \X Nat) /\ Begun(buf[p][b])
    BY DEF IInv, Memory
  <2>4. \A b \in Buffers(p) : f[b] \in SUBSET (Ranks \X Nat) /\ Begun(f[b])
    BY <1>13, <1>14, <1>15, <2>2, <2>3
  <2>5. f = [b \in Buffers(p) |-> f[b]]
    BY <2>1
  <2>6. QED
    BY <2>4, <2>5
<1>18. Memory(p)'
  <2>1. Memory(p)
    BY DEF IInv
  <2>2. QED
    BY <1>1, <1>16, <1>17, <2>1, MemoryIs DEF Memory
<1>19. at[p] <= at'[p]
  BY <1>1 DEF IInv, Domains
<1>20. QED
  BY <1>1, <1>4, <1>11, <1>12, <1>18, <1>19, Alone

-----------------------------------------------------------------------------
(* A message meets its receive.                                            *)
Marks(S, T) ==
  /\ DOMAIN T = Ranks
  /\ \A x \in Ranks :
       /\ S[x] \in Seq(MessageRecords) /\ T[x] \in Seq(MessageRecords)
          /\ DOMAIN T[x] = DOMAIN S[x]
       /\ \A n \in DOMAIN S[x] :
            /\ T[x][n].call = S[x][n].call /\ T[x][n].kind = S[x][n].kind
            /\ T[x][n].open = S[x][n].open /\ T[x][n].data = S[x][n].data

LEMMA Marking ==
  ASSUME NEW S, DOMAIN S = Ranks, \A x \in Ranks : S[x] \in Seq(MessageRecords),
         NEW p \in Ranks, NEW s \in DOMAIN S[p], NEW T, T = [S EXCEPT ![p][s].matched = TRUE]
  PROVE  Marks(S, T)
<1>1. PICK u, r : u = S[p] /\ r = u[s] /\ u \in Seq(MessageRecords) /\ r \in MessageRecords
  OBVIOUS
<1>2. PICK v : v = [r EXCEPT !.matched = TRUE]
  OBVIOUS
<1>3. v \in MessageRecords /\ v.call = r.call /\ v.kind = r.kind /\ v.open = r.open
        /\ v.data = r.data
  BY <1>1, <1>2 DEF MessageRecords
<1>4. PICK w : w = [u EXCEPT ![s] = v]
  OBVIOUS
<1>5. /\ w \in Seq(MessageRecords) /\ DOMAIN w = DOMAIN u /\ w[s] = v
      /\ \A n \in DOMAIN u : n # s => w[n] = u[n]
  BY <1>1, <1>3, <1>4
<1>6. T = [S EXCEPT ![p] = w]
  BY <1>1, <1>2, <1>4
<1>7. DOMAIN T = Ranks /\ T[p] = w /\ \A x \in Ranks : x # p => T[x] = S[x]
  BY <1>6
<1>8. QED
  BY <1>1, <1>3, <1>5, <1>7 DEF Marks

LEMMA MatchStep == ASSUME IInv, NEW p \in Ranks, NEW q \in Ranks, Match(p, q) PROVE IInv'
<1>1. PICK s \in DOMAIN posted[p], r \in DOMAIN posted[q] :
        /\ posted' = [posted EXCEPT ![p][s].matched = TRUE, ![q][r].matched = TRUE]
        /\ buf' = [buf EXCEPT ![q][RecvBuffer(q, posted[q][r].call)] = posted[p][s].data]
  BY DEF Match, Waiting
<1>2. UNCHANGED <<program, at, todo, queue, entered, aborted>>
  BY DEF Match
<1>3. Marks(posted, posted')
  <2>1. PICK S, T : S = posted /\ T = [S EXCEPT ![p][s].matched = TRUE]
    OBVIOUS
  <2>2. DOMAIN S = Ranks /\ \A x \in Ranks : S[x] \in Seq(MessageRecords)
    BY <2>1 DEF IInv, Domains, Local, Posted
  <2>3. s \in DOMAIN S[p]
    BY <2>1
  <2>4. Marks(S, T)
    BY <2>1, <2>2, <2>3, Marking
  <2>5. DOMAIN T = Ranks /\ (\A x \in Ranks : T[x] \in Seq(MessageRecords)) /\ r \in DOMAIN T[q]
    BY <2>1, <2>4 DEF Marks
  <2>6. PICK U : U = [T EXCEPT ![q][r].matched = TRUE]
    OBVIOUS
  <2>7. Marks(T, U)
    BY <2>5, <2>6, Marking
  <2>8. posted' = U
    BY <1>1, <2>1, <2>6
  <2>9. Marks(S, U)
    BY <2>4, <2>7 DEF Marks
  <2>10. QED
    BY <2>1, <2>8, <2>9
<1>4. PICK b0, D : b0 = RecvBuffer(q, posted[q][r].call) /\ D = posted[p][s].data
  OBVIOUS
<1>5. b0 \in Buffers(q)
  <2>1. PICK m : m = posted[q][r] /\ Sent(q, m)
    BY DEF IInv, Local, Posted
  <2>2. m.call \in Calls(q)
    BY <2>1, Here DEF Sent
  <2>3. QED
    BY <1>4, <2>1, <2>2, Contributed
<1>6. D \in SUBSET (Ranks \X Nat) /\ Begun(D)
  <2>1. posted[p][s] \in MessageRecords /\ Begun(posted[p][s].data)
    BY DEF IInv, Local, Posted, Memory
  <2>2. QED
    BY <1>4, <2>1 DEF MessageRecords
<1>7. buf' = [buf EXCEPT ![q][b0] = D]
  BY <1>1, <1>4
<1>8. Domains'
  BY <1>2, <1>3, <1>7 DEF IInv, Domains, Marks
<1>9. ASSUME NEW x \in Ranks PROVE Local(x)' /\ Memory(x)'
  <2>1. Left(x)' = Left(x) /\ Current(x)' = Current(x) /\ Calls(x)' = Calls(x)
    BY <1>2 DEF Left, Current, Calls
  <2>2. \A w : Over(x, w)' <=> Over(x, w)
    BY <1>2, <2>1 DEF Over
  <2>3. Tasks(x)' /\ Drained(x)'
    BY <1>2, <2>1 DEF IInv, Local, Tasks, Drained
  <2>4. Kernels(x)'
    <3>1. \A k : Kernel(x, k)' <=> Kernel(x, k)
      BY <1>2, <2>2 DEF Kernel
    <3>2. QED
      BY <1>2, <3>1 DEF IInv, Local, Kernels
  <2>5. PICK S, T : S = posted[x] /\ T = posted'[x]
    OBVIOUS
  <2>6. /\ T \in Seq(MessageRecords) /\ DOMAIN T = DOMAIN S
        /\ \A n \in DOMAIN S : /\ T[n].call = S[n].call /\ T[n].kind = S[n].kind
                               /\ T[n].open = S[n].open /\ T[n].data = S[n].data
    BY <1>3, <2>5 DEF Marks
  <2>7. \A i : Open(x, i) => Open(x, i)'
    BY <1>2, <2>1, <2>2 DEF Open
  <2>8. ASSUME NEW n \in DOMAIN T, NEW m, m = T[n] PROVE Sent(x, m)'
    <3>1. PICK o : o = S[n] /\ Sent(x, o)
      BY <2>5, <2>6, <2>8 DEF IInv, Local, Posted
    <3>2. m.call = o.call /\ m.kind = o.kind /\ m.open = o.open
      BY <2>6, <2>8, <3>1
    <3>3. PICK i : i = o.call
      OBVIOUS
    <3>4. o.open => Open(x, i)'
      BY <2>7, <3>1, <3>3 DEF Sent
    <3>5. QED
      BY <1>2, <2>1, <3>1, <3>2, <3>3, <3>4 DEF Sent
  <2>9. Posted(x)'
    <3>1. \A k, l \in DOMAIN S : S[k].call = S[l].call => k = l
      BY <2>5 DEF IInv, Local, Posted
    <3>2. \A k, l \in DOMAIN T : T[k].call = T[l].call => k = l
      BY <2>6, <3>1
    <3>3. \A n \in DOMAIN T : Sent(x, T[n])'
      BY <2>8
    <3>4. QED
      BY <2>5, <2>6, <3>2, <3>3 DEF Posted
  <2>10. Memory(x)'
    <3>1. Memory(x)
      BY DEF IInv
    <3>2. \A n \in DOMAIN T : Begun(T[n].data)
      BY <2>5, <2>6, <3>1 DEF Memory
    <3>3. PICK b : b = buf'[x]
      OBVIOUS
    <3>4. b = buf[x] \/ (x = q /\ b = [buf[x] EXCEPT ![b0] = D])
      BY <1>7, <3>3 DEF IInv, Domains
    <3>5. buf[x] \in [Buffers(x) -> SUBSET (Ranks \X Nat)]
            /\ \A z \in Buffers(x) : Begun(buf[x][z])
      BY <3>1 DEF Memory
    <3>6. b \in [Buffers(x) -> SUBSET (Ranks \X Nat)] /\ \A z \in Buffers(x) : Begun(b[z])
      <4>1. CASE b = buf[x]
        BY <3>5, <4>1
      <4>2. CASE x = q /\ b = [buf[x] EXCEPT ![b0] = D]
        BY <1>5, <1>6, <3>5, <4>2
      <4>3. QED
        BY <3>4, <4>1, <4>2
    <3>7. QED
      BY <1>2, <2>5, <3>1, <3>2, <3>3, <3>6, MemoryIs DEF Memory
  <2>11. QED
    BY <2>3, <2>4, <2>9, <2>10 DEF Local
<1>10. QED
  BY <1>8, <1>9 DEF IInv

-----------------------------------------------------------------------------
LEMMA Start == ASSUME Init PROVE IInv
<1>1. /\ program \in Programs /\ at = [p \in Ranks |-> 0] /\ todo = [p \in Ranks |-> <<>>]
      /\ queue = [p \in Ranks |-> <<>>] /\ buf = [p \in Ranks |-> [b \in Buffers(p) |-> {}]]
      /\ entered = [p \in Ranks |-> <<>>] /\ posted = [p \in Ranks |-> <<>>] /\ aborted = FALSE
  BY DEF Init
<1>2. Domains
  <2>1. PICK K : K = [op : Enqueued \union {"produce"}, call : Nat]
    OBVIOUS
  <2>2. queue \in [Ranks -> Seq(K)]
    BY <1>1
  <2>3. QED
    BY <1>1, <2>1, <2>2 DEF Domains
<1>3. ASSUME NEW p \in Ranks PROVE Local(p) /\ Memory(p)
  <2>1. /\ at[p] = 0 /\ todo[p] = <<>> /\ queue[p] = <<>> /\ entered[p] = <<>> /\ posted[p] = <<>>
        /\ buf[p] = [b \in Buffers(p) |-> {}] /\ Len(program[p]) \in Nat
    BY <1>1, Programmed
  <2>2. Tasks(p)
    BY <2>1 DEF Tasks
  <2>3. Drained(p) /\ Kernels(p)
    BY <2>1 DEF Drained, Kernels
  <2>4. Posted(p)
    BY <2>1 DEF Posted
  <2>5. Begun({})
    BY DEF Begun
  <2>6. Memory(p)
    BY <2>1, <2>5 DEF Memory
  <2>7. QED
    BY <2>2, <2>3, <2>4, <2>6 DEF Local
<1>4. QED
  BY <1>2, <1>3 DEF IInv

LEMMA Stutters == ASSUME IInv, UNCHANGED vars PROVE IInv'
<1>1. UNCHANGED <<program, at, todo, queue, buf, entered, posted, aborted>>
  BY DEF vars
<1>2. Domains'
  BY <1>1 DEF IInv, Domains
<1>3. ASSUME NEW q \in Ranks PROVE Local(q)' /\ Memory(q)'
  BY <1>1, <1>2, Frame, MemoryKept
<1>4. QED
  BY <1>2, <1>3 DEF IInv

(* The invariant behind the theorems below.                                *)
THEOREM Invariance == Spec => []IInv
<1>1. Init => IInv
  BY Start
<1>2. IInv /\ [Next]_vars => IInv'
  <2> SUFFICES ASSUME IInv, [Next]_vars PROVE IInv'
    OBVIOUS
  <2>1. ASSUME NEW p \in Ranks, Step(p) PROVE IInv'
    BY <2>1, CallStep, CheckStep, FenceStep, EnqueueStep, EnterStep, MessageStep DEF Step
  <2>2. ASSUME NEW p \in Ranks, Leave(p) \/ Finish(p) \/ Run(p) PROVE IInv'
    BY <2>2, LeaveStep, FinishStep, RunStep
  <2>3. ASSUME NEW p \in Ranks, NEW q \in Ranks, Match(p, q) PROVE IInv'
    BY <2>3, MatchStep
  <2>4. CASE UNCHANGED vars
    BY <2>4, Stutters
  <2>5. QED
    BY <2>1, <2>2, <2>3, <2>4 DEF Next
<1>3. QED
  BY <1>1, <1>2, PTL DEF Spec

LEMMA Typed == ASSUME IInv PROVE TypeOK
<1>1. aborted \in BOOLEAN
  BY DEF IInv, Domains
<1>2. ASSUME NEW p \in Ranks
      PROVE  /\ at[p] \in 0 .. Len(program[p])
             /\ todo[p] # <<>> => at[p] > 0
  BY <1>2, Here DEF IInv, Local, Tasks
<1>3. ASSUME NEW p \in Ranks, NEW k \in Range(queue[p])
      PROVE  k.op \in {"produce", "pack", "unpack", "consume"} /\ k.call \in 1 .. at[p]
  BY <1>3 DEF IInv, Local, Kernels, Kernel, Enqueued, Range
<1>4. ASSUME NEW p \in Ranks, NEW b \in Buffers(p), NEW d \in buf[p][b]
      PROVE  d[1] \in Ranks /\ d[2] \in 1 .. at[d[1]]
  <2>1. d \in Ranks \X Nat /\ d[2] \in 1 .. at[d[1]]
    BY <1>4 DEF IInv, Memory, Begun
  <2>2. QED
    BY <2>1
<1>5. ASSUME NEW p \in Ranks, NEW m \in Range(posted[p])
      PROVE  /\ m.call \in 1 .. at[p] /\ m.peer \in Ranks
             /\ m.open /\ todo[p] = <<>> => program[p][m.call].fn \in Promise!Posts
  <2>1. m \in MessageRecords /\ Sent(p, m)
    BY <1>5 DEF IInv, Local, Posted, Range
  <2>2. m.open /\ todo[p] = <<>> => program[p][m.call].fn \in Promise!Posts
    BY <2>1 DEF Sent, Open
  <2>3. QED
    BY <2>1, <2>2 DEF Sent, MessageRecords
<1>6. QED
  BY <1>1, <1>2, <1>3, <1>4, <1>5 DEF TypeOK

(* Every variable has its type, whatever the ranks and the programs.       *)
THEOREM TypeCorrect == Spec => []TypeOK
<1>1. IInv => TypeOK
  BY Typed
<1>2. QED
  BY <1>1, Invariance, PTL

-----------------------------------------------------------------------------
(* Kernels and MPI.                                                        *)
LEMMA LeavesQuietly ==
  ASSUME IInv, NEW p \in Ranks, queue[p] # <<>>, todo[p] # <<>>, Head(todo[p]) \in InMpi
  PROVE  Current(p).fn \in Unfenced
<1>1. PICK c, t, u : c = Current(p) /\ t = todo[p] /\ u = Tail(t)
  OBVIOUS
<1>2. Ordered(c, t) /\ t # <<>> /\ t[1] = Head(t) /\ Head(t) \in InMpi
  BY <1>1, Here
<1>3. t[1] \in InMpi /\ c.fn \notin Unfenced => "fence" \notin Range(t)
  BY <1>1, <1>2, AfterFirst
<1>4. Drained(p) /\ Head(t) \notin Enqueued
  BY <1>2 DEF IInv, Local, InMpi, Enqueued
<1>5. QED
  BY <1>1, <1>2, <1>3, <1>4 DEF Drained, Left

(* While an operation is open no kernel is about its views.                *)
LEMMA OpenCalls ==
  ASSUME IInv, NEW p \in Ranks, NEW n \in DOMAIN posted[p], posted[p][n].open,
         NEW j, j = posted[p][n].call, queue[p] # <<>>
  PROVE  /\ Open(p, j) /\ j \in 1 .. at[p] /\ j \in Calls(p) /\ program[p][j].fn \in Promise!Posts
         /\ program[p][j].fn \notin Unfenced
<1>1. Open(p, j) /\ j \in 1 .. at[p] /\ program[p][j].fn \in Messages
  BY DEF IInv, Local, Posted, Sent
<1>2. j \in Calls(p)
  BY <1>1, Here
<1>3. program[p][j].fn \notin Unfenced
  BY <1>1 DEF Messages, Unfenced, Promise!Senders, Promise!Receivers
<1>4. ASSUME program[p][j].fn \notin Promise!Posts PROVE FALSE
  <2>1. j = at[p] /\ todo[p] # <<>> /\ Head(todo[p]) = "finish"
    BY <1>1, <1>4 DEF Open
  <2>2. Current(p).fn \in Unfenced
    BY <2>1, LeavesQuietly DEF InMpi
  <2>3. QED
    BY <1>3, <2>1, <2>2 DEF Current
<1>5. QED
  BY <1>1, <1>2, <1>3, <1>4

(* Two operations that are open, or one that is and a later call, are not  *)
(* about the same views.                                                   *)
LEMMA OtherViews ==
  ASSUME IInv, NEW p \in Ranks, NEW j \in Calls(p), Open(p, j),
         program[p][j].fn \in Promise!Posts, NEW i \in 1 .. at[p],
         j < i, program[p][i].fn \notin Unfenced
  PROVE  program[p][i].v # program[p][j].v
<1> SUFFICES ASSUME program[p][i].v = program[p][j].v PROVE FALSE
  OBVIOUS
<1>1. /\ at[p] \in Nat /\ Calls(p) = 1 .. Len(program[p]) /\ at[p] <= Len(program[p])
      /\ Len(program[p]) \in Nat
  BY Here
<1>2. i \in Calls(p) /\ j \in 1 .. i - 1
  BY <1>1
<1>3. PICK h \in j + 1 .. i - 1 : WaitsFor(program[p], h, j)
  BY <1>2, Programmed DEF IInv, Domains
<1>4. h \in Calls(p) /\ h \in 1 .. at[p] /\ h # at[p]
  BY <1>1, <1>2
<1>5. Over(p, h)
  BY <1>4 DEF Over
<1>6. QED
  BY <1>3, <1>4, <1>5 DEF Open

LEMMA OtherWait ==
  ASSUME IInv, NEW p \in Ranks, NEW j \in Calls(p), Open(p, j),
         program[p][j].fn \in Promise!Posts, NEW i \in 1 .. at[p],
         j < i, program[p][i].fn = "wait", Over(p, i), NEW l, l = program[p][i].of
  PROVE  l # j /\ l \in Calls(p) /\ program[p][l].v # program[p][j].v
<1>1. /\ at[p] \in Nat /\ Calls(p) = 1 .. Len(program[p]) /\ at[p] <= Len(program[p])
      /\ Len(program[p]) \in Nat /\ program \in Programs
  BY Here DEF IInv, Domains
<1>2. i \in Calls(p)
  BY <1>1
<1>3. /\ l \in 1 .. i - 1 /\ l \in Calls(p) /\ program[p][l].fn \in Promise!Posts
      /\ WaitsFor(program[p], i, l)
  BY <1>1, <1>2, Programmed DEF WaitsFor
<1>4. l # j
  BY <1>2, <1>3 DEF Open
<1>5. program[p][l].fn \notin Unfenced /\ program[p][j].fn \notin Unfenced
  BY <1>3 DEF Unfenced, Promise!Posts
<1>6. CASE j < l
  <2>1. l \in 1 .. at[p]
    BY <1>1, <1>3
  <2>2. QED
    BY <1>3, <1>4, <1>5, <1>6, <2>1, OtherViews
<1>7. CASE l < j
  <2> SUFFICES ASSUME program[p][l].v = program[p][j].v PROVE FALSE
    BY <1>3, <1>4
  <2>1. l \in 1 .. j - 1
    BY <1>1, <1>3, <1>7
  <2>2. PICK h \in l + 1 .. j - 1 : WaitsFor(program[p], h, l)
    BY <1>1, <1>3, <1>5, <2>1, Programmed
  <2>3. h \in Calls(p) /\ h # i
    BY <1>1, <2>1, <2>2
  <2>4. QED
    BY <1>1, <1>2, <1>3, <2>2, <2>3, OneWait
<1>8. QED
  BY <1>1, <1>3, <1>4, <1>6, <1>7

(* The memory a call is about: its packed copies and its views.            *)
Touched(i, v) == {<<"packed sv", i>>, <<"packed rv", i>>, <<"sv", v>>, <<"rv", v>>}

LEMMA Named ==
  ASSUME NEW i, NEW v, NEW x \in Touched(i, v)
  PROVE  \/ x[1] \in {"packed sv", "packed rv"} /\ x[2] = i
         \/ x[1] \in {"sv", "rv"} /\ x[2] = v
<1>1. CASE x = <<"packed sv", i>>
  BY <1>1
<1>2. CASE x = <<"packed rv", i>>
  BY <1>2
<1>3. CASE x = <<"sv", v>>
  BY <1>3
<1>4. CASE x = <<"rv", v>>
  BY <1>4
<1>5. QED
  BY <1>1, <1>2, <1>3, <1>4 DEF Touched

LEMMA Distinct ==
  ASSUME NEW i, NEW j, i # j, NEW v, NEW w, v # w
  PROVE  Touched(i, v) \intersect Touched(j, w) = {}
<1> SUFFICES ASSUME NEW x \in Touched(i, v), x \in Touched(j, w) PROVE FALSE
  OBVIOUS
<1>1. \/ x[1] \in {"packed sv", "packed rv"} /\ x[2] = i
      \/ x[1] \in {"sv", "rv"} /\ x[2] = v
  BY Named
<1>2. \/ x[1] \in {"packed sv", "packed rv"} /\ x[2] = j
      \/ x[1] \in {"sv", "rv"} /\ x[2] = w
  BY Named
<1>3. QED
  BY <1>1, <1>2

LEMMA Apart ==
  ASSUME IInv, NEW p \in Ranks, NEW n \in DOMAIN posted[p], posted[p][n].open,
         NEW j, j = posted[p][n].call, NEW z \in DOMAIN queue[p], NEW k, k = queue[p][z]
  PROVE  /\ SendBuffer(p, j) \notin Writes(p, k)
         /\ RecvBuffer(p, j) \notin Writes(p, k) \union Reads(p, k)
<1>1. /\ Open(p, j) /\ j \in 1 .. at[p] /\ j \in Calls(p) /\ program[p][j].fn \in Promise!Posts
      /\ program[p][j].fn \notin Unfenced
  <2>1. queue[p] # <<>>
    OBVIOUS
  <2>2. QED
    BY <2>1, OpenCalls
<1>2. PICK i : i = k.call
  OBVIOUS
<1>3. PICK c, d : c = program[p][i] /\ d = program[p][j]
  OBVIOUS
<1>4. SendBuffer(p, j) \in Touched(j, d.v) /\ RecvBuffer(p, j) \in Touched(j, d.v)
  BY <1>3 DEF SendBuffer, RecvBuffer, OwnView, RecvView, Touched
<1>5. Kernel(p, k)
  BY DEF IInv, Local, Kernels
<1>6. i > j \/ (i = j /\ k.op = "consume")
  BY <1>1, <1>2 DEF Open
<1>7. i \in 1 .. at[p] /\ i \in Calls(p)
  BY <1>2, <1>5, KernelMemory DEF Kernel
<1>8. CASE i = j /\ k.op = "consume"
  <2>1. Promise!From(p, i) = {}
    BY <1>1, <1>8 DEF Promise!From, Promise!Posts, Promise!Gathers, Promise!Broadcasts,
       Promise!Reductions, Promise!InclusiveScans, Promise!ExclusiveScans, Promise!Receivers
  <2>2. Writes(p, k) = {} /\ Reads(p, k) = {}
    BY <1>2, <1>8, <2>1 DEF Writes, Reads
  <2>3. QED
    BY <2>2
<1>9. CASE i > j /\ c.fn \notin Unfenced
  <2>1. c.v # d.v
    BY <1>1, <1>3, <1>7, <1>9, OtherViews
  <2>2. Promise!Subject(p, i) = i
    BY <1>3, <1>9 DEF Promise!Subject, Unfenced
  <2>3. Writes(p, k) \subseteq Touched(i, c.v) /\ Reads(p, k) \subseteq Touched(i, c.v)
    BY <1>2, <1>3, <2>2 DEF Writes, Reads, OwnView, RecvView, Touched
  <2>4. i # j
    BY <1>7, <1>9
  <2>5. Touched(i, c.v) \intersect Touched(j, d.v) = {}
    BY <2>1, <2>4, Distinct
  <2>6. QED
    BY <1>4, <2>3, <2>5
<1>10. CASE i > j /\ c.fn = "wait"
  <2>1. PICK l : l = c.of
    OBVIOUS
  <2>2. Over(p, i) /\ k.op \notin {"produce", "pack"}
    BY <1>2, <1>3, <1>5, <1>10 DEF Kernel, Unfenced
  <2>3. l # j /\ program[p][l].v # d.v
    BY <1>1, <1>3, <1>7, <1>10, <2>1, <2>2, OtherWait
  <2>4. Promise!Subject(p, i) = l
    BY <1>3, <1>10, <2>1 DEF Promise!Subject
  <2>5. PICK v : v = program[p][l].v
    OBVIOUS
  <2>6. Writes(p, k) \subseteq Touched(l, v) /\ Reads(p, k) \subseteq Touched(l, v)
    BY <1>2, <2>2, <2>4, <2>5 DEF Writes, Reads, RecvView, Touched
  <2>7. Touched(l, v) \intersect Touched(j, d.v) = {}
    BY <2>3, <2>5, Distinct
  <2>8. QED
    BY <1>4, <2>6, <2>7
<1>11. CASE c.fn = "barrier"
  <2>1. Promise!From(p, i) = {}
    BY <1>3, <1>7, <1>11, FromRanks DEF IInv, Domains
  <2>2. k.op = "consume"
    BY <1>2, <1>3, <1>5, <1>11 DEF Kernel, Enqueued, Unfenced
  <2>3. Writes(p, k) = {} /\ Reads(p, k) = {}
    BY <1>2, <2>1, <2>2 DEF Writes, Reads
  <2>4. QED
    BY <2>3
<1>12. QED
  BY <1>6, <1>8, <1>9, <1>10, <1>11 DEF Unfenced

LEMMA KeepsQuiet == ASSUME IInv PROVE Quiet
<1> SUFFICES ASSUME NEW p \in Ranks, NEW k \in Range(queue[p])
             PROVE  /\ Writes(p, k) \intersect (MpiReads(p) \union MpiWrites(p)) = {}
                    /\ Reads(p, k) \intersect MpiWrites(p) = {}
  BY DEF Quiet
<1>1. PICK z \in DOMAIN queue[p] : k = queue[p][z]
  BY DEF Range
<1>2. ASSUME todo[p] # <<>>, Head(todo[p]) = "leave"
      PROVE  ~ Contributes(p, Current(p)) /\ Promise!From(p, at[p]) = {}
  <2>1. Current(p).fn \in Unfenced
    <3>1. queue[p] # <<>>
      BY <1>1
    <3>2. QED
      BY <1>2, <3>1, LeavesQuietly DEF InMpi
  <2>2. PICK c, t : c = Current(p) /\ t = todo[p] /\ Ordered(c, t) /\ t # <<>> /\ t[1] = "leave"
    BY <1>2, Here
  <2>3. 1 \in DOMAIN t
    BY <2>2, TailOrdered DEF Ordered
  <2>4. c.fn = "barrier"
    BY <2>1, <2>2, <2>3 DEF Ordered, Unfenced, Promise!PointToPoint
  <2>5. at[p] \in Calls(p) /\ c = program[p][at[p]]
    BY <1>2, <2>2, Here
  <2>6. Promise!From(p, at[p]) = {}
    BY <2>4, <2>5, FromRanks DEF IInv, Domains
  <2>7. ~ Contributes(p, c)
    BY <2>4 DEF Contributes, Promise!Senders, Promise!Gathers, Promise!Reductions, Promise!Scans,
       Promise!InclusiveScans, Promise!ExclusiveScans, Promise!Broadcasts
  <2>8. QED
    BY <2>2, <2>6, <2>7
<1>3. ASSUME NEW x \in MpiReads(p) PROVE x \notin Writes(p, k)
  <2>1. PICK m \in Range(posted[p]) : m.open /\ x = SendBuffer(p, m.call)
    BY <1>2, <1>3 DEF MpiReads
  <2>2. PICK n \in DOMAIN posted[p] : m = posted[p][n]
    BY DEF Range
  <2>3. QED
    BY <1>1, <2>1, <2>2, Apart
<1>4. ASSUME NEW x \in MpiWrites(p) PROVE x \notin Writes(p, k) \union Reads(p, k)
  <2>1. PICK m \in Range(posted[p]) : m.open /\ x = RecvBuffer(p, m.call)
    BY <1>2, <1>4 DEF MpiWrites
  <2>2. PICK n \in DOMAIN posted[p] : m = posted[p][n]
    BY DEF Range
  <2>3. QED
    BY <1>1, <2>1, <2>2, Apart
<1>5. QED
  BY <1>3, <1>4

(* No kernel that is still to run touches memory that MPI writes, or       *)
(* writes memory that MPI reads, in any program that waits for the         *)
(* operations it starts before it uses their views again: the places of    *)
(* the fences are right.                                                   *)
THEOREM FencesSuffice == Spec => []Quiet
<1>1. IInv => Quiet
  BY KeepsQuiet
<1>2. QED
  BY <1>1, Invariance, PTL

-----------------------------------------------------------------------------
(* Calls that are refused.                                                 *)
Screens == {"contiguous", "equal", "fit"}

Accepted(c, step) ==
  CASE step = "contiguous" -> is_contiguous(c)
    [] step = "equal" -> c.sext = c.rext
    [] step = "fit" -> fits(c)

(* A call uses its result last, and what is left of one it refuses is at   *)
(* all times a check that fails.                                           *)
Shape(c, t) ==
  t # <<>> =>
    /\ \A m \in DOMAIN t : t[m] = "consume" <=> m = Len(t)
    /\ Takes(c) <=> \A m \in DOMAIN t : t[m] \in Screens => Accepted(c, t[m])

LEMMA SameCardinality ==
  ASSUME NEW S
  PROVE  Promise!Cardinality(S) = Cardinality(S)
BY DEF Promise!Cardinality, Cardinality

(* Which views a call takes, by the code and by Delivery.                   *)
LEMMA TakesIs ==
  ASSUME NEW p, NEW i
  PROVE  Promise!Supported(p, i) <=> Takes(program[p][i])
<1>1. PICK c, n, m : /\ c = program[p][i]
                      /\ n = c.sendCount * Cardinality(Ranks) /\ m = c.recvCount * Cardinality(Ranks)
  OBVIOUS
<1>2. Promise!Supported(p, i) <=>
        \/ program[p][i].fn \in {"send", "recv", "isend", "irecv", "reduce", "barrier", "wait"}
        \/ program[p][i].s = "dense" /\ program[p][i].r = "dense"
           /\ (program[p][i].fn = "alltoall" =>
                 program[p][i].sendCount * Cardinality(Ranks) <= program[p][i].sext)
           /\ (program[p][i].fn \in {"alltoall", "alltoall_inplace"} =>
                 program[p][i].recvCount * Cardinality(Ranks) <= program[p][i].rext)
           /\ (program[p][i].fn \in Promise!Scans \union {"allreduce", "allreduce_low"} =>
                 program[p][i].sext = program[p][i].rext)
  BY SameCardinality DEF Promise!Supported
<1>3. fits(c) <=> (c.fn = "alltoall" => n <= c.sext) /\ m <= c.rext
  <2>1. fits(c) <=> (c.fn = "alltoall" => c.sendCount * Cardinality(Ranks) <= c.sext)
                      /\ c.recvCount * Cardinality(Ranks) <= c.rext
    BY DEF fits
  <2>2. QED
    BY <1>1, <2>1
<1>4. is_contiguous(c) <=> c.s = "dense" /\ c.r = "dense"
  BY DEF is_contiguous
<1>5. Takes(c) <=>
        \/ c.fn \in {"send", "recv", "isend", "irecv", "reduce", "barrier", "wait"}
        \/ is_contiguous(c)
           /\ (c.fn \in {"alltoall", "alltoall_inplace"} => fits(c))
           /\ (c.fn \in Promise!Scans \union {"allreduce", "allreduce_low"} => c.sext = c.rext)
  BY DEF Takes
<1>6. QED
  BY <1>1, <1>2, <1>3, <1>4, <1>5

LEMMA StepsShape ==
  ASSUME NEW p, NEW c \in CallRecords, NEW t, t = Steps(p, c)
  PROVE  Shape(c, t)
<1> USE DEF Labels
<1>1. CASE c.fn \in {"allgather_low", "broadcast_low", "reduce_low", "allreduce_inplace_low",
             "broadcast"}
  <2>1. t = <<"fence", "contiguous", "collective", "leave", "consume">>
    BY <1>1, Lists
  <2>2. /\ t \in Seq(Labels) /\ t # <<>> /\ Len(t) = 5 /\ DOMAIN t = {1, 2, 3, 4, 5}
        /\ t[1] = "fence" /\ t[2] = "contiguous" /\ t[3] = "collective" /\ t[4] = "leave"
           /\ t[5] = "consume"
    BY <2>1
  <2>3. QED
    BY <1>1, <2>2 DEF Shape, Takes, Accepted, Screens, Promise!Scans, Promise!InclusiveScans,
       Promise!ExclusiveScans
<1>2. CASE c.fn \in {"allreduce_low", "inclusive_scan_low", "exclusive_scan_low"}
  <2>1. t = <<"fence", "contiguous", "equal", "collective", "leave", "consume">>
    BY <1>2, Lists
  <2>2. /\ t \in Seq(Labels) /\ t # <<>> /\ Len(t) = 6 /\ DOMAIN t = {1, 2, 3, 4, 5, 6}
        /\ t[1] = "fence" /\ t[2] = "contiguous" /\ t[3] = "equal" /\ t[4] = "collective"
           /\ t[5] = "leave" /\ t[6] = "consume"
    BY <2>1
  <2>3. QED
    BY <1>2, <2>2 DEF Shape, Takes, Accepted, Screens, Promise!Scans, Promise!InclusiveScans,
       Promise!ExclusiveScans
<1>3. CASE c.fn = "allgather_inplace"
  <2>1. t = <<"contiguous", "fence", "collective", "leave", "consume">>
    BY <1>3, Lists
  <2>2. /\ t \in Seq(Labels) /\ t # <<>> /\ Len(t) = 5 /\ DOMAIN t = {1, 2, 3, 4, 5}
        /\ t[1] = "contiguous" /\ t[2] = "fence" /\ t[3] = "collective" /\ t[4] = "leave"
           /\ t[5] = "consume"
    BY <2>1
  <2>3. QED
    BY <1>3, <2>2 DEF Shape, Takes, Accepted, Screens, Promise!Scans, Promise!InclusiveScans,
       Promise!ExclusiveScans
<1>4. CASE c.fn \in {"allgather", "allreduce_inplace"}
  <2>1. t = <<"contiguous", "fence", "contiguous", "collective", "leave", "consume">>
    BY <1>4, Lists
  <2>2. /\ t \in Seq(Labels) /\ t # <<>> /\ Len(t) = 6 /\ DOMAIN t = {1, 2, 3, 4, 5, 6}
        /\ t[1] = "contiguous" /\ t[2] = "fence" /\ t[3] = "contiguous" /\ t[4] = "collective"
           /\ t[5] = "leave" /\ t[6] = "consume"
    BY <2>1
  <2>3. QED
    BY <1>4, <2>2 DEF Shape, Takes, Accepted, Screens, Promise!Scans, Promise!InclusiveScans,
       Promise!ExclusiveScans
<1>5. CASE c.fn \in {"allreduce", "inclusive_scan", "exclusive_scan"}
  <2>1. t = <<"contiguous", "fence", "contiguous", "equal", "collective", "leave", "consume">>
    BY <1>5, Lists
  <2>2. /\ t \in Seq(Labels) /\ t # <<>> /\ Len(t) = 7 /\ DOMAIN t = {1, 2, 3, 4, 5, 6, 7}
        /\ t[1] = "contiguous" /\ t[2] = "fence" /\ t[3] = "contiguous" /\ t[4] = "equal"
           /\ t[5] = "collective" /\ t[6] = "leave" /\ t[7] = "consume"
    BY <2>1
  <2>3. QED
    BY <1>5, <2>2 DEF Shape, Takes, Accepted, Screens, Promise!Scans, Promise!InclusiveScans,
       Promise!ExclusiveScans
<1>6. CASE c.fn \in {"alltoall", "alltoall_inplace"}
  <2>1. t = <<"fence", "contiguous", "fit", "collective", "leave", "consume">>
    BY <1>6, Lists
  <2>2. /\ t \in Seq(Labels) /\ t # <<>> /\ Len(t) = 6 /\ DOMAIN t = {1, 2, 3, 4, 5, 6}
        /\ t[1] = "fence" /\ t[2] = "contiguous" /\ t[3] = "fit" /\ t[4] = "collective"
           /\ t[5] = "leave" /\ t[6] = "consume"
    BY <2>1
  <2>3. QED
    BY <1>6, <2>2 DEF Shape, Takes, Accepted, Screens, Promise!Scans, Promise!InclusiveScans,
       Promise!ExclusiveScans
<1>7. CASE c.fn = "barrier"
  <2>1. t = <<"collective", "leave", "consume">>
    BY <1>7, Lists
  <2>2. /\ t \in Seq(Labels) /\ t # <<>> /\ Len(t) = 3 /\ DOMAIN t = {1, 2, 3}
        /\ t[1] = "collective" /\ t[2] = "leave" /\ t[3] = "consume"
    BY <2>1
  <2>3. QED
    BY <1>7, <2>2 DEF Shape, Takes, Accepted, Screens, Promise!Scans, Promise!InclusiveScans,
       Promise!ExclusiveScans
<1>8. CASE c.fn = "recv_low"
  <2>1. t = <<"fence", "contiguous", "message", "finish", "consume">>
    BY <1>8, Lists
  <2>2. /\ t \in Seq(Labels) /\ t # <<>> /\ Len(t) = 5 /\ DOMAIN t = {1, 2, 3, 4, 5}
        /\ t[1] = "fence" /\ t[2] = "contiguous" /\ t[3] = "message" /\ t[4] = "finish"
           /\ t[5] = "consume"
    BY <2>1
  <2>3. QED
    BY <1>8, <2>2 DEF Shape, Takes, Accepted, Screens, Promise!Scans, Promise!InclusiveScans,
       Promise!ExclusiveScans
<1>9. CASE c.fn \in {"isend_low", "irecv_low"}
  <2>1. t = <<"fence", "contiguous", "message", "consume">>
    BY <1>9, Lists
  <2>2. /\ t \in Seq(Labels) /\ t # <<>> /\ Len(t) = 4 /\ DOMAIN t = {1, 2, 3, 4}
        /\ t[1] = "fence" /\ t[2] = "contiguous" /\ t[3] = "message" /\ t[4] = "consume"
    BY <2>1
  <2>3. QED
    BY <1>9, <2>2 DEF Shape, Takes, Accepted, Screens, Promise!Scans, Promise!InclusiveScans,
       Promise!ExclusiveScans
<1>10. CASE c.fn = "irecv"
  <2>1. t = <<"fence", "message", "consume">>
    BY <1>10, Lists
  <2>2. /\ t \in Seq(Labels) /\ t # <<>> /\ Len(t) = 3 /\ DOMAIN t = {1, 2, 3}
        /\ t[1] = "fence" /\ t[2] = "message" /\ t[3] = "consume"
    BY <2>1
  <2>3. QED
    BY <1>10, <2>2 DEF Shape, Takes, Accepted, Screens, Promise!Scans, Promise!InclusiveScans,
       Promise!ExclusiveScans
<1>11. CASE c.fn = "send" /\ Packs(c)
  <2>1. t = <<"pack", "fence", "message", "finish", "consume">>
    BY <1>11, Lists
  <2>2. /\ t \in Seq(Labels) /\ t # <<>> /\ Len(t) = 5 /\ DOMAIN t = {1, 2, 3, 4, 5}
        /\ t[1] = "pack" /\ t[2] = "fence" /\ t[3] = "message" /\ t[4] = "finish"
           /\ t[5] = "consume"
    BY <2>1
  <2>3. QED
    BY <1>11, <2>2 DEF Shape, Takes, Accepted, Screens, Promise!Scans, Promise!InclusiveScans,
       Promise!ExclusiveScans
<1>12. CASE c.fn = "send" /\ ~ Packs(c)
  <2>1. t = <<"fence", "message", "finish", "consume">>
    BY <1>12, Lists
  <2>2. /\ t \in Seq(Labels) /\ t # <<>> /\ Len(t) = 4 /\ DOMAIN t = {1, 2, 3, 4}
        /\ t[1] = "fence" /\ t[2] = "message" /\ t[3] = "finish" /\ t[4] = "consume"
    BY <2>1
  <2>3. QED
    BY <1>12, <2>2 DEF Shape, Takes, Accepted, Screens, Promise!Scans, Promise!InclusiveScans,
       Promise!ExclusiveScans
<1>13. CASE c.fn = "isend" /\ Packs(c)
  <2>1. t = <<"pack", "fence", "message", "consume">>
    BY <1>13, Lists
  <2>2. /\ t \in Seq(Labels) /\ t # <<>> /\ Len(t) = 4 /\ DOMAIN t = {1, 2, 3, 4}
        /\ t[1] = "pack" /\ t[2] = "fence" /\ t[3] = "message" /\ t[4] = "consume"
    BY <2>1
  <2>3. QED
    BY <1>13, <2>2 DEF Shape, Takes, Accepted, Screens, Promise!Scans, Promise!InclusiveScans,
       Promise!ExclusiveScans
<1>14. CASE c.fn = "isend" /\ ~ Packs(c)
  <2>1. t = <<"fence", "message", "consume">>
    BY <1>14, Lists
  <2>2. /\ t \in Seq(Labels) /\ t # <<>> /\ Len(t) = 3 /\ DOMAIN t = {1, 2, 3}
        /\ t[1] = "fence" /\ t[2] = "message" /\ t[3] = "consume"
    BY <2>1
  <2>3. QED
    BY <1>14, <2>2 DEF Shape, Takes, Accepted, Screens, Promise!Scans, Promise!InclusiveScans,
       Promise!ExclusiveScans
<1>15. CASE c.fn = "recv" /\ Unpacks(p, c)
  <2>1. t = <<"fence", "message", "finish", "unpack", "consume">>
    BY <1>15, Lists
  <2>2. /\ t \in Seq(Labels) /\ t # <<>> /\ Len(t) = 5 /\ DOMAIN t = {1, 2, 3, 4, 5}
        /\ t[1] = "fence" /\ t[2] = "message" /\ t[3] = "finish" /\ t[4] = "unpack"
           /\ t[5] = "consume"
    BY <2>1
  <2>3. QED
    BY <1>15, <2>2 DEF Shape, Takes, Accepted, Screens, Promise!Scans, Promise!InclusiveScans,
       Promise!ExclusiveScans
<1>16. CASE c.fn = "recv" /\ ~ Unpacks(p, c)
  <2>1. t = <<"fence", "message", "finish", "consume">>
    BY <1>16, Lists
  <2>2. /\ t \in Seq(Labels) /\ t # <<>> /\ Len(t) = 4 /\ DOMAIN t = {1, 2, 3, 4}
        /\ t[1] = "fence" /\ t[2] = "message" /\ t[3] = "finish" /\ t[4] = "consume"
    BY <2>1
  <2>3. QED
    BY <1>16, <2>2 DEF Shape, Takes, Accepted, Screens, Promise!Scans, Promise!InclusiveScans,
       Promise!ExclusiveScans
<1>17. CASE c.fn = "wait" /\ Unpacks(p, program[p][c.of])
  <2>1. t = <<"finish", "unpack", "fence", "consume">>
    BY <1>17, Lists
  <2>2. /\ t \in Seq(Labels) /\ t # <<>> /\ Len(t) = 4 /\ DOMAIN t = {1, 2, 3, 4}
        /\ t[1] = "finish" /\ t[2] = "unpack" /\ t[3] = "fence" /\ t[4] = "consume"
    BY <2>1
  <2>3. QED
    BY <1>17, <2>2 DEF Shape, Takes, Accepted, Screens, Promise!Scans, Promise!InclusiveScans,
       Promise!ExclusiveScans
<1>18. CASE c.fn = "wait" /\ ~ Unpacks(p, program[p][c.of])
  <2>1. t = <<"finish", "consume">>
    BY <1>18, Lists
  <2>2. /\ t \in Seq(Labels) /\ t # <<>> /\ Len(t) = 2 /\ DOMAIN t = {1, 2}
        /\ t[1] = "finish" /\ t[2] = "consume"
    BY <2>1
  <2>3. QED
    BY <1>18, <2>2 DEF Shape, Takes, Accepted, Screens, Promise!Scans, Promise!InclusiveScans,
       Promise!ExclusiveScans
<1>19. CASE c.fn = "reduce" /\ Packs(c) /\ Unpacks(p, c)
  <2>1. t = <<"pack", "fence", "collective", "leave", "unpack", "consume">>
    BY <1>19, Lists
  <2>2. /\ t \in Seq(Labels) /\ t # <<>> /\ Len(t) = 6 /\ DOMAIN t = {1, 2, 3, 4, 5, 6}
        /\ t[1] = "pack" /\ t[2] = "fence" /\ t[3] = "collective" /\ t[4] = "leave"
           /\ t[5] = "unpack" /\ t[6] = "consume"
    BY <2>1
  <2>3. QED
    BY <1>19, <2>2 DEF Shape, Takes, Accepted, Screens, Promise!Scans, Promise!InclusiveScans,
       Promise!ExclusiveScans
<1>20. CASE c.fn = "reduce" /\ Packs(c) /\ ~ Unpacks(p, c)
  <2>1. t = <<"pack", "fence", "collective", "leave", "consume">>
    BY <1>20, Lists
  <2>2. /\ t \in Seq(Labels) /\ t # <<>> /\ Len(t) = 5 /\ DOMAIN t = {1, 2, 3, 4, 5}
        /\ t[1] = "pack" /\ t[2] = "fence" /\ t[3] = "collective" /\ t[4] = "leave"
           /\ t[5] = "consume"
    BY <2>1
  <2>3. QED
    BY <1>20, <2>2 DEF Shape, Takes, Accepted, Screens, Promise!Scans, Promise!InclusiveScans,
       Promise!ExclusiveScans
<1>21. CASE c.fn = "reduce" /\ ~ Packs(c) /\ Unpacks(p, c)
  <2>1. t = <<"fence", "collective", "leave", "unpack", "consume">>
    BY <1>21, Lists
  <2>2. /\ t \in Seq(Labels) /\ t # <<>> /\ Len(t) = 5 /\ DOMAIN t = {1, 2, 3, 4, 5}
        /\ t[1] = "fence" /\ t[2] = "collective" /\ t[3] = "leave" /\ t[4] = "unpack"
           /\ t[5] = "consume"
    BY <2>1
  <2>3. QED
    BY <1>21, <2>2 DEF Shape, Takes, Accepted, Screens, Promise!Scans, Promise!InclusiveScans,
       Promise!ExclusiveScans
<1>22. CASE c.fn = "reduce" /\ ~ Packs(c) /\ ~ Unpacks(p, c)
  <2>1. t = <<"fence", "collective", "leave", "consume">>
    BY <1>22, Lists
  <2>2. /\ t \in Seq(Labels) /\ t # <<>> /\ Len(t) = 4 /\ DOMAIN t = {1, 2, 3, 4}
        /\ t[1] = "fence" /\ t[2] = "collective" /\ t[3] = "leave" /\ t[4] = "consume"
    BY <2>1
  <2>3. QED
    BY <1>22, <2>2 DEF Shape, Takes, Accepted, Screens, Promise!Scans, Promise!InclusiveScans,
       Promise!ExclusiveScans
<1>23. QED
  BY <1>1, <1>2, <1>3, <1>4, <1>5, <1>6, <1>7, <1>8, <1>9, <1>10, <1>11, <1>12, <1>13, <1>14,
     <1>15, <1>16, <1>17, <1>18, <1>19, <1>20, <1>21, <1>22
  DEF CallRecords, Promise!Senders, Promise!Receivers, Promise!Gathers, Promise!Broadcasts,
      Promise!Reductions, Promise!Scans, Promise!InclusiveScans, Promise!ExclusiveScans

LEMMA TailShape ==
  ASSUME NEW c, NEW t, Ordered(c, t), t # <<>>, Shape(c, t),
         Head(t) \in Screens => Accepted(c, Head(t))
  PROVE  Shape(c, Tail(t))
<1>1. PICK n, u : n = Len(t) - 1 /\ u = Tail(t)
  OBVIOUS
<1>2. /\ t \in Seq(Labels) /\ u \in Seq(Labels) /\ n \in Nat /\ Len(t) = n + 1 /\ Len(u) = n
      /\ DOMAIN t = 1 .. n + 1 /\ DOMAIN u = 1 .. n /\ Head(t) = t[1]
      /\ \A m \in 1 .. n : u[m] = t[m + 1]
  <2>1. t \in Seq(Labels) /\ t # <<>> /\ Head(t) = t[1]
    BY TailOrdered DEF Ordered
  <2>2. QED
    BY <1>1, <2>1
<1>3. \A m \in 1 .. n + 1 : m = 1 \/ (m - 1 \in 1 .. n /\ u[m - 1] = t[m])
  BY <1>2
<1>4. \A m \in 1 .. n : m + 1 \in 1 .. n + 1 /\ u[m] = t[m + 1] /\ (m = n <=> m + 1 = n + 1)
  BY <1>2
<1>5. \A m \in 1 .. n + 1 : t[m] = "consume" <=> m = n + 1
  BY <1>2 DEF Shape
<1>6. Takes(c) <=> \A m \in 1 .. n + 1 : t[m] \in Screens => Accepted(c, t[m])
  BY <1>2 DEF Shape
<1>7. (\A m \in 1 .. n + 1 : t[m] \in Screens => Accepted(c, t[m])) <=>
        \A m \in 1 .. n : u[m] \in Screens => Accepted(c, u[m])
  BY <1>2, <1>3, <1>4
<1>8. \A m \in 1 .. n : u[m] = "consume" <=> m = n
  BY <1>4, <1>5
<1>9. QED
  BY <1>1, <1>2, <1>6, <1>7, <1>8 DEF Shape

(* The first of the steps that are left.                                   *)
LEMMA FirstShape ==
  ASSUME NEW c, NEW t, Ordered(c, t), t # <<>>, Shape(c, t)
  PROVE  /\ Head(t) = "consume" => Tail(t) = <<>> /\ Takes(c)
         /\ Head(t) # "consume" => Tail(t) # <<>>
         /\ Head(t) \in Screens /\ ~ Accepted(c, Head(t)) => ~ Takes(c)
<1>0. PICK u : u = Tail(t)
  OBVIOUS
<1>1. /\ t \in Seq(Labels) /\ Len(t) \in Nat /\ Len(t) > 0 /\ Head(t) = t[1]
      /\ u \in Seq(Labels) /\ Len(u) = Len(t) - 1
  BY <1>0, TailOrdered DEF Ordered
<1>2. 1 \in DOMAIN t
  BY <1>1
<1>3. t[1] = "consume" <=> 1 = Len(t)
  BY <1>2 DEF Shape
<1>4. Takes(c) <=> \A m \in DOMAIN t : t[m] \in Screens => Accepted(c, t[m])
  BY DEF Shape
<1>5. ASSUME Len(t) = 1 PROVE u = <<>> /\ (t[1] = "consume" => Takes(c))
  <2>1. u = <<>>
    BY <1>1, <1>5
  <2>2. DOMAIN t = {1}
    BY <1>1, <1>5
  <2>3. "consume" \notin Screens
    BY DEF Screens
  <2>4. QED
    BY <1>4, <2>1, <2>2, <2>3
<1>6. Len(t) # 1 => u # <<>>
  BY <1>1
<1>7. QED
  BY <1>0, <1>1, <1>2, <1>3, <1>4, <1>5, <1>6

-----------------------------------------------------------------------------
(* The kernels that use what calls brought: of the calls up to a that were *)
(* not refused, those after the last that was delivered, l, in order.      *)
LastOf(s) == IF s = <<>> THEN 0 ELSE s[Len(s)][1]

Consumes(Q, n, i) == n \in DOMAIN Q /\ Q[n].op = "consume" /\ Q[n].call = i

Lined(g, a, idle, Q, l) ==
  /\ l \in 0 .. a /\ (l = a => idle)
  /\ \A n \in DOMAIN Q : Q[n].op = "consume" =>
       /\ Q[n].call \in l + 1 .. a /\ Takes(g[Q[n].call])
       /\ Q[n].call = a => idle
  /\ \A m, n \in DOMAIN Q :
       m < n /\ Q[m].op = "consume" /\ Q[n].op = "consume" => Q[m].call < Q[n].call
  /\ \A i \in l + 1 .. a : Takes(g[i]) => (i = a /\ ~ idle) \/ \E n : Consumes(Q, n, i)

KernelRecords == [op : Enqueued \union {"produce"}, call : Nat]

LEMMA LinedOther ==
  ASSUME NEW g, NEW a \in Nat, NEW idle \in BOOLEAN, NEW Q \in Seq(KernelRecords), NEW l,
         Lined(g, a, idle, Q, l), NEW k \in KernelRecords, k.op # "consume"
  PROVE  Lined(g, a, idle, Append(Q, k), l)
<1>1. PICK R, n : R = Append(Q, k) /\ n = Len(Q)
  OBVIOUS
<1>2. /\ R \in Seq(KernelRecords) /\ n \in Nat /\ DOMAIN R = 1 .. n + 1 /\ DOMAIN Q = 1 .. n
      /\ R[n + 1] = k /\ \A m \in 1 .. n : R[m] = Q[m]
  BY <1>1
<1>3. \A m \in DOMAIN R : R[m].op = "consume" => m \in DOMAIN Q /\ R[m] = Q[m]
  BY <1>2
<1>4. \A m, i : Consumes(Q, m, i) => Consumes(R, m, i)
  BY <1>2 DEF Consumes
<1>5. QED
  BY <1>1, <1>3, <1>4 DEF Lined

LEMMA LinedNext ==
  ASSUME NEW g, NEW a \in Nat, NEW Q, NEW l, Lined(g, a, TRUE, Q, l)
  PROVE  Lined(g, a + 1, FALSE, Q, l)
<1>1. l \in Nat /\ l <= a
  BY DEF Lined
<1>2. l \in 0 .. a + 1 /\ l # a + 1
  BY <1>1
<1>3. ASSUME NEW n \in DOMAIN Q, Q[n].op = "consume"
      PROVE  Q[n].call \in l + 1 .. a + 1 /\ Takes(g[Q[n].call]) /\ Q[n].call # a + 1
  <2>1. PICK i : i = Q[n].call /\ i \in l + 1 .. a /\ Takes(g[i])
    BY <1>3 DEF Lined
  <2>2. i \in l + 1 .. a + 1 /\ i # a + 1
    BY <1>1, <2>1
  <2>3. QED
    BY <2>1, <2>2
<1>4. ASSUME NEW i \in l + 1 .. a + 1, Takes(g[i])
      PROVE  i = a + 1 \/ \E n : Consumes(Q, n, i)
  <2>1. i = a + 1 \/ i \in l + 1 .. a
    BY <1>1
  <2>2. QED
    BY <1>4, <2>1 DEF Lined
<1>5. QED
  BY <1>2, <1>3, <1>4 DEF Lined

LEMMA LinedRefused ==
  ASSUME NEW g, NEW a \in Nat, NEW Q, NEW l, Lined(g, a, FALSE, Q, l), ~ Takes(g[a])
  PROVE  Lined(g, a, TRUE, Q, l)
BY DEF Lined

LEMMA LinedConsume ==
  ASSUME NEW g, NEW a \in Nat, NEW Q \in Seq(KernelRecords), NEW l, Lined(g, a, FALSE, Q, l),
         Takes(g[a]), NEW k \in KernelRecords, k.op = "consume", k.call = a
  PROVE  Lined(g, a, TRUE, Append(Q, k), l)
<1>1. PICK R, n : R = Append(Q, k) /\ n = Len(Q)
  OBVIOUS
<1>2. /\ R \in Seq(KernelRecords) /\ n \in Nat /\ DOMAIN R = 1 .. n + 1 /\ DOMAIN Q = 1 .. n
      /\ R[n + 1] = k /\ \A m \in 1 .. n : R[m] = Q[m]
  BY <1>1
<1>3. l \in Nat /\ l <= a /\ l # a
  BY DEF Lined
<1>4. a \in l + 1 .. a
  BY <1>3
<1>5. ASSUME NEW m \in 1 .. n, Q[m].op = "consume"
      PROVE  Q[m].call \in l + 1 .. a /\ Takes(g[Q[m].call]) /\ Q[m].call < a
  <2>1. PICK i : i = Q[m].call /\ i \in l + 1 .. a /\ Takes(g[i]) /\ i # a
    BY <1>2, <1>5 DEF Lined
  <2>2. i < a
    BY <1>3, <2>1
  <2>3. QED
    BY <2>1, <2>2
<1>6. ASSUME NEW m \in 1 .. n + 1, R[m].op = "consume"
      PROVE  R[m].call \in l + 1 .. a /\ Takes(g[R[m].call])
  <2>1. m = n + 1 \/ m \in 1 .. n
    BY <1>2
  <2>2. QED
    BY <1>2, <1>4, <1>5, <1>6, <2>1
<1>7. ASSUME NEW h \in 1 .. n + 1, NEW m \in 1 .. n + 1, h < m, R[h].op = "consume",
             R[m].op = "consume"
      PROVE  R[h].call < R[m].call
  <2>1. h \in 1 .. n /\ (m = n + 1 \/ m \in 1 .. n)
    BY <1>2, <1>7
  <2>2. CASE m = n + 1
    BY <1>2, <1>5, <1>7, <2>1, <2>2
  <2>3. CASE m \in 1 .. n
    BY <1>2, <1>7, <2>1, <2>3 DEF Lined
  <2>4. QED
    BY <2>1, <2>2, <2>3
<1>8. ASSUME NEW i \in l + 1 .. a, Takes(g[i]) PROVE \E m : Consumes(R, m, i)
  <2>1. CASE i = a
    <3>1. Consumes(R, n + 1, i)
      BY <1>2, <2>1 DEF Consumes
    <3>2. QED
      BY <3>1
  <2>2. CASE i # a
    <3>1. PICK m : Consumes(Q, m, i)
      BY <1>8, <2>2 DEF Lined
    <3>2. Consumes(R, m, i)
      BY <1>2, <3>1 DEF Consumes
    <3>3. QED
      BY <3>2
  <2>3. QED
    BY <2>1, <2>2
<1>9. l \in 0 .. a
  BY DEF Lined
<1>10. Lined(g, a, TRUE, R, l)
  BY <1>2, <1>6, <1>7, <1>8, <1>9 DEF Lined
<1>11. QED
  BY <1>1, <1>10

LEMMA LinedRun ==
  ASSUME NEW g, NEW a \in Nat, NEW idle \in BOOLEAN, NEW Q \in Seq(KernelRecords), NEW l,
         Lined(g, a, idle, Q, l), Q # <<>>, NEW k, k = Head(Q)
  PROVE  /\ k.op # "consume" => Lined(g, a, idle, Tail(Q), l)
         /\ k.op = "consume" =>
              /\ Lined(g, a, idle, Tail(Q), k.call)
              /\ k.call \in l + 1 .. a /\ Takes(g[k.call])
              /\ \A j \in l + 1 .. k.call - 1 : ~ Takes(g[j])
<1>1. PICK R, n : R = Tail(Q) /\ n = Len(Q) - 1
  OBVIOUS
<1>2. /\ R \in Seq(KernelRecords) /\ n \in Nat /\ DOMAIN Q = 1 .. n + 1 /\ DOMAIN R = 1 .. n
      /\ k = Q[1] /\ \A m \in 1 .. n : R[m] = Q[m + 1]
  BY <1>1
<1>3. \A m \in 1 .. n : m + 1 \in DOMAIN Q /\ R[m] = Q[m + 1] /\ 1 < m + 1
  BY <1>2
<1>4. \A m, h \in 1 .. n : m < h => m + 1 < h + 1
  OBVIOUS
<1>5. l \in Nat /\ l <= a
  BY DEF Lined
<1>6. ASSUME NEW m, NEW i, Consumes(Q, m, i) PROVE m = 1 \/ \E h : Consumes(R, h, i)
  <2>1. m \in 1 .. n + 1
    BY <1>2, <1>6 DEF Consumes
  <2>2. m = 1 \/ (m - 1 \in 1 .. n /\ (m - 1) + 1 = m)
    BY <1>2, <2>1
  <2>3. m - 1 \in 1 .. n /\ (m - 1) + 1 = m => Consumes(R, m - 1, i)
    BY <1>2, <1>3, <1>6 DEF Consumes
  <2>4. QED
    BY <2>2, <2>3
<1>7. \A m, h \in 1 .. n :
        m < h /\ R[m].op = "consume" /\ R[h].op = "consume" => R[m].call < R[h].call
  BY <1>3, <1>4 DEF Lined
<1>8. ASSUME k.op # "consume" PROVE Lined(g, a, idle, R, l)
  <2>1. \A m \in 1 .. n : R[m].op = "consume" =>
          /\ R[m].call \in l + 1 .. a /\ Takes(g[R[m].call])
          /\ R[m].call = a => idle
    BY <1>3 DEF Lined
  <2>2. \A m, i : Consumes(Q, m, i) => \E h : Consumes(R, h, i)
    BY <1>2, <1>6, <1>8 DEF Consumes
  <2>3. \A i \in l + 1 .. a : Takes(g[i]) => (i = a /\ ~ idle) \/ \E h : Consumes(R, h, i)
    BY <2>2 DEF Lined
  <2>4. l \in 0 .. a /\ (l = a => idle)
    BY DEF Lined
  <2>5. QED
    BY <1>2, <1>7, <2>1, <2>3, <2>4 DEF Lined
<1>9. ASSUME k.op = "consume"
      PROVE  /\ Lined(g, a, idle, R, k.call)
             /\ k.call \in l + 1 .. a /\ Takes(g[k.call])
             /\ \A j \in l + 1 .. k.call - 1 : ~ Takes(g[j])
  <2>1. PICK i : i = k.call
    OBVIOUS
  <2>2. i \in l + 1 .. a /\ Takes(g[i]) /\ (i = a => idle)
    BY <1>2, <1>9, <2>1 DEF Lined
  <2>3. ASSUME NEW m \in 1 .. n, R[m].op = "consume"
        PROVE  R[m].call \in i + 1 .. a /\ Takes(g[R[m].call]) /\ (R[m].call = a => idle)
    <3>1. PICK j : j = R[m].call
      OBVIOUS
    <3>2. j \in l + 1 .. a /\ Takes(g[j]) /\ (j = a => idle) /\ i < j
      BY <1>2, <1>3, <1>9, <2>1, <2>3, <3>1 DEF Lined
    <3>3. j \in i + 1 .. a
      BY <1>5, <2>2, <3>2
    <3>4. QED
      BY <3>1, <3>2, <3>3
  <2>4. ASSUME NEW j \in i + 1 .. a, Takes(g[j])
        PROVE  (j = a /\ ~ idle) \/ \E h : Consumes(R, h, j)
    <3>1. j \in l + 1 .. a /\ j # i
      BY <1>5, <2>2
    <3>2. (j = a /\ ~ idle) \/ \E m : Consumes(Q, m, j)
      BY <2>4, <3>1 DEF Lined
    <3>3. ASSUME NEW m, Consumes(Q, m, j) PROVE \E h : Consumes(R, h, j)
      <4>1. m # 1
        BY <1>2, <2>1, <3>1, <3>3 DEF Consumes
      <4>2. QED
        BY <1>6, <3>3, <4>1
    <3>4. QED
      BY <3>2, <3>3
  <2>5. ASSUME NEW j \in l + 1 .. i - 1, Takes(g[j]) PROVE FALSE
    <3>1. j \in l + 1 .. a /\ j < i /\ j # a
      BY <1>5, <2>2
    <3>2. PICK m : Consumes(Q, m, j)
      BY <2>5, <3>1 DEF Lined
    <3>3. m \in 1 .. n + 1 /\ Q[m].op = "consume" /\ Q[m].call = j
      BY <1>2, <3>2 DEF Consumes
    <3>4. m # 1
      BY <1>2, <2>1, <3>1, <3>3
    <3>5. 1 \in 1 .. n + 1 /\ 1 < m
      BY <1>2, <3>3, <3>4
    <3>6. i < j
      BY <1>2, <1>9, <2>1, <3>3, <3>5 DEF Lined
    <3>7. QED
      BY <1>5, <2>2, <3>1, <3>6
  <2>6. i \in 0 .. a
    BY <1>5, <2>2
  <2>7. Lined(g, a, idle, R, i)
    BY <1>2, <1>7, <2>2, <2>3, <2>4, <2>6 DEF Lined
  <2>8. QED
    BY <2>1, <2>2, <2>5, <2>7
<1>10. QED
  BY <1>1, <1>8, <1>9

-----------------------------------------------------------------------------
(* What a rank has still to do, and what it was given so far.               *)
Aligned(p) ==
  /\ Shape(Current(p), todo[p])
  /\ Lined(program[p], at[p], todo[p] = <<>>, queue[p], LastOf(got[p]))

Data == SUBSET (Ranks \X Nat)
Aligning == got \in [Ranks -> Seq(Nat \X Data)] /\ \A p \in Ranks : Aligned(p)

LEMMA AlignedFrame ==
  ASSUME Aligning, NEW p, got' = got, program' = program,
         \A q \in Ranks \ {p} : at'[q] = at[q] /\ todo'[q] = todo[q] /\ queue'[q] = queue[q],
         p \in Ranks => Aligned(p)'
  PROVE  Aligning'
<1>1. ASSUME NEW q \in Ranks \ {p} PROVE Aligned(q)'
  <2>1. Aligned(q)
    BY DEF Aligning
  <2>2. Current(q)' = Current(q)
    BY DEF Current
  <2>3. QED
    BY <2>1, <2>2 DEF Aligned
<1>2. QED
  BY <1>1 DEF Aligning

(* Steps that leave the use of the result to a later one.                  *)
LEMMA AlignedDoes ==
  ASSUME IInv, Aligning, NEW p \in Ranks, NEW h, Does(p, h), h # "consume",
         h \in Screens => Accepted(Current(p), h), got' = got,
         \/ queue'[p] = queue[p]
         \/ \E k \in KernelRecords : k.op # "consume" /\ queue'[p] = Append(queue[p], k)
  PROVE  Aligned(p)'
<1>1. PICK c, t, u : c = Current(p) /\ t = todo[p] /\ u = Tail(t)
  OBVIOUS
<1>2. /\ Ordered(c, t) /\ t # <<>> /\ h = Head(t) /\ todo'[p] = u /\ Current(p)' = c
      /\ program'[p] = program[p] /\ at'[p] = at[p] /\ at[p] \in Nat
  BY <1>1, Here, DoesFacts DEF Does
<1>3. Shape(c, t) /\ Lined(program[p], at[p], FALSE, queue[p], LastOf(got[p]))
  <2>1. (todo[p] = <<>>) = FALSE
    BY <1>1, <1>2
  <2>2. QED
    BY <1>1, <2>1 DEF Aligning, Aligned
<1>4. Shape(c, u) /\ u # <<>>
  BY <1>1, <1>2, <1>3, TailShape, FirstShape
<1>5. queue[p] \in Seq(KernelRecords)
  BY DEF IInv, Domains, KernelRecords
<1>6. Lined(program[p], at[p], FALSE, queue'[p], LastOf(got[p]))
  BY <1>2, <1>3, <1>5, LinedOther
<1>7. (todo'[p] = <<>>) = FALSE
  BY <1>2, <1>4
<1>8. QED
  BY <1>2, <1>4, <1>6, <1>7 DEF Aligned

LEMMA AlignsCall == ASSUME IInv, Aligning, NEW p \in Ranks, Call(p) PROVE Aligning'
<1>1. PICK i, c, t : i = at[p] + 1 /\ c = program[p][i] /\ t = Steps(p, c)
  OBVIOUS
<1>2. /\ todo[p] = <<>> /\ at[p] < Len(program[p]) /\ at' = [at EXCEPT ![p] = i]
      /\ todo' = [todo EXCEPT ![p] = t]
      /\ \/ queue' = queue
         \/ queue' = [queue EXCEPT ![p] = Append(@, [op |-> "produce", call |-> at'[p]])]
      /\ program' = program /\ got' = got
  BY <1>1 DEF Call
<1>3. at[p] \in Nat /\ Len(program[p]) \in Nat /\ Calls(p) = 1 .. Len(program[p])
  BY Here
<1>4. i \in Calls(p) /\ i \in Nat
  BY <1>1, <1>2, <1>3
<1>5. c \in CallRecords
  BY <1>1, <1>4, Programmed DEF IInv, Domains
<1>6. Shape(c, t) /\ t # <<>>
  BY <1>1, <1>5, StepsShape, StepsOrdered
<1>7. PICK Q : Q = queue[p] /\ Q \in Seq(KernelRecords)
  BY DEF IInv, Domains, KernelRecords
<1>8. PICK k : k = [op |-> "produce", call |-> i]
  OBVIOUS
<1>9. k \in KernelRecords /\ k.op # "consume"
  BY <1>4, <1>8 DEF KernelRecords
<1>10. /\ at'[p] = i /\ todo'[p] = t /\ (queue'[p] = Q \/ queue'[p] = Append(Q, k))
       /\ \A q \in Ranks \ {p} : at'[q] = at[q] /\ todo'[q] = todo[q] /\ queue'[q] = queue[q]
  BY <1>2, <1>7, <1>8 DEF IInv, Domains
<1>11. Lined(program[p], at[p], TRUE, Q, LastOf(got[p]))
  <2>1. (todo[p] = <<>>) = TRUE
    BY <1>2
  <2>2. QED
    BY <1>7, <2>1 DEF Aligning, Aligned
<1>12. Lined(program[p], i, FALSE, Q, LastOf(got[p]))
  BY <1>1, <1>3, <1>11, LinedNext
<1>13. Lined(program[p], i, FALSE, queue'[p], LastOf(got[p]))
  BY <1>4, <1>7, <1>9, <1>10, <1>12, LinedOther
<1>14. Aligned(p)'
  <2>1. Current(p)' = c /\ (todo'[p] = <<>>) = FALSE
    BY <1>1, <1>2, <1>6, <1>10 DEF Current
  <2>2. QED
    BY <1>2, <1>6, <1>10, <1>13, <2>1 DEF Aligned
<1>15. QED
  BY <1>2, <1>10, <1>14, AlignedFrame

LEMMA Checked ==
  ASSUME NEW p \in Ranks, Check(p)
  PROVE  \E h \in Screens :
           /\ At(p, h)
           /\ \/ Accepted(Current(p), h) /\ Done(p) /\ UNCHANGED aborted
              \/ /\ ~ Accepted(Current(p), h) /\ Current(p).fn \in Promise!Scans
                 /\ todo' = [todo EXCEPT ![p] = <<>>] /\ UNCHANGED aborted
              \/ /\ ~ Accepted(Current(p), h) /\ Current(p).fn \notin Promise!Scans
                 /\ aborted' = TRUE /\ UNCHANGED todo
BY DEF Check, Accepted, Screens

LEMMA AlignsCheck == ASSUME IInv, Aligning, NEW p \in Ranks, Check(p) PROVE Aligning'
<1>1. PICK h \in Screens :
        /\ At(p, h)
        /\ \/ Accepted(Current(p), h) /\ Done(p)
           \/ ~ Accepted(Current(p), h) /\ todo' = [todo EXCEPT ![p] = <<>>]
           \/ UNCHANGED todo
  BY Checked
<1>2. UNCHANGED <<program, at, queue, got>>
  BY DEF Check
<1>3. \A q \in Ranks \ {p} : at'[q] = at[q] /\ todo'[q] = todo[q] /\ queue'[q] = queue[q]
  BY <1>1, <1>2 DEF IInv, Domains, Done
<1>4. CASE Accepted(Current(p), h) /\ Done(p)
  <2>1. Does(p, h) /\ h # "consume"
    BY <1>1, <1>2, <1>4 DEF At, Done, Does, Screens
  <2>2. queue'[p] = queue[p] /\ got' = got
    BY <1>2
  <2>3. Aligned(p)'
    BY <1>4, <2>1, <2>2, AlignedDoes
  <2>4. QED
    BY <1>2, <1>3, <2>3, AlignedFrame
<1>5. CASE ~ Accepted(Current(p), h) /\ todo' = [todo EXCEPT ![p] = <<>>]
  <2>1. PICK c, t : c = Current(p) /\ t = todo[p]
    OBVIOUS
  <2>2. Ordered(c, t) /\ t # <<>> /\ h = Head(t) /\ c = program[p][at[p]] /\ at[p] \in Nat
    BY <1>1, <2>1, Here DEF At
  <2>3. Shape(c, t) /\ Lined(program[p], at[p], FALSE, queue[p], LastOf(got[p]))
    <3>1. (todo[p] = <<>>) = FALSE
      BY <2>1, <2>2
    <3>2. QED
      BY <2>1, <3>1 DEF Aligning, Aligned
  <2>4. ~ Takes(c)
    BY <1>5, <2>1, <2>2, <2>3, FirstShape
  <2>5. Lined(program[p], at[p], TRUE, queue[p], LastOf(got[p]))
    BY <2>2, <2>3, <2>4, LinedRefused
  <2>6. todo'[p] = <<>> /\ (todo'[p] = <<>>) = TRUE
    BY <1>5 DEF IInv, Domains
  <2>7. Shape(Current(p)', <<>>)
    BY DEF Shape
  <2>8. Aligned(p)'
    BY <1>2, <2>5, <2>6, <2>7 DEF Aligned
  <2>9. QED
    BY <1>2, <1>3, <2>8, AlignedFrame
<1>6. CASE UNCHANGED todo
  <2>1. Aligned(p)
    BY DEF Aligning
  <2>2. Current(p)' = Current(p)
    BY <1>2 DEF Current
  <2>3. Aligned(p)'
    BY <1>2, <1>6, <2>1, <2>2 DEF Aligned
  <2>4. QED
    BY <1>2, <1>3, <2>3, AlignedFrame
<1>7. QED
  BY <1>1, <1>4, <1>5, <1>6

LEMMA AlignsEnqueue == ASSUME IInv, Aligning, NEW p \in Ranks, Enqueue(p) PROVE Aligning'
<1>1. PICK op \in {"pack", "unpack", "consume"} : At(p, op) /\ Launch(p, op)
  BY DEF Enqueue
<1>2. Does(p, op) /\ got' = got /\ program' = program /\ op \notin Screens
  BY <1>1 DEF At, Enqueue, Done, Does, Screens
<1>3. PICK k : k = [op |-> op, call |-> at[p]]
  OBVIOUS
<1>4. at[p] \in Nat
  BY Here
<1>5. k \in KernelRecords /\ k.op = op /\ k.call = at[p]
  BY <1>3, <1>4 DEF KernelRecords, Enqueued
<1>6. PICK Q : Q = queue[p] /\ Q \in Seq(KernelRecords)
  BY DEF IInv, Domains, KernelRecords
<1>7. /\ queue'[p] = Append(Q, k)
      /\ \A q \in Ranks \ {p} : at'[q] = at[q] /\ todo'[q] = todo[q] /\ queue'[q] = queue[q]
  BY <1>1, <1>2, <1>3, <1>6 DEF Launch, Does, IInv, Domains
<1>8. Aligned(p)'
  <2>1. CASE op # "consume"
    BY <1>2, <1>5, <1>6, <1>7, <2>1, AlignedDoes
  <2>2. CASE op = "consume"
    <3>1. PICK c, t, u : c = Current(p) /\ t = todo[p] /\ u = Tail(t)
      OBVIOUS
    <3>2. /\ Ordered(c, t) /\ t # <<>> /\ op = Head(t) /\ c = program[p][at[p]]
          /\ todo'[p] = u /\ at'[p] = at[p]
      BY <1>2, <3>1, Here, DoesFacts DEF Does
    <3>3. Shape(c, t) /\ Lined(program[p], at[p], FALSE, Q, LastOf(got[p]))
      <4>1. (todo[p] = <<>>) = FALSE
        BY <3>1, <3>2
      <4>2. QED
        BY <1>6, <3>1, <4>1 DEF Aligning, Aligned
    <3>4. u = <<>> /\ Takes(c)
      BY <2>2, <3>1, <3>2, <3>3, FirstShape
    <3>5. Lined(program[p], at[p], TRUE, Append(Q, k), LastOf(got[p]))
      BY <1>4, <1>5, <1>6, <2>2, <3>2, <3>3, <3>4, LinedConsume
    <3>6. Shape(Current(p)', todo'[p]) /\ (todo'[p] = <<>>) = TRUE
      BY <3>2, <3>4 DEF Shape
    <3>7. QED
      BY <1>2, <1>7, <3>2, <3>5, <3>6 DEF Aligned
  <2>3. QED
    BY <2>1, <2>2
<1>9. QED
  BY <1>2, <1>7, <1>8, AlignedFrame

(* The other steps of a rank.                                              *)
LEMMA AlignsStep ==
  ASSUME IInv, Aligning, NEW p \in Ranks,
         Fence(p) \/ Enter(p) \/ Message(p) \/ Leave(p) \/ Finish(p)
  PROVE  Aligning'
<1>1. PICK h \in {"fence", "collective", "message", "leave", "finish"} : At(p, h) /\ Done(p)
  BY DEF Fence, Enter, Message, Leave, Finish
<1>2. UNCHANGED <<program, at, queue, got>>
  BY DEF Fence, Enter, Message, Leave, Finish
<1>3. Does(p, h) /\ h # "consume" /\ h \notin Screens
  BY <1>1, <1>2 DEF At, Done, Does, Screens
<1>4. Aligned(p)'
  BY <1>2, <1>3, AlignedDoes
<1>5. \A q \in Ranks \ {p} : at'[q] = at[q] /\ todo'[q] = todo[q] /\ queue'[q] = queue[q]
  BY <1>1, <1>2 DEF Done, IInv, Domains
<1>6. QED
  BY <1>2, <1>4, <1>5, AlignedFrame

LEMMA AlignsMatch ==
  ASSUME Aligning, NEW p \in Ranks, NEW q \in Ranks, Match(p, q)
  PROVE  Aligning'
<1>1. UNCHANGED <<program, at, todo, queue, got>>
  BY DEF Match
<1>2. Aligned(p) /\ Current(p)' = Current(p)
  BY <1>1 DEF Aligning, Current
<1>3. Aligned(p)'
  BY <1>1, <1>2 DEF Aligned
<1>4. QED
  BY <1>1, <1>3, AlignedFrame

(* What a kernel read.                                                     *)
ReadBy(p, k) == UNION {buf[p][b] : b \in Reads(p, k)}

LEMMA ReadData ==
  ASSUME IInv, NEW p \in Ranks, queue[p] # <<>>, NEW k, k = Head(queue[p])
  PROVE  ReadBy(p, k) \in Data
<1>1. PICK Q : Q = queue[p] /\ Q \in Seq(KernelRecords) /\ Q # <<>>
  BY DEF IInv, Domains, KernelRecords
<1>2. k = Q[1] /\ 1 \in DOMAIN Q
  BY <1>1
<1>3. Kernel(p, k)
  BY <1>1, <1>2 DEF IInv, Local, Kernels
<1>4. ASSUME NEW b \in Reads(p, k) PROVE buf[p][b] \in SUBSET (Ranks \X Nat)
  BY <1>3, KernelMemory DEF IInv, Memory
<1>5. QED
  BY <1>4 DEF Data, ReadBy

(* p is given D by call i, after the calls that were refused since the     *)
(* last delivery.                                                          *)
Gives(p, i, D) ==
  /\ i \in Promise!Last(p) + 1 .. at[p]
  /\ \A j \in Promise!Last(p) + 1 .. i - 1 : ~ Promise!Supported(p, j)
  /\ Promise!Supported(p, i)
  /\ got' = [got EXCEPT ![p] = Append(@, <<i, D>>)]
  /\ UNCHANGED <<program, at, aborted>>

LEMMA AlignsRun ==
  ASSUME IInv, Aligning, NEW p \in Ranks, Run(p), NEW k, k = Head(queue[p])
  PROVE  /\ Aligning'
         /\ k.op = "consume" => Gives(p, k.call, ReadBy(p, k))
         /\ k.op # "consume" => got' = got
<1>1. /\ queue[p] # <<>> /\ queue' = [queue EXCEPT ![p] = Tail(@)]
      /\ UNCHANGED <<program, at, todo, entered, posted, aborted>>
      /\ got' = IF k.op = "consume" THEN [got EXCEPT ![p] = Append(@, <<k.call, ReadBy(p, k)>>)]
                ELSE got
  BY DEF Run, ReadBy
<1>2. PICK Q, l, D : Q = queue[p] /\ l = LastOf(got[p]) /\ D = ReadBy(p, k)
  OBVIOUS
<1>3. Q \in Seq(KernelRecords) /\ Q # <<>> /\ k = Head(Q) /\ k = Q[1] /\ 1 \in DOMAIN Q
  <2>1. Q \in Seq(KernelRecords) /\ Q # <<>> /\ k = Head(Q)
    BY <1>1, <1>2 DEF IInv, Domains, KernelRecords
  <2>2. QED
    BY <2>1
<1>4. at[p] \in Nat /\ (todo[p] = <<>>) \in BOOLEAN
  BY Here
<1>5. Shape(Current(p), todo[p]) /\ Lined(program[p], at[p], todo[p] = <<>>, Q, l)
  BY <1>2 DEF Aligning, Aligned
<1>6. /\ k.op # "consume" => Lined(program[p], at[p], todo[p] = <<>>, Tail(Q), l)
      /\ k.op = "consume" =>
           /\ Lined(program[p], at[p], todo[p] = <<>>, Tail(Q), k.call)
           /\ k.call \in l + 1 .. at[p] /\ Takes(program[p][k.call])
           /\ \A j \in l + 1 .. k.call - 1 : ~ Takes(program[p][j])
  <2>1. PICK idle, g, a : idle = (todo[p] = <<>>) /\ g = program[p] /\ a = at[p]
    OBVIOUS
  <2>2. idle \in BOOLEAN /\ a \in Nat /\ Lined(g, a, idle, Q, l)
    BY <1>4, <1>5, <2>1
  <2>3. /\ k.op # "consume" => Lined(g, a, idle, Tail(Q), l)
        /\ k.op = "consume" =>
             /\ Lined(g, a, idle, Tail(Q), k.call)
             /\ k.call \in l + 1 .. a /\ Takes(g[k.call])
             /\ \A j \in l + 1 .. k.call - 1 : ~ Takes(g[j])
    BY <1>3, <2>2, LinedRun
  <2>4. QED
    BY <2>1, <2>3
<1>7. D \in Data
  BY <1>1, <1>2, ReadData
<1>8. k.call \in Nat
  <2>1. k \in KernelRecords
    BY <1>3
  <2>2. QED
    BY <2>1 DEF KernelRecords
<1>9. /\ queue'[p] = Tail(Q) /\ Current(p)' = Current(p)
      /\ \A q \in Ranks \ {p} : queue'[q] = queue[q]
  BY <1>1, <1>2 DEF IInv, Domains, Current
<1>10. CASE k.op # "consume"
  <2>1. got' = got
    BY <1>1, <1>10
  <2>2. Aligned(p)'
    BY <1>1, <1>2, <1>5, <1>6, <1>9, <1>10, <2>1 DEF Aligned
  <2>3. QED
    BY <1>1, <1>9, <1>10, <2>1, <2>2, AlignedFrame
<1>11. CASE k.op = "consume"
  <2>1. PICK s, e, z : s = got[p] /\ e = <<k.call, D>> /\ z = Append(s, e)
    OBVIOUS
  <2>2. s \in Seq(Nat \X Data) /\ e \in Nat \X Data /\ e[1] = k.call
    BY <1>7, <1>8, <2>1 DEF Aligning
  <2>3. z \in Seq(Nat \X Data) /\ z # <<>> /\ Len(z) = Len(s) + 1 /\ z[Len(s) + 1] = e
    BY <2>1, <2>2
  <2>4. LastOf(z) = k.call
    BY <2>2, <2>3 DEF LastOf
  <2>5. got' = [got EXCEPT ![p] = z]
    BY <1>1, <1>2, <1>11, <2>1
  <2>6. /\ got'[p] = z /\ got' \in [Ranks -> Seq(Nat \X Data)]
        /\ \A q \in Ranks \ {p} : got'[q] = got[q]
    BY <2>3, <2>5 DEF Aligning
  <2>7. Aligned(p)'
    BY <1>1, <1>5, <1>6, <1>9, <1>11, <2>4, <2>6 DEF Aligned
  <2>8. ASSUME NEW q \in Ranks \ {p} PROVE Aligned(q)'
    <3>1. Aligned(q) /\ Current(q)' = Current(q)
      BY <1>1 DEF Aligning, Current
    <3>2. QED
      BY <1>1, <1>9, <2>6, <3>1 DEF Aligned
  <2>9. Aligning'
    BY <2>6, <2>7, <2>8 DEF Aligning
  <2>10. Promise!Last(p) = l
    BY <1>2 DEF Promise!Last, LastOf
  <2>11. Gives(p, k.call, D)
    BY <1>1, <1>2, <1>6, <1>11, <2>10, TakesIs DEF Gives
  <2>12. QED
    BY <1>2, <1>11, <2>9, <2>11
<1>12. QED
  BY <1>10, <1>11

LEMMA AlignsInit == ASSUME Init PROVE Aligning
<1>1. /\ program \in Programs /\ at = [p \in Ranks |-> 0] /\ todo = [p \in Ranks |-> <<>>]
      /\ queue = [p \in Ranks |-> <<>>] /\ got = [p \in Ranks |-> <<>>]
  BY DEF Init
<1>2. ASSUME NEW p \in Ranks PROVE Aligned(p)
  <2>1. /\ at[p] = 0 /\ todo[p] = <<>> /\ queue[p] = <<>> /\ LastOf(got[p]) = 0
        /\ (todo[p] = <<>>) = TRUE
    BY <1>1 DEF LastOf
  <2>2. Lined(program[p], 0, TRUE, <<>>, 0)
    BY DEF Lined
  <2>3. Shape(Current(p), <<>>)
    BY DEF Shape
  <2>4. QED
    BY <2>1, <2>2, <2>3 DEF Aligned
<1>3. got \in [Ranks -> Seq(Nat \X Data)]
  BY <1>1
<1>4. QED
  BY <1>2, <1>3 DEF Aligning

LEMMA Aligns == ASSUME IInv, Aligning, [Next]_vars PROVE Aligning'
<1>1. ASSUME NEW p \in Ranks, Step(p) PROVE Aligning'
  BY <1>1, AlignsCall, AlignsCheck, AlignsEnqueue, AlignsStep DEF Step
<1>2. ASSUME NEW p \in Ranks, Leave(p) \/ Finish(p) PROVE Aligning'
  BY <1>2, AlignsStep
<1>3. ASSUME NEW p \in Ranks, Run(p) PROVE Aligning'
  BY <1>3, AlignsRun
<1>4. ASSUME NEW p \in Ranks, NEW q \in Ranks, Match(p, q) PROVE Aligning'
  BY <1>4, AlignsMatch
<1>5. CASE UNCHANGED vars
  <2>1. UNCHANGED <<program, at, todo, queue, got>>
    BY <1>5 DEF vars
  <2>2. ASSUME NEW p \in Ranks PROVE Aligned(p)'
    <3>1. Aligned(p) /\ Current(p)' = Current(p)
      BY <2>1 DEF Aligning, Current
    <3>2. QED
      BY <2>1, <3>1 DEF Aligned
  <2>3. QED
    BY <2>1, <2>2 DEF Aligning
<1>6. QED
  BY <1>1, <1>2, <1>3, <1>4, <1>5 DEF Next

(* What each rank has still to use is what its calls brought and it has     *)
(* not used yet, in the order of the calls, without those that are          *)
(* refused.                                                                 *)
THEOREM Alignment == Spec => []Aligning
<1>1. Init => Aligning
  BY AlignsInit
<1>2. IInv /\ Aligning /\ [Next]_vars => Aligning'
  BY Aligns
<1>3. QED
  BY <1>1, <1>2, Invariance, PTL DEF Spec

(* A check that fails is of a call that is not supported.                  *)
LEMMA CheckPromised ==
  ASSUME IInv, Aligning, NEW p \in Ranks, Check(p)
  PROVE  Promise!Abort(p) \/ UNCHANGED Promise!vars
<1>1. UNCHANGED <<program, at, got>>
  BY DEF Check
<1>2. PICK h \in Screens :
        /\ At(p, h)
        /\ \/ UNCHANGED aborted
           \/ /\ ~ Accepted(Current(p), h) /\ Current(p).fn \notin Promise!Scans
              /\ aborted' = TRUE
  BY Checked
<1>3. CASE UNCHANGED aborted
  BY <1>1, <1>3 DEF Promise!vars
<1>4. CASE /\ ~ Accepted(Current(p), h) /\ Current(p).fn \notin Promise!Scans
           /\ aborted' = TRUE
  <2>1. PICK c, t : c = Current(p) /\ t = todo[p]
    OBVIOUS
  <2>2. Ordered(c, t) /\ t # <<>> /\ h = Head(t) /\ c = program[p][at[p]] /\ at[p] > 0
    BY <1>2, <2>1, Here DEF At
  <2>3. Shape(c, t)
    BY <2>1 DEF Aligning, Aligned
  <2>4. ~ Takes(c)
    BY <1>4, <2>1, <2>2, <2>3, FirstShape
  <2>5. ~ Promise!Supported(p, at[p])
    BY <2>2, <2>4, TakesIs
  <2>6. Promise!Abort(p)
    BY <1>1, <1>4, <2>1, <2>2, <2>5 DEF Promise!Abort
  <2>7. QED
    BY <2>6
<1>5. QED
  BY <1>2, <1>3, <1>4

LEMMA CallPromised ==
  ASSUME IInv, NEW p \in Ranks, Call(p)
  PROVE  Promise!Begin(p)
BY DEF Call, Promise!Begin

(* The calls of a rank begin in the order of its program; what they bring  *)
(* is used in that order, each time once, and of every call but those that *)
(* are refused; and only a call that is refused, and does not throw, ends  *)
(* the program: for any programs Delivery is implemented up to which data  *)
(* a call brings, and from when on.                                        *)
THEOREM DeliversInOrder ==
  Spec => /\ Promise!Init
          /\ [][\E p \in Ranks :
                  \/ Promise!Begin(p) \/ Promise!Abort(p)
                  \/ \E i \in Nat, D \in Data : Gives(p, i, D)]_Promise!vars
<1> DEFINE Orderly == \E p \in Ranks :
             \/ Promise!Begin(p) \/ Promise!Abort(p)
             \/ \E i \in Nat, D \in Data : Gives(p, i, D)
<1>1. Init => Promise!Init
  BY DEF Init, Promise!Init
<1>2. IInv /\ Aligning /\ Aligning' /\ [Next]_vars => [Orderly]_Promise!vars
  <2> SUFFICES ASSUME IInv, Aligning, Aligning', [Next]_vars
               PROVE  Orderly \/ UNCHANGED Promise!vars
    OBVIOUS
  <2>1. ASSUME NEW p \in Ranks, Call(p) PROVE Orderly
    BY <2>1, CallPromised
  <2>2. ASSUME NEW p \in Ranks, Check(p) PROVE Orderly \/ UNCHANGED Promise!vars
    BY <2>2, CheckPromised
  <2>3. ASSUME NEW p \in Ranks, Fence(p) \/ Enqueue(p) \/ Enter(p) \/ Message(p) \/ Leave(p) \/ Finish(p)
        PROVE  UNCHANGED Promise!vars
    BY <2>3 DEF Fence, Enqueue, Enter, Message, Leave, Finish, Promise!vars
  <2>4. ASSUME NEW p \in Ranks, NEW q \in Ranks, Match(p, q) PROVE UNCHANGED Promise!vars
    BY <2>4 DEF Match, Promise!vars
  <2>5. ASSUME NEW p \in Ranks, Run(p) PROVE Orderly \/ UNCHANGED Promise!vars
    <3>1. PICK k : k = Head(queue[p])
      OBVIOUS
    <3>2. CASE k.op = "consume"
      <4>1. PICK i, D : i = k.call /\ D = ReadBy(p, k) /\ Gives(p, i, D)
        BY <2>5, <3>1, <3>2, AlignsRun
      <4>2. i \in Nat
        <5>1. queue[p] # <<>> /\ queue[p] \in Seq(KernelRecords)
          BY <2>5 DEF Run, IInv, Domains, KernelRecords
        <5>2. k \in KernelRecords
          BY <3>1, <5>1
        <5>3. QED
          BY <4>1, <5>2 DEF KernelRecords
      <4>3. D \in Data
        BY <2>5, <3>1, <4>1, ReadData DEF Run
      <4>4. QED
        BY <4>1, <4>2, <4>3
    <3>3. CASE k.op # "consume"
      <4>1. got' = got
        BY <2>5, <3>1, <3>3, AlignsRun
      <4>2. QED
        BY <2>5, <4>1 DEF Run, Promise!vars
    <3>4. QED
      BY <3>2, <3>3
  <2>6. CASE UNCHANGED vars
    BY <2>6 DEF vars, Promise!vars
  <2>7. QED
    BY <2>1, <2>2, <2>3, <2>4, <2>5, <2>6 DEF Next, Step
<1>3. QED
  BY <1>1, <1>2, Invariance, Alignment, PTL DEF Spec
=============================================================================
