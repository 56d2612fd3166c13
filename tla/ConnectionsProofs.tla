------------------------- MODULE ConnectionsProofs --------------------------
(***************************************************************************)
(* Proofs about clients and the server, for any number of clients, any     *)
(* scripts and requests of other programs, and any way to spell requests   *)
(* and answers in which no beginning of a request is one.                  *)
(*                                                                         *)
(* The properties speak of the histories alone, and what keeps them true   *)
(* is where the last request of a client is: on its way to the server, in  *)
(* the handler, being answered, or its answer on the way back; in one of   *)
(* these places at most, and only while its client waits or has ended.     *)
(* The invariant says this (Way), together with what the histories have in *)
(* common (Account).                                                       *)
(***************************************************************************)
EXTENDS Connections, TLAPS

(* What a client may come to send, and what the handler notes of it.       *)
Sendable ==
    {OfScript(ts, i) : ts \in {work[c].script : work \in Works, c \in Clients}, i \in Nat \ {0}}
    \cup {OfProgram(work[c].request) : work \in Works, c \in Clients}
Requests == {r \in Sendable : Carried(r)}
Outcomes == {"success", "failure"}
Runs == [stmt : {r.stmt : r \in Requests}, outcome : Outcomes]
Answers == {"success", "error"}

(* Of one client in step st: what it sent, what was executed of it and     *)
(* what it was told.                                                       *)
Account(st, s, d, t) ==
    /\ Len(t) = IF st = "waiting" THEN Len(s) - 1 ELSE Len(s)
    /\ \/ Len(d) = Len(s)
       \/ st \in {"waiting", "ended"} /\ Len(d) = Len(s) - 1
    /\ \A k \in 1 .. Len(d) : d[k].stmt = s[k].stmt
    /\ \A k \in 1 .. Len(t) : t[k] = "success" =>
          k <= Len(d) /\ d[k].outcome = "success"

(* u and w are its wires, and sv is the server, where it is busy with this *)
(* client in step b.                                                       *)
Beginning(u, units) == \E n \in 0 .. Len(units) : u = SubSeq(units, 1, n)
Due(s, d) == s # <<>> /\ Len(d) = Len(s) - 1
Executed(s, d) == s # <<>> /\ Len(d) = Len(s)
Busy(b) == b \in {"handling", "replying"}

Way(st, s, d, u, w, b, sv) ==
    /\ u # <<>> => /\ Due(s, d) /\ w = <<>> /\ ~Busy(b)
                   /\ Beginning(u, RequestOf(s[Len(s)]))
    /\ b = "handling" => /\ Due(s, d) /\ u = <<>> /\ w = <<>>
                         /\ sv.stmt = s[Len(s)].stmt
    /\ b = "replying" => /\ Executed(s, d) /\ u = <<>> /\ w = <<>>
                         /\ sv.outcome = d[Len(d)].outcome
    /\ w # <<>> => /\ Executed(s, d) /\ u = <<>> /\ ~Busy(b)
                   /\ Beginning(w, ReplyOf(d[Len(d)].outcome))
    /\ (u # <<>> \/ w # <<>> \/ Busy(b)) => st \in {"waiting", "ended"}

BusyWith(sv, c) == IF sv.client = c THEN sv.step ELSE "idle"

Histories ==
    /\ \E work \in Works : /\ script = [c \in Clients |-> work[c].script]
                          /\ request = [c \in Clients |-> work[c].request]
    /\ DOMAIN server = {"step", "client", "stmt", "outcome"}
    /\ DOMAIN pending = Clients /\ DOMAIN up = Clients /\ DOMAIN down = Clients
    /\ \A c \in Clients : step[c] = "mapped" => pending[c] \in Requests
    /\ sent \in [Clients -> Seq(Requests)] /\ executed \in [Clients -> Seq(Runs)]

CInv ==
    /\ TypeOK /\ Histories
    /\ \A c \in Clients :
          /\ Account(step[c], sent[c], executed[c], told[c])
          /\ Way(step[c], sent[c], executed[c], up[c], down[c], BusyWith(server, c), server)
-----------------------------------------------------------------------------
(* What is left of a beginning is one, and so is the whole.                *)
LEMMA BeginningOfBeginning ==
    ASSUME NEW x, NEW u, IsSeq(x), Beginning(u, x), NEW n \in 0 .. Len(u)
    PROVE  Beginning(SubSeq(u, 1, n), x)
<1>1. PICK m \in 0 .. Len(x) : u = SubSeq(x, 1, m)
  BY DEF Beginning
<1>2. PICK S : S = {x[k] : k \in DOMAIN x}
  OBVIOUS
<1>3. x \in Seq(S)
  BY <1>2 DEF IsSeq
<1>4. Len(u) = m /\ n \in 0 .. m
  BY <1>1, <1>3
<1>5. SubSeq(u, 1, n) = SubSeq(x, 1, n)
  BY <1>1, <1>3, <1>4
<1> QED BY <1>3, <1>4, <1>5 DEF Beginning

LEMMA WholeIsBeginning ==
    ASSUME NEW x, IsSeq(x)
    PROVE  <<>> \o x = x /\ Beginning(x, x)
<1>1. PICK S : S = {x[k] : k \in DOMAIN x}
  OBVIOUS
<1>2. x \in Seq(S)
  BY <1>1 DEF IsSeq
<1>3. <<>> \o x = x
  BY <1>2
<1>4. x = SubSeq(x, 1, Len(x)) /\ Len(x) \in 0 .. Len(x)
  BY <1>2
<1> QED BY <1>3, <1>4 DEF Beginning

(* The requests that clients come to are carried by the wire as they are.  *)
LEMMA RequestCarried ==
    ASSUME NEW r \in Requests, NEW u, Beginning(u, RequestOf(r)), RequestIn(u).ok
    PROVE  RequestIn(u).read[1].fields.stmt[1] = r.stmt /\ RequestIn(u).rest = <<>>
BY DEF Requests, Carried, Beginning

LEMMA SuccessCarried ==
    ASSUME NEW o \in Outcomes, NEW w, Beginning(w, ReplyOf(o)), AnswerIn(w) = "success"
    PROVE  o = "success"
BY WireAssumption DEF Outcomes, Beginning

LEMMA NothingRead == ~RequestIn(<<>>).ok /\ AnswerIn(<<>>) # "success"
<1>1. PICK x : x = ReplyOf("failure")
  OBVIOUS
<1>2. x \in Seq({x[k] : k \in DOMAIN x})
  BY <1>1, WireAssumption DEF IsSeq
<1>3. SubSeq(x, 1, 0) = <<>> /\ 0 \in 0 .. Len(x)
  BY <1>2
<1> QED BY <1>1, <1>3, WireAssumption
-----------------------------------------------------------------------------
(* One client's histories.                                                 *)
LEMMA QuietAccount ==
    ASSUME NEW s, NEW d, NEW t, NEW st, NEW st1, Account(st, s, d, t),
           st \in {"new", "prompt", "mapped", "undefined"}, st1 # "waiting"
    PROVE  Account(st1, s, d, t)
BY DEF Account

LEMMA SentAccount ==
    ASSUME NEW s \in Seq(Requests), NEW d \in Seq(Runs), NEW t \in Seq(Answers),
           NEW r \in Requests, Account("mapped", s, d, t)
    PROVE  /\ Account("waiting", Append(s, r), d, t)
           /\ Account("ended", Append(s, r), d, Append(t, "error"))
           /\ Append(s, r) \in Seq(Requests) /\ Append(t, "error") \in Seq(Answers)
           /\ Due(Append(s, r), d) /\ Append(s, r)[Len(Append(s, r))] = r
<1>1. Len(t) = Len(s) /\ Len(d) = Len(s)
  BY DEF Account
<1>2. \A k \in 1 .. Len(d) : d[k].stmt = s[k].stmt
  BY DEF Account
<1>3. \A k \in 1 .. Len(t) : t[k] = "success" => k <= Len(d) /\ d[k].outcome = "success"
  BY DEF Account
<1>4. PICK s1 : s1 = Append(s, r)
  OBVIOUS
<1>5. PICK t1 : t1 = Append(t, "error")
  OBVIOUS
<1>6. /\ s1 \in Seq(Requests) /\ Len(s1) = Len(s) + 1 /\ s1[Len(s) + 1] = r
      /\ \A k \in 1 .. Len(s) : s1[k] = s[k]
  BY <1>4
<1>7. /\ t1 \in Seq(Answers) /\ Len(t1) = Len(t) + 1 /\ t1[Len(t) + 1] = "error"
      /\ \A k \in 1 .. Len(t) : t1[k] = t[k]
  BY <1>5 DEF Answers
<1>8. Len(s) \in Nat /\ Len(d) \in Nat /\ Len(t) \in Nat
  OBVIOUS
<1>9. \A k \in 1 .. Len(d) : d[k].stmt = s1[k].stmt
  BY <1>1, <1>2, <1>6
<1>10. Account("waiting", s1, d, t)
  BY <1>1, <1>3, <1>6, <1>8, <1>9 DEF Account
<1>11. \A k \in 1 .. Len(t1) : t1[k] = "success" => k <= Len(d) /\ d[k].outcome = "success"
  BY <1>3, <1>7, <1>8
<1>12. Account("ended", s1, d, t1)
  BY <1>1, <1>6, <1>7, <1>8, <1>9, <1>11 DEF Account
<1>13. Due(s1, d) /\ s1[Len(s1)] = r
  BY <1>1, <1>6, <1>8 DEF Due
<1> QED BY <1>4, <1>5, <1>6, <1>7, <1>10, <1>12, <1>13

LEMMA ToldAccount ==
    ASSUME NEW s \in Seq(Requests), NEW d \in Seq(Runs), NEW t \in Seq(Answers),
           NEW a \in Answers, Account("waiting", s, d, t),
           a = "success" => Executed(s, d) /\ d[Len(d)].outcome = "success"
    PROVE  /\ Account(IF a = "success" THEN "prompt" ELSE "ended", s, d, Append(t, a))
           /\ Append(t, a) \in Seq(Answers)
<1>1. Len(s) \in Nat /\ Len(d) \in Nat /\ Len(t) \in Nat
  OBVIOUS
<1>2. Len(t) = Len(s) - 1 /\ Len(d) \in {Len(s), Len(s) - 1}
  BY DEF Account
<1>3. \A k \in 1 .. Len(d) : d[k].stmt = s[k].stmt
  BY DEF Account
<1>4. \A k \in 1 .. Len(t) : t[k] = "success" => k <= Len(d) /\ d[k].outcome = "success"
  BY DEF Account
<1>5. PICK t1 : t1 = Append(t, a)
  OBVIOUS
<1>6. /\ t1 \in Seq(Answers) /\ Len(t1) = Len(t) + 1 /\ t1[Len(t) + 1] = a
      /\ \A k \in 1 .. Len(t) : t1[k] = t[k]
  BY <1>5
<1>7. a = "success" => Len(t1) = Len(d) /\ d[Len(t1)].outcome = "success"
  BY <1>1, <1>2, <1>6 DEF Executed
<1>8. \A k \in 1 .. Len(t1) : t1[k] = "success" => k <= Len(d) /\ d[k].outcome = "success"
  BY <1>1, <1>4, <1>6, <1>7
<1>9. Account(IF a = "success" THEN "prompt" ELSE "ended", s, d, t1)
  BY <1>1, <1>2, <1>3, <1>6, <1>7, <1>8 DEF Account
<1> QED BY <1>5, <1>6, <1>9

LEMMA ExecutedAccount ==
    ASSUME NEW s \in Seq(Requests), NEW d \in Seq(Runs), NEW t \in Seq(Answers), NEW st,
           NEW x \in Runs, Account(st, s, d, t), Due(s, d), st \in {"waiting", "ended"},
           x.stmt = s[Len(s)].stmt
    PROVE  /\ Account(st, s, Append(d, x), t) /\ Append(d, x) \in Seq(Runs)
           /\ Executed(s, Append(d, x))
           /\ Append(d, x)[Len(Append(d, x))] = x
<1>1. Len(s) \in Nat /\ Len(d) \in Nat /\ Len(t) \in Nat
  OBVIOUS
<1>2. Len(d) = Len(s) - 1 /\ s # <<>>
  BY DEF Due
<1>3. \A k \in 1 .. Len(d) : d[k].stmt = s[k].stmt
  BY DEF Account
<1>4. \A k \in 1 .. Len(t) : t[k] = "success" => k <= Len(d) /\ d[k].outcome = "success"
  BY DEF Account
<1>5. PICK d1 : d1 = Append(d, x)
  OBVIOUS
<1>6. /\ d1 \in Seq(Runs) /\ Len(d1) = Len(d) + 1 /\ d1[Len(d) + 1] = x
      /\ \A k \in 1 .. Len(d) : d1[k] = d[k]
  BY <1>5
<1>7. Len(d1) = Len(s)
  BY <1>1, <1>2, <1>6
<1>8. \A k \in 1 .. Len(d1) : d1[k].stmt = s[k].stmt
  BY <1>1, <1>2, <1>3, <1>6
<1>9. \A k \in 1 .. Len(t) : t[k] = "success" => k <= Len(d1) /\ d1[k].outcome = "success"
  BY <1>1, <1>4, <1>6
<1>10. Len(t) = IF st = "waiting" THEN Len(s) - 1 ELSE Len(s)
  BY DEF Account
<1>11. Account(st, s, d1, t)
  BY <1>7, <1>8, <1>9, <1>10 DEF Account
<1> QED BY <1>2, <1>5, <1>6, <1>7, <1>11 DEF Executed
-----------------------------------------------------------------------------
(* Where one client's last request is.                                     *)
LEMMA QuietWay ==
    ASSUME NEW st, NEW s, NEW d, NEW u, NEW w, NEW b, NEW sv, Way(st, s, d, u, w, b, sv),
           st \in {"new", "prompt", "mapped", "undefined"}
    PROVE  u = <<>> /\ w = <<>> /\ ~Busy(b)
BY DEF Way

LEMMA NothingOnTheWay ==
    ASSUME NEW st, NEW s, NEW d, NEW b, NEW sv, ~Busy(b)
    PROVE  Way(st, s, d, <<>>, <<>>, b, sv)
BY DEF Way, Busy

LEMMA ServerAway ==
    ASSUME NEW st, NEW s, NEW d, NEW u, NEW w, NEW b, NEW sv, Way(st, s, d, u, w, b, sv),
           NEW b1, NEW sv1, ~Busy(b1)
    PROVE  Way(st, s, d, u, w, b1, sv1)
BY DEF Way, Busy

LEMMA BreakWay ==
    ASSUME NEW st, NEW s \in Seq(Requests), NEW d \in Seq(Runs), NEW u, NEW w, NEW b, NEW sv,
           Way(st, s, d, u, w, b, sv), NEW n \in 0 .. Len(u), NEW m \in 0 .. Len(w)
    PROVE  Way(st, s, d, SubSeq(u, 1, n), SubSeq(w, 1, m), b, sv)
<1>1. PICK u1 : u1 = SubSeq(u, 1, n)
  OBVIOUS
<1>2. PICK w1 : w1 = SubSeq(w, 1, m)
  OBVIOUS
<1>3. u = <<>> => u1 = <<>>
  BY <1>1
<1>4. w = <<>> => w1 = <<>>
  BY <1>2
<1>5. u # <<>> => Beginning(u1, RequestOf(s[Len(s)]))
  <2>1. SUFFICES ASSUME u # <<>> PROVE Beginning(u1, RequestOf(s[Len(s)]))
    OBVIOUS
  <2>2. Due(s, d) /\ Beginning(u, RequestOf(s[Len(s)]))
    BY <2>1 DEF Way
  <2>3. s[Len(s)] \in Requests
    BY <2>2 DEF Due
  <2>4. IsSeq(RequestOf(s[Len(s)]))
    BY <2>3 DEF Requests, Carried
  <2> QED BY <1>1, <2>2, <2>4, BeginningOfBeginning
<1>6. w # <<>> => Beginning(w1, ReplyOf(d[Len(d)].outcome))
  <2>1. SUFFICES ASSUME w # <<>> PROVE Beginning(w1, ReplyOf(d[Len(d)].outcome))
    OBVIOUS
  <2>2. Executed(s, d) /\ Beginning(w, ReplyOf(d[Len(d)].outcome))
    BY <2>1 DEF Way
  <2>3. d[Len(d)] \in Runs
    BY <2>2 DEF Executed
  <2>4. IsSeq(ReplyOf(d[Len(d)].outcome))
    BY <2>3, WireAssumption DEF Runs, Outcomes
  <2> QED BY <1>2, <2>2, <2>4, BeginningOfBeginning
<1>7. Way(st, s, d, u1, w1, b, sv)
  BY <1>3, <1>4, <1>5, <1>6 DEF Way
<1> QED BY <1>1, <1>2, <1>7

LEMMA SentWay ==
    ASSUME NEW s \in Seq(Requests), NEW d, NEW r \in Requests, NEW b, NEW sv, ~Busy(b),
           Due(s, d), s[Len(s)] = r
    PROVE  Way("waiting", s, d, <<>> \o RequestOf(r), <<>>, b, sv)
<1>1. <<>> \o RequestOf(r) = RequestOf(r) /\ Beginning(RequestOf(r), RequestOf(r))
  BY WholeIsBeginning DEF Requests, Carried
<1> QED BY <1>1 DEF Way, Busy

(* A request that can be read is there as a whole and the one that is due. *)
LEMMA ReadWay ==
    ASSUME NEW st, NEW s \in Seq(Requests), NEW d, NEW u, NEW w, NEW sv,
           Way(st, s, d, u, w, "reading", sv), RequestIn(u).ok,
           NEW sv1, sv1.stmt = RequestIn(u).read[1].fields.stmt[1]
    PROVE  Way(st, s, d, RequestIn(u).rest, w, "handling", sv1)
<1>1. u # <<>>
  BY NothingRead
<1>2. /\ Due(s, d) /\ w = <<>> /\ Beginning(u, RequestOf(s[Len(s)]))
      /\ st \in {"waiting", "ended"}
  BY <1>1 DEF Way
<1>3. s[Len(s)] \in Requests
  BY <1>2 DEF Due
<1>4. sv1.stmt = s[Len(s)].stmt /\ RequestIn(u).rest = <<>>
  BY <1>2, <1>3, RequestCarried
<1> QED BY <1>2, <1>4 DEF Way

LEMMA ExecutedWay ==
    ASSUME NEW st, NEW s, NEW d, NEW u, NEW w, NEW sv, Way(st, s, d, u, w, "handling", sv),
           NEW d1, NEW sv1, Executed(s, d1), sv1.outcome = d1[Len(d1)].outcome
    PROVE  Way(st, s, d1, u, w, "replying", sv1)
BY DEF Way, Busy

LEMMA RepliedWay ==
    ASSUME NEW st, NEW s, NEW d \in Seq(Runs), NEW u, NEW w, NEW sv,
           Way(st, s, d, u, w, "replying", sv), NEW b, NEW sv1, ~Busy(b)
    PROVE  /\ Way(st, s, d, u, w, b, sv1)
           /\ Way(st, s, d, u, w \o ReplyOf(sv.outcome), b, sv1)
<1>1. /\ Executed(s, d) /\ u = <<>> /\ w = <<>> /\ sv.outcome = d[Len(d)].outcome
      /\ st \in {"waiting", "ended"}
  BY DEF Way, Busy
<1>2. d[Len(d)] \in Runs
  BY <1>1 DEF Executed
<1>3. w \o ReplyOf(sv.outcome) = ReplyOf(sv.outcome)
  BY <1>1, <1>2, WholeIsBeginning, WireAssumption DEF Runs, Outcomes
<1>4. Beginning(ReplyOf(sv.outcome), ReplyOf(d[Len(d)].outcome))
  BY <1>1, <1>2, WholeIsBeginning, WireAssumption DEF Runs, Outcomes
<1>5. Way(st, s, d, u, ReplyOf(sv.outcome), b, sv1)
  BY <1>1, <1>4 DEF Way, Busy
<1>6. Way(st, s, d, u, w, b, sv1)
  BY ServerAway
<1> QED BY <1>3, <1>5, <1>6

(* A client is told of a success only if its last statement had it, and    *)
(* then nothing more is on its way.                                        *)
LEMMA ReceivedWay ==
    ASSUME NEW s, NEW d \in Seq(Runs), NEW u, NEW w, NEW b, NEW sv,
           Way("waiting", s, d, u, w, b, sv), NEW a \in Answers,
           a = "success" => AnswerIn(w) = "success"
    PROVE  /\ a = "success" => Executed(s, d) /\ d[Len(d)].outcome = "success"
           /\ Way(IF a = "success" THEN "prompt" ELSE "ended", s, d, u, <<>>, b, sv)
<1>1. CASE a = "success"
  <2>1. w # <<>>
    BY <1>1, NothingRead
  <2>2. /\ Executed(s, d) /\ u = <<>> /\ ~Busy(b)
        /\ Beginning(w, ReplyOf(d[Len(d)].outcome))
    BY <2>1 DEF Way
  <2>3. d[Len(d)] \in Runs
    BY <2>2 DEF Executed
  <2>4. d[Len(d)].outcome \in Outcomes
    BY <2>3 DEF Runs
  <2> QED BY <1>1, <2>2, <2>4, SuccessCarried, NothingOnTheWay
<1>2. CASE a # "success"
  BY <1>2 DEF Way
<1> QED BY <1>1, <1>2
-----------------------------------------------------------------------------
(* The steps.  Each is one client's, or the server's with the client it    *)
(* serves; whatever server it leaves behind is not busy with another one   *)
(* unless it was before.                                                   *)
Same(x) ==
    /\ step'[x] = step[x] /\ sent'[x] = sent[x] /\ executed'[x] = executed[x]
    /\ told'[x] = told[x] /\ up'[x] = up[x] /\ down'[x] = down[x]

LEMMA OtherKept ==
    ASSUME CInv, NEW x \in Clients, Same(x),
           server' = server \/ ~Busy(BusyWith(server', x))
    PROVE  /\ Account(step'[x], sent'[x], executed'[x], told'[x])
           /\ Way(step'[x], sent'[x], executed'[x], up'[x], down'[x], BusyWith(server', x),
                  server')
<1>1. /\ Account(step[x], sent[x], executed[x], told[x])
      /\ Way(step[x], sent[x], executed[x], up[x], down[x], BusyWith(server, x), server)
  BY DEF CInv
<1>2. CASE server' = server
  BY <1>1, <1>2 DEF Same
<1>3. CASE ~Busy(BusyWith(server', x))
  <2>1. Way(step[x], sent[x], executed[x], up[x], down[x], BusyWith(server', x), server')
    BY <1>1, <1>3, ServerAway
  <2> QED BY <1>1, <2>1 DEF Same
<1> QED BY <1>2, <1>3

LEMMA OneKept ==
    ASSUME CInv, TypeOK', Histories', NEW c \in Clients,
           \A x \in Clients \ {c} : Same(x),
           \A x \in Clients \ {c} : server' = server \/ ~Busy(BusyWith(server', x)),
           Account(step'[c], sent'[c], executed'[c], told'[c]),
           Way(step'[c], sent'[c], executed'[c], up'[c], down'[c], BusyWith(server', c),
               server')
    PROVE  CInv'
<1>1. ASSUME NEW x \in Clients
      PROVE  /\ Account(step'[x], sent'[x], executed'[x], told'[x])
             /\ Way(step'[x], sent'[x], executed'[x], up'[x], down'[x], BusyWith(server', x),
                    server')
  <2>1. CASE x = c
    BY <2>1
  <2>2. CASE x # c
    BY <2>2, OtherKept
  <2> QED BY <2>1, <2>2
<1> QED BY <1>1 DEF CInv

LEMMA AllKept ==
    ASSUME CInv, TypeOK', Histories', \A x \in Clients : Same(x),
           server' = server \/ \A x \in Clients : ~Busy(BusyWith(server', x))
    PROVE  CInv'
<1>1. ASSUME NEW x \in Clients
      PROVE  /\ Account(step'[x], sent'[x], executed'[x], told'[x])
             /\ Way(step'[x], sent'[x], executed'[x], up'[x], down'[x], BusyWith(server', x),
                    server')
  BY OtherKept
<1> QED BY <1>1 DEF CInv

LEMMA OfClient ==
    ASSUME CInv, NEW c \in Clients
    PROVE  /\ sent[c] \in Seq(Requests) /\ executed[c] \in Seq(Runs)
           /\ told[c] \in Seq(Answers)
           /\ Account(step[c], sent[c], executed[c], told[c])
           /\ Way(step[c], sent[c], executed[c], up[c], down[c], BusyWith(server, c), server)
BY DEF CInv, TypeOK, Histories, Answers

(* The client's step changes and nothing that is on its way.               *)
LEMMA QuietStep ==
    ASSUME CInv, NEW c \in Clients, NEW st1, st1 # "waiting",
           step[c] \in {"new", "prompt", "mapped", "undefined"},
           step' = [step EXCEPT ![c] = st1], TypeOK', Histories',
           UNCHANGED <<up, down, server, sent, executed, told>>
    PROVE  CInv'
<1>1. step'[c] = st1 /\ \A x \in Clients \ {c} : step'[x] = step[x]
  BY DEF CInv, TypeOK
<1>2. Account(st1, sent[c], executed[c], told[c])
  BY OfClient, QuietAccount
<1>3. up[c] = <<>> /\ down[c] = <<>> /\ ~Busy(BusyWith(server, c))
  BY OfClient, QuietWay
<1>4. Way(st1, sent[c], executed[c], up[c], down[c], BusyWith(server, c), server)
  BY <1>3, NothingOnTheWay
<1> QED BY <1>1, <1>2, <1>4, OneKept DEF Same

LEMMA OpenKeeps == ASSUME CInv, NEW c \in Clients, Open(c) PROVE CInv'
<1>1. TypeOK'
  BY DEF CInv, TypeOK, Open, history
<1>2. Histories'
  BY DEF CInv, TypeOK, Histories, Open, typed, history
<1> QED BY <1>1, <1>2, QuietStep DEF Open, history

LEMMA ScriptRead ==
    ASSUME CInv, NEW c \in Clients, Typing(c)
    PROVE  /\ ParseOf(script[c], at[c]).at \in Nat \ {0}
           /\ ParseOf(script[c], at[c]).ok /\ HasMapping(ParseOf(script[c], at[c]).node) =>
                 OfScript(script[c], at[c]) \in Requests
<1>1. PICK work \in Works : script = [x \in Clients |-> work[x].script]
  BY DEF CInv, Histories
<1>2. script[c] = work[c].script
  BY <1>1
<1>3. PICK ts : ts = work[c].script
  OBVIOUS
<1>4. ts \in Seq({ts[k] : k \in DOMAIN ts})
  BY <1>3, WorksAssumption DEF IsSeq
<1>5. PICK i : i = at[c]
  OBVIOUS
<1>6. i \in Nat \ {0} /\ i \in DOMAIN ts
  BY <1>2, <1>3, <1>4, <1>5 DEF CInv, TypeOK, Typing
<1>7. /\ ParseOf(ts, i).at \in Nat \ {0}
      /\ ParseOf(ts, i).ok /\ HasMapping(ParseOf(ts, i).node) => Carried(OfScript(ts, i))
  BY <1>3, <1>6, WorksAssumption
<1>8. OfScript(ts, i) \in Sendable
  BY <1>3, <1>6 DEF Sendable
<1> QED BY <1>2, <1>3, <1>5, <1>7, <1>8 DEF Requests

LEMMA ParseKeeps == ASSUME CInv, NEW c \in Clients, Parse(c) PROVE CInv'
<1>1. Typing(c) /\ ParseOf(script[c], at[c]).ok
      /\ at' = [at EXCEPT ![c] = ParseOf(script[c], at[c]).at]
  BY DEF Parse
<1>2. PICK st1 \in {"mapped", "undefined"} :
          /\ step' = [step EXCEPT ![c] = st1]
          /\ st1 = "mapped" => /\ HasMapping(ParseOf(script[c], at[c]).node)
                               /\ pending' = [pending EXCEPT ![c] = OfScript(script[c], at[c])]
          /\ st1 = "undefined" => pending' = pending
  BY DEF Parse
<1>3. UNCHANGED <<script, request, line, up, down, server, running, sent, executed, told>>
  BY DEF Parse, typed, wires, history
<1>4. TypeOK'
  BY <1>1, <1>2, <1>3, ScriptRead DEF CInv, TypeOK
<1>5. step'[c] = "mapped" => pending'[c] \in Requests
  BY <1>1, <1>2, ScriptRead DEF CInv, TypeOK, Histories
<1>6. \A x \in Clients \ {c} : step'[x] = step[x] /\ pending'[x] = pending[x]
  BY <1>2 DEF CInv, TypeOK, Histories
<1>7. DOMAIN pending' = Clients
  BY <1>2 DEF CInv, Histories
<1>8. Histories'
  BY <1>3, <1>5, <1>6, <1>7 DEF CInv, Histories
<1>9. step[c] = "prompt"
  BY <1>1 DEF Typing
<1> QED BY <1>2, <1>3, <1>4, <1>8, <1>9, QuietStep

LEMMA PrepareKeeps == ASSUME CInv, NEW c \in Clients, Prepare(c) PROVE CInv'
<1>1. /\ step[c] = "prompt" /\ request[c] # None
      /\ step' = [step EXCEPT ![c] = "mapped"] /\ at' = [at EXCEPT ![c] = 2]
      /\ pending' = [pending EXCEPT ![c] = OfProgram(request[c])]
  BY DEF Prepare
<1>2. UNCHANGED <<script, request, line, up, down, server, running, sent, executed, told>>
  BY DEF Prepare, typed, wires, history
<1>3. TypeOK'
  BY <1>1, <1>2 DEF CInv, TypeOK
<1>4. PICK work \in Works : request = [x \in Clients |-> work[x].request]
  BY DEF CInv, Histories
<1>5. OfProgram(request[c]) \in Requests
  <2>1. request[c] = work[c].request
    BY <1>4
  <2>2. Carried(OfProgram(work[c].request))
    BY <1>1, <2>1, WorksAssumption
  <2>3. OfProgram(work[c].request) \in Sendable
    BY DEF Sendable
  <2> QED BY <2>1, <2>2, <2>3 DEF Requests
<1>6. pending'[c] \in Requests
  BY <1>1, <1>5 DEF CInv, Histories
<1>7. \A x \in Clients \ {c} : step'[x] = step[x] /\ pending'[x] = pending[x]
  BY <1>1 DEF CInv, TypeOK, Histories
<1>8. DOMAIN pending' = Clients
  BY <1>1 DEF CInv, Histories
<1>9. Histories'
  BY <1>2, <1>6, <1>7, <1>8 DEF CInv, Histories
<1> QED BY <1>1, <1>2, <1>3, <1>9, QuietStep

LEMMA NotConnectedKeeps ==
    ASSUME CInv, NEW c \in Clients, NotConnected(c) PROVE CInv'
<1>1. TypeOK'
  BY DEF CInv, TypeOK, NotConnected, wires, history
<1>2. Histories'
  BY DEF CInv, TypeOK, Histories, NotConnected, typed, wires, history
<1> QED BY <1>1, <1>2, QuietStep DEF NotConnected, wires, history

LEMMA QuitKeeps == ASSUME CInv, NEW c \in Clients, Quit(c) PROVE CInv'
<1>1. TypeOK'
  BY DEF CInv, TypeOK, Quit, history
<1>2. Histories'
  BY DEF CInv, TypeOK, Histories, Quit, typed, history
<1> QED BY <1>1, <1>2, QuietStep DEF Quit, history

LEMMA ParseFailsKeeps ==
    ASSUME CInv, NEW c \in Clients, ParseFails(c) PROVE CInv'
<1>1. /\ Typing(c) /\ at' = [at EXCEPT ![c] = ParseOf(script[c], at[c]).at]
      /\ UNCHANGED <<script, request, step, pending, line, up, down, server, running, sent,
                     executed, told>>
  BY DEF ParseFails, typed, wires
<1>2. TypeOK'
  BY <1>1, ScriptRead DEF CInv, TypeOK
<1>3. Histories'
  BY <1>1 DEF CInv, Histories
<1>4. /\ Account(step[c], sent[c], executed[c], told[c])
      /\ Way(step[c], sent[c], executed[c], up[c], down[c], BusyWith(server, c), server)
  BY OfClient
<1> QED BY <1>1, <1>2, <1>3, <1>4, OneKept DEF Same

LEMMA SendKeeps == ASSUME CInv, NEW c \in Clients, Send(c) PROVE CInv'
<1>1. /\ step[c] = "mapped" /\ line[c] \in {"open", "accepted", "cut"}
      /\ sent' = [sent EXCEPT ![c] = Append(@, pending[c])]
      /\ up' = [up EXCEPT ![c] = IF line[c] = "cut" THEN @ ELSE @ \o RequestOf(pending[c])]
      /\ step' = [step EXCEPT ![c] = "waiting"]
      /\ UNCHANGED <<script, request, at, pending, line, down, server, running, executed, told>>
  BY DEF Send, typed
<1>2. pending[c] \in Requests
  BY <1>1 DEF CInv, Histories
<1>3. PICK s : s = Append(sent[c], pending[c])
  OBVIOUS
<1>4. /\ Account("waiting", s, executed[c], told[c]) /\ s \in Seq(Requests)
      /\ Due(s, executed[c]) /\ s[Len(s)] = pending[c]
  BY <1>1, <1>2, <1>3, OfClient, SentAccount
<1>5. up[c] = <<>> /\ down[c] = <<>> /\ ~Busy(BusyWith(server, c))
  BY <1>1, OfClient, QuietWay
<1>6. /\ sent'[c] = s /\ step'[c] = "waiting"
      /\ \A x \in Clients \ {c} :
            sent'[x] = sent[x] /\ step'[x] = step[x] /\ up'[x] = up[x]
  BY <1>1, <1>3 DEF CInv, TypeOK, Histories
<1>7. up'[c] \in {<<>>, <<>> \o RequestOf(pending[c])}
  BY <1>1, <1>5 DEF CInv, Histories
<1>8. Way("waiting", s, executed[c], up'[c], <<>>, BusyWith(server, c), server)
  BY <1>2, <1>4, <1>5, <1>7, NothingOnTheWay, SentWay
<1>9. TypeOK'
  BY <1>1 DEF CInv, TypeOK
<1>10. sent' \in [Clients -> Seq(Requests)]
  BY <1>1, <1>3, <1>4 DEF CInv, Histories
<1>11. Histories'
  BY <1>1, <1>6, <1>10 DEF CInv, Histories
<1> QED BY <1>1, <1>4, <1>5, <1>6, <1>8, <1>9, <1>11, OneKept DEF Same

LEMMA SendFailsKeeps ==
    ASSUME CInv, NEW c \in Clients, SendFails(c) PROVE CInv'
<1>1. /\ step[c] = "mapped"
      /\ sent' = [sent EXCEPT ![c] = Append(@, pending[c])]
      /\ told' = [told EXCEPT ![c] = Append(@, "error")]
      /\ step' = [step EXCEPT ![c] = "ended"]
      /\ UNCHANGED <<script, request, at, pending, line, up, down, server, running, executed>>
  BY DEF SendFails, Tells, typed, wires
<1>2. pending[c] \in Requests
  BY <1>1 DEF CInv, Histories
<1>3. PICK s : s = Append(sent[c], pending[c])
  OBVIOUS
<1>4. PICK t : t = Append(told[c], "error")
  OBVIOUS
<1>5. /\ Account("ended", s, executed[c], t) /\ s \in Seq(Requests) /\ t \in Seq(Answers)
  BY <1>1, <1>2, <1>3, <1>4, OfClient, SentAccount
<1>6. up[c] = <<>> /\ down[c] = <<>> /\ ~Busy(BusyWith(server, c))
  BY <1>1, OfClient, QuietWay
<1>7. Way("ended", s, executed[c], up[c], down[c], BusyWith(server, c), server)
  BY <1>6, NothingOnTheWay
<1>8. /\ sent'[c] = s /\ told'[c] = t /\ step'[c] = "ended"
      /\ \A x \in Clients \ {c} :
            sent'[x] = sent[x] /\ step'[x] = step[x] /\ told'[x] = told[x]
  BY <1>1, <1>3, <1>4 DEF CInv, TypeOK, Histories
<1>9. TypeOK'
  BY <1>1, <1>4, <1>5 DEF CInv, TypeOK, Answers
<1>10. sent' \in [Clients -> Seq(Requests)]
  BY <1>1, <1>3, <1>5 DEF CInv, Histories
<1>11. Histories'
  BY <1>1, <1>8, <1>10 DEF CInv, Histories
<1> QED BY <1>1, <1>5, <1>7, <1>8, <1>9, <1>11, OneKept DEF Same

LEMMA ReceiveKeeps == ASSUME CInv, NEW c \in Clients, Receive(c) PROVE CInv'
<1>1. PICK a \in Answers :
          /\ a = "success" => AnswerIn(down[c]) = "success"
          /\ told' = [told EXCEPT ![c] = Append(@, a)]
          /\ step' = [step EXCEPT ![c] = IF a = "success" THEN "prompt" ELSE "ended"]
          /\ line' = [line EXCEPT ![c] = IF a = "success" THEN @ ELSE "cut"]
  BY DEF Receive, Tells, Answers
<1>2. /\ step[c] = "waiting" /\ down' = [down EXCEPT ![c] = <<>>]
      /\ UNCHANGED <<script, request, at, pending, up, server, running, sent, executed>>
  BY DEF Receive, typed
<1>3. /\ a = "success" => /\ Executed(sent[c], executed[c])
                          /\ executed[c][Len(executed[c])].outcome = "success"
      /\ Way(IF a = "success" THEN "prompt" ELSE "ended", sent[c], executed[c], up[c], <<>>,
             BusyWith(server, c), server)
  BY <1>1, <1>2, OfClient, ReceivedWay
<1>4. PICK t : t = Append(told[c], a)
  OBVIOUS
<1>5. /\ Account(IF a = "success" THEN "prompt" ELSE "ended", sent[c], executed[c], t)
      /\ t \in Seq(Answers)
  BY <1>2, <1>3, <1>4, OfClient, ToldAccount
<1>6. /\ told'[c] = t /\ step'[c] = (IF a = "success" THEN "prompt" ELSE "ended")
      /\ down'[c] = <<>>
      /\ \A x \in Clients \ {c} :
            told'[x] = told[x] /\ step'[x] = step[x] /\ down'[x] = down[x]
  BY <1>1, <1>2, <1>4 DEF CInv, TypeOK, Histories
<1>7. TypeOK'
  BY <1>1, <1>2, <1>4, <1>5 DEF CInv, TypeOK, Answers
<1>8. Histories'
  BY <1>2, <1>6 DEF CInv, Histories
<1> QED BY <1>2, <1>3, <1>5, <1>6, <1>7, <1>8, OneKept DEF Same

LEMMA BreakKeeps == ASSUME CInv, NEW c \in Clients, Break(c) PROVE CInv'
<1>1. PICK n \in 0 .. Len(up[c]) : up' = [up EXCEPT ![c] = SubSeq(@, 1, n)]
  BY DEF Break
<1>2. PICK m \in 0 .. Len(down[c]) : down' = [down EXCEPT ![c] = SubSeq(@, 1, m)]
  BY DEF Break
<1>3. /\ line' = [line EXCEPT ![c] = "cut"]
      /\ UNCHANGED <<script, request, at, step, pending, server, running, sent, executed, told>>
  BY DEF Break, typed, client, history
<1>4. Way(step[c], sent[c], executed[c], SubSeq(up[c], 1, n), SubSeq(down[c], 1, m),
          BusyWith(server, c), server)
  BY <1>1, <1>2, OfClient, BreakWay
<1>5. /\ up'[c] = SubSeq(up[c], 1, n) /\ down'[c] = SubSeq(down[c], 1, m)
      /\ \A x \in Clients \ {c} : up'[x] = up[x] /\ down'[x] = down[x]
  BY <1>1, <1>2 DEF CInv, Histories
<1>6. TypeOK'
  BY <1>3 DEF CInv, TypeOK
<1>7. DOMAIN up' = Clients /\ DOMAIN down' = Clients
  BY <1>1, <1>2 DEF CInv, Histories
<1>8. Histories'
  BY <1>3, <1>7 DEF CInv, Histories
<1>10. Account(step[c], sent[c], executed[c], told[c])
  BY OfClient
<1> QED BY <1>3, <1>4, <1>5, <1>6, <1>8, <1>10, OneKept DEF Same

(* The server's steps.                                                     *)
LEMMA AcceptKeeps == ASSUME CInv, NEW c \in Clients, Accept(c) PROVE CInv'
<1>1. /\ server.step = "idle" /\ server' = [Idle EXCEPT !.step = "reading", !.client = c]
      /\ line' = [line EXCEPT ![c] = "accepted"]
      /\ UNCHANGED <<script, request, at, step, pending, up, down, running, sent, executed,
                     told>>
  BY DEF Accept, typed, client, history
<1>2. server'.step = "reading" /\ server'.client = c
  BY <1>1 DEF Idle
<1>3. TypeOK'
  BY <1>1, <1>2 DEF CInv, TypeOK
<1>4. Histories'
  BY <1>1 DEF CInv, Histories, Idle
<1>5. \A x \in Clients : ~Busy(BusyWith(server', x))
  BY <1>2 DEF Busy, BusyWith
<1>6. /\ Account(step[c], sent[c], executed[c], told[c])
      /\ Way(step[c], sent[c], executed[c], up[c], down[c], BusyWith(server', c), server')
  BY <1>5, OfClient, ServerAway
<1> QED BY <1>1, <1>3, <1>4, <1>5, <1>6, OneKept DEF Same

(* The client that the server is with.                                     *)
LEMMA Served ==
    ASSUME CInv, server.step \in {"reading", "handling", "replying"}
    PROVE  server.client \in Clients /\ BusyWith(server, server.client) = server.step
BY DEF CInv, TypeOK, BusyWith

LEMMA ReadRequestKeeps == ASSUME CInv, ReadRequest PROVE CInv'
<1>1. PICK c \in Clients : c = server.client
  BY Served DEF ReadRequest
<1>2. PICK args : args = RequestIn(up[c])
  OBVIOUS
<1>3. /\ server.step = "reading" /\ args.ok
      /\ server' = [server EXCEPT !.step = "handling", !.stmt = args.read[1].fields.stmt[1]]
      /\ up' = [up EXCEPT ![c] = args.rest]
      /\ UNCHANGED <<script, request, at, step, pending, line, down, running, sent, executed,
                     told>>
  BY <1>1, <1>2 DEF ReadRequest, typed, client, history
<1>4. BusyWith(server, c) = "reading"
  BY <1>1, <1>3, Served
<1>5. /\ server'.step = "handling" /\ server'.client = c
      /\ server'.stmt = args.read[1].fields.stmt[1]
      /\ DOMAIN server' = DOMAIN server
  BY <1>1, <1>3 DEF CInv, Histories
<1>6. Way(step[c], sent[c], executed[c], args.rest, down[c], "handling", server')
  <2>1. Way(step[c], sent[c], executed[c], up[c], down[c], "reading", server)
    BY <1>4, OfClient
  <2>2. sent[c] \in Seq(Requests)
    BY OfClient
  <2>3. RequestIn(up[c]).ok
    BY <1>2, <1>3
  <2>4. server'.stmt = RequestIn(up[c]).read[1].fields.stmt[1]
    BY <1>2, <1>5
  <2>5. Way(step[c], sent[c], executed[c], RequestIn(up[c]).rest, down[c], "handling", server')
    BY <2>1, <2>2, <2>3, <2>4, ReadWay
  <2> QED BY <1>2, <2>5
<1>7. /\ up'[c] = args.rest /\ DOMAIN up' = Clients
      /\ \A x \in Clients \ {c} : up'[x] = up[x]
  BY <1>3 DEF CInv, Histories
<1>8. TypeOK'
  BY <1>3, <1>5 DEF CInv, TypeOK
<1>9. Histories'
  BY <1>3, <1>5, <1>7 DEF CInv, Histories
<1>10. /\ BusyWith(server', c) = "handling"
       /\ \A x \in Clients \ {c} : ~Busy(BusyWith(server', x))
  BY <1>5 DEF Busy, BusyWith
<1>11. Account(step[c], sent[c], executed[c], told[c])
  BY OfClient
<1> QED BY <1>3, <1>6, <1>7, <1>8, <1>9, <1>10, <1>11, OneKept DEF Same

LEMMA RequestCutKeeps == ASSUME CInv, RequestCut PROVE CInv'
<1>1. PICK c \in Clients : c = server.client
  BY Served DEF RequestCut
<1>2. /\ server' = Idle /\ up' = [up EXCEPT ![c] = <<>>] /\ server.step = "reading"
      /\ UNCHANGED <<script, request, at, step, pending, line, down, running, sent, executed,
                     told>>
  BY <1>1 DEF RequestCut, typed, client, history
<1>3. \A x \in Clients : ~Busy(BusyWith(server', x))
  BY <1>2 DEF Busy, BusyWith, Idle
<1>4. Way(step[c], sent[c], executed[c], <<>>, down[c], BusyWith(server', c), server')
  BY <1>3, OfClient DEF Way, Busy
<1>5. /\ up'[c] = <<>> /\ DOMAIN up' = Clients
      /\ \A x \in Clients \ {c} : up'[x] = up[x]
  BY <1>2 DEF CInv, Histories
<1>6. TypeOK'
  BY <1>2 DEF CInv, TypeOK, Idle
<1>7. Histories'
  BY <1>2, <1>5 DEF CInv, Histories, Idle
<1>8. Account(step[c], sent[c], executed[c], told[c])
  BY OfClient
<1> QED BY <1>2, <1>3, <1>4, <1>5, <1>6, <1>7, <1>8, OneKept DEF Same

LEMMA ExecuteKeeps == ASSUME CInv, Execute PROVE CInv'
<1>1. PICK c \in Clients : c = server.client
  BY Served DEF Execute
<1>2. PICK outcome \in Outcomes :
          /\ server' = [server EXCEPT !.step = "replying", !.outcome = outcome]
          /\ executed' = [executed EXCEPT ![c] =
                Append(@, [stmt |-> server.stmt, outcome |-> outcome])]
  BY <1>1 DEF Execute, Outcomes
<1>3. /\ server.step = "handling"
      /\ UNCHANGED <<script, request, at, step, pending, line, up, down, running, sent, told>>
  BY DEF Execute, typed, client, wires
<1>4. BusyWith(server, c) = "handling"
  BY <1>1, <1>3, Served
<1>5. Way(step[c], sent[c], executed[c], up[c], down[c], "handling", server)
  BY <1>4, OfClient
<1>6. /\ Due(sent[c], executed[c]) /\ step[c] \in {"waiting", "ended"}
      /\ server.stmt = sent[c][Len(sent[c])].stmt
  BY <1>5 DEF Way, Busy
<1>7. PICK run : run = [stmt |-> server.stmt, outcome |-> outcome]
  OBVIOUS
<1>8. run \in Runs /\ run.stmt = sent[c][Len(sent[c])].stmt
  <2>1. sent[c][Len(sent[c])] \in Requests
    BY <1>6, OfClient DEF Due
  <2> QED BY <1>2, <1>6, <1>7, <2>1 DEF Runs
<1>9. PICK d : d = Append(executed[c], run)
  OBVIOUS
<1>10. /\ Account(step[c], sent[c], d, told[c]) /\ d \in Seq(Runs)
       /\ Executed(sent[c], d) /\ d[Len(d)] = run
  BY <1>6, <1>8, <1>9, OfClient, ExecutedAccount
<1>11. /\ server'.step = "replying" /\ server'.client = c /\ server'.outcome = outcome
       /\ DOMAIN server' = DOMAIN server
  BY <1>1, <1>2 DEF CInv, Histories
<1>12. server'.outcome = d[Len(d)].outcome
  BY <1>7, <1>10, <1>11
<1>13. Way(step[c], sent[c], d, up[c], down[c], "replying", server')
  BY <1>5, <1>10, <1>12, ExecutedWay
<1>14. /\ executed'[c] = d /\ executed' \in [Clients -> Seq(Runs)]
       /\ \A x \in Clients \ {c} : executed'[x] = executed[x]
  BY <1>2, <1>7, <1>9, <1>10 DEF CInv, Histories
<1>15. TypeOK'
  BY <1>3, <1>11 DEF CInv, TypeOK
<1>16. Histories'
  BY <1>3, <1>11, <1>14 DEF CInv, Histories
<1>17. /\ BusyWith(server', c) = "replying"
       /\ \A x \in Clients \ {c} : ~Busy(BusyWith(server', x))
  BY <1>11 DEF Busy, BusyWith
<1> QED BY <1>3, <1>10, <1>13, <1>14, <1>15, <1>16, <1>17, OneKept DEF Same

LEMMA ReplyKeeps == ASSUME CInv, Reply PROVE CInv'
<1>1. PICK c \in Clients : c = server.client
  BY Served DEF Reply
<1>2. /\ server.step = "replying"
      /\ down' = [down EXCEPT ![c] = IF line[c] = "cut" THEN @
                                     ELSE @ \o ReplyOf(server.outcome)]
      /\ server' \in {Idle, [Idle EXCEPT !.step = "reading", !.client = c]}
      /\ UNCHANGED <<script, request, at, step, pending, line, up, running, sent, executed,
                     told>>
  BY <1>1 DEF Reply, typed, client, history
<1>3. BusyWith(server, c) = "replying"
  BY <1>1, <1>2, Served
<1>4. /\ DOMAIN server' = {"step", "client", "stmt", "outcome"}
      /\ server'.step \in {"idle", "reading"}
      /\ server'.step = "reading" => server'.client \in Clients
  <2>1. CASE server' = Idle
    BY <2>1 DEF Idle
  <2>2. CASE server' = [Idle EXCEPT !.step = "reading", !.client = c]
    BY <2>2 DEF Idle
  <2> QED BY <1>2, <2>1, <2>2
<1>5. \A x \in Clients : ~Busy(BusyWith(server', x))
  BY <1>4 DEF Busy, BusyWith
<1>6. /\ Way(step[c], sent[c], executed[c], up[c], down[c], BusyWith(server', c), server')
      /\ Way(step[c], sent[c], executed[c], up[c], down[c] \o ReplyOf(server.outcome),
             BusyWith(server', c), server')
  BY <1>3, <1>5, OfClient, RepliedWay
<1>7. /\ down'[c] \in {down[c], down[c] \o ReplyOf(server.outcome)}
      /\ DOMAIN down' = Clients /\ \A x \in Clients \ {c} : down'[x] = down[x]
  BY <1>2 DEF CInv, Histories
<1>8. TypeOK'
  BY <1>2, <1>4 DEF CInv, TypeOK
<1>9. Histories'
  BY <1>2, <1>4, <1>7 DEF CInv, Histories
<1>10. Account(step[c], sent[c], executed[c], told[c])
  BY OfClient
<1> QED BY <1>2, <1>5, <1>6, <1>7, <1>8, <1>9, <1>10, OneKept DEF Same

LEMMA StopKeeps == ASSUME CInv, Stop_ PROVE CInv'
<1>1. /\ running' = FALSE
      /\ UNCHANGED <<script, request, at, step, pending, up, down, sent, executed, told>>
  BY DEF Stop_, typed, client, history
<1>2. CASE UNCHANGED <<server, line>>
  <2>1. TypeOK'
    BY <1>1, <1>2 DEF CInv, TypeOK
  <2>2. Histories'
    BY <1>1, <1>2 DEF CInv, Histories
  <2> QED BY <1>1, <1>2, <2>1, <2>2, AllKept DEF Same
<1>3. CASE server' = Idle /\ line' = [line EXCEPT ![server.client] = "cut"]
  <2>1. TypeOK'
    BY <1>1, <1>3 DEF CInv, TypeOK, Idle
  <2>2. Histories'
    BY <1>1, <1>3 DEF CInv, Histories, Idle
  <2>3. \A x \in Clients : ~Busy(BusyWith(server', x))
    BY <1>3 DEF Busy, BusyWith, Idle
  <2> QED BY <1>1, <2>1, <2>2, <2>3, AllKept DEF Same
<1> QED BY <1>2, <1>3 DEF Stop_

LEMMA GoneKeeps == ASSUME CInv, Gone PROVE CInv'
<1>1. /\ UNCHANGED <<script, request, at, step, pending, up, down, running, sent, executed,
                     told>>
      /\ line' = [x \in Clients |-> IF line[x] = "none" THEN "none" ELSE "cut"]
      /\ server'.step = "gone" /\ DOMAIN server' = {"step", "client", "stmt", "outcome"}
  BY DEF Gone, Idle, typed, client, history
<1>2. TypeOK'
  BY <1>1 DEF CInv, TypeOK
<1>3. Histories'
  BY <1>1 DEF CInv, Histories
<1>4. \A x \in Clients : ~Busy(BusyWith(server', x))
  BY <1>1 DEF Busy, BusyWith
<1> QED BY <1>1, <1>2, <1>3, <1>4, AllKept DEF Same
-----------------------------------------------------------------------------
LEMMA Start == Init => CInv
<1> SUFFICES ASSUME Init PROVE CInv
  OBVIOUS
<1>1. TypeOK
  BY DEF Init, TypeOK, Idle
<1>2. Histories
  BY DEF Init, Histories, Idle
<1>3. ASSUME NEW c \in Clients
      PROVE  /\ Account(step[c], sent[c], executed[c], told[c])
             /\ Way(step[c], sent[c], executed[c], up[c], down[c], BusyWith(server, c), server)
  <2>1. /\ step[c] = "new" /\ sent[c] = <<>> /\ executed[c] = <<>> /\ told[c] = <<>>
        /\ up[c] = <<>> /\ down[c] = <<>> /\ server.step = "idle"
    BY DEF Init, Idle
  <2>2. Account("new", <<>>, <<>>, <<>>)
    BY DEF Account
  <2>3. ~Busy(BusyWith(server, c))
    BY <2>1 DEF Busy, BusyWith
  <2> QED BY <2>1, <2>2, <2>3, NothingOnTheWay
<1> QED BY <1>1, <1>2, <1>3 DEF CInv

LEMMA StepKeeps == CInv /\ [Next]_vars => CInv'
<1> SUFFICES ASSUME CInv, [Next]_vars PROVE CInv'
  OBVIOUS
<1>1. ASSUME NEW c \in Clients,
             \/ Open(c) \/ ParseFails(c) \/ Parse(c) \/ Prepare(c) \/ NotConnected(c)
             \/ Send(c) \/ SendFails(c) \/ Receive(c) \/ Quit(c) \/ Break(c) \/ Accept(c)
      PROVE  CInv'
  BY <1>1, OpenKeeps, ParseFailsKeeps, ParseKeeps, PrepareKeeps, NotConnectedKeeps, SendKeeps,
     SendFailsKeeps, ReceiveKeeps, QuitKeeps, BreakKeeps, AcceptKeeps
<1>2. CASE ReadRequest \/ RequestCut \/ Execute \/ Reply
  BY <1>2, ReadRequestKeeps, RequestCutKeeps, ExecuteKeeps, ReplyKeeps
<1>3. CASE Stop_ \/ ServerReturns \/ ServerDies
  BY <1>3, StopKeeps, GoneKeeps DEF ServerReturns, ServerDies
<1>4. CASE UNCHANGED vars
  <2>1. /\ UNCHANGED <<script, request, at, step, pending, up, down, sent, executed, told,
                       server, line, running>>
    BY <1>4 DEF vars, typed, client, wires, history
  <2>2. TypeOK'
    BY <2>1 DEF CInv, TypeOK
  <2>3. Histories'
    BY <2>1 DEF CInv, Histories
  <2> QED BY <2>1, <2>2, <2>3, AllKept DEF Same
<1> QED BY <1>1, <1>2, <1>3, <1>4 DEF Next

LEMMA Always == Spec => []CInv
BY Start, StepKeeps, PTL DEF Spec

(* Every step keeps the program's state and the histories of what their    *)
(* types say (main.c of both programs).                                    *)
THEOREM ServiceTypes == Spec => []TypeOK
<1>1. CInv => TypeOK
  BY DEF CInv
<1> QED BY <1>1, Always, PTL

(* What reaches the handler from a client are the statements it sent, in   *)
(* their order, each at most once and never in part, wherever connections  *)
(* break and whenever the server ends (database_service.c, handler.c).     *)
THEOREM RequestsIntact == Spec => []RequestIntact
<1>1. CInv => RequestIntact
  <2> SUFFICES ASSUME CInv, NEW c \in Clients
               PROVE  /\ Len(executed[c]) <= Len(sent[c])
                      /\ \A k \in DOMAIN executed[c] : executed[c][k].stmt = sent[c][k].stmt
    BY DEF RequestIntact
  <2>1. PICK s \in Seq(Requests) : s = sent[c]
    BY OfClient
  <2>2. PICK d \in Seq(Runs) : d = executed[c]
    BY OfClient
  <2>3. Account(step[c], s, d, told[c])
    BY <2>1, <2>2, OfClient
  <2>4. Len(d) <= Len(s)
    BY <2>3 DEF Account
  <2>5. \A k \in DOMAIN d : d[k].stmt = s[k].stmt
    BY <2>3 DEF Account
  <2> QED BY <2>1, <2>2, <2>4, <2>5
<1> QED BY <1>1, Always, PTL

(* A client that was told of a success had that statement executed with    *)
(* success, and what it does not know of yet is at most its last one       *)
(* (main.c of the client, database_service.c).                             *)
THEOREM ClientsKnow == Spec => []ClientKnows
<1>1. CInv => ClientKnows
  <2> SUFFICES ASSUME CInv, NEW c \in Clients
               PROVE  /\ Len(executed[c]) <= Len(told[c]) + 1
                      /\ \A k \in DOMAIN told[c] : told[c][k] = "success" =>
                            k <= Len(executed[c]) /\ executed[c][k].outcome = "success"
    BY DEF ClientKnows
  <2>1. PICK s \in Seq(Requests) : s = sent[c]
    BY OfClient
  <2>2. PICK d \in Seq(Runs) : d = executed[c]
    BY OfClient
  <2>3. PICK t \in Seq(Answers) : t = told[c]
    BY OfClient
  <2>4. Account(step[c], s, d, t)
    BY <2>1, <2>2, <2>3, OfClient
  <2>5. Len(d) <= Len(t) + 1
    BY <2>4 DEF Account
  <2>6. \A k \in DOMAIN t : t[k] = "success" => k <= Len(d) /\ d[k].outcome = "success"
    BY <2>4 DEF Account
  <2> QED BY <2>2, <2>3, <2>5, <2>6
<1> QED BY <1>1, Always, PTL
=============================================================================
