---------------------------- MODULE DiscoveryProofs ---------------------------
(***************************************************************************)
(* Proofs about service discovery, for any number of nodes however their   *)
(* streams connect them, any hop limits and any streams that break: a node *)
(* that serves offers all there is below it; and, if no stream is spliced  *)
(* at both ends, a service is offered only where requests for it can go,   *)
(* and no request goes in a circle.                                        *)
(***************************************************************************)
EXTENDS Discovery, SequenceTheorems, TLAPS

NoLimits == \A n \in Node : HopLimit[n] # 0

\* The program of a node: it serves after its Splices, and those have returned.
ProgramOK(n, st, rn, an) ==
  /\ Main[n] \in rn => st >= Len(Splices[n])
  /\ \A i \in 1 .. Len(Splices[n]) :
       i <= st => an[Splices[n][i]].status \in {"ok", "failed"}

\* The answer a to the discovery of c.
AnswerOK(c, a, rn, dn) ==
  /\ a.status # "none" <=> c \in rn
  /\ a.status # "ok" => a.names = {}
  /\ a.status = "ok" => Peer[c] \in rn
  /\ a.status = "failed" => dn # {}

\* The frames s of the discovery of c.
StackOK(c, s, rn) ==
  \A i \in 1 .. Len(s) :
    /\ i = 1 => s[i].via = c
    /\ s[i].state = "running" => Peer[s[i].via] \in rn

\* Where a handler h of the controller x comes from: it is local, the one of
\* the peer's reflection, or of a service that was discovered.
FromSplice(x, h, st, an) ==
  \E n \in Node : \E i \in 1 .. Len(Splices[n]) :
    /\ x = Main[n] /\ i <= st[n] /\ h.via = Splices[n][i]
    /\ h.name \in an[h.via].names

FromServe(x, h, an) ==
  \E n \in Node :
    /\ x \in ToSet(Splices[n]) /\ an[x].status = "ok"
    /\ h.via = Main[n] /\ h.name \in an[h.via].names

HandlerOK(x, h, st, an) ==
  \/ h.via = "local"
  \/ h.via = x /\ h.ctx = x /\ h.name = Reflection
  \/ FromSplice(x, h, st, an)
  \/ FromServe(x, h, an)

\* Node n has spliced node p.
Edge(n, p, an) ==
  \E c \in ToSet(Splices[n]) : Peer[c] = Main[p] /\ an[c].status = "ok"

\* There is no ring of nodes: in any set of them there is one that has spliced
\* none of the others, and one that none of the others has spliced.
NoRing(an) ==
  \A S \in SUBSET Node : S # {} =>
    /\ \E n \in S : \A p \in S : ~Edge(n, p, an)
    /\ \E p \in S : \A n \in S : ~Edge(n, p, an)

\* What holds whether or not streams have broken.
Structure ==
  /\ \A n \in Node : ProgramOK(n, step[n], running, answer)
  /\ \A c \in Controller : AnswerOK(c, answer[c], running, down)
                           /\ StackOK(c, stack[c], running)
  /\ \A x \in Controller : \A h \in handlers[x] : HandlerOK(x, h, step, answer)
  /\ NoRing(answer)

\* The names a set of handlers offers, and the streams it passes discovery to.
NamesOf(H) == {h.name : h \in H}

ForwardsOf(x, H) ==
  {h.via : h \in {h \in H : /\ h.name = Reflection /\ h.via # "local"
                            /\ h.via \in Spliced /\ h.ctx # x}}

\* A frame f of ListServices at x, which has the handlers H: it has collected
\* nothing, or all the names of x if x is a main controller, and if no stream is
\* spliced at both ends never a name x does not have.
FrameOK(f, x, H) ==
  /\ OneSided => f.names \subseteq NamesOf(H)
  /\ f.todo \subseteq ForwardsOf(x, H)
  /\ f.todo # {} => f.names # {}
  /\ f.names # {} => /\ f.state = "running"
                     /\ x \notin Spliced => NamesOf(H) \subseteq f.names

\* The frames s of the discovery of c, if the handlers are hs.
FramesOK(c, s, hs) ==
  \A i \in 1 .. Len(s) :
    /\ FrameOK(s[i], Peer[s[i].via], hs[Peer[s[i].via]])
    /\ i = 1 /\ s[i].state = "sent" =>
         s[i].visited = {c} /\ (NoLimits => s[i].hops # 0)
    /\ i = 1 /\ s[i].state = "running" /\ NoLimits => s[i].names # {}
    /\ i > 1 => /\ s[i].via \in ForwardsOf(Peer[s[i - 1].via],
                                           hs[Peer[s[i - 1].via]])
                /\ s[i - 1].names # {}

\* The answer a to the discovery of c, whose peer x has the handlers H.
FoundOK(a, x, H) ==
  /\ OneSided => a.names \subseteq NamesOf(H)
  /\ a.names # {} /\ x \notin Spliced => NamesOf(H) \subseteq a.names
  /\ a.status = "ok" /\ NoLimits => a.names # {}

\* The names a node has: its own, and those of the streams it has spliced.
OffersOK(n, st, H, an) ==
  /\ Local[n] \subseteq NamesOf(H)
  /\ \A i \in 1 .. Len(Splices[n]) :
       i <= st => an[Splices[n][i]].names \subseteq NamesOf(H)

\* What holds as long as no stream has broken.
Quiet ==
  /\ \A c \in Controller : /\ Handler(Reflection, "local", c) \in handlers[c]
                           /\ FramesOK(c, stack[c], handlers)
                           /\ FoundOK(answer[c], Peer[c], handlers[Peer[c]])
  /\ \A n \in Node : OffersOK(n, step[n], handlers[Main[n]], answer)

\* The inductive invariant.
Inv == TypeOK /\ Structure /\ (down = {} => Quiet)

-------------------------------------------------------------------------------
(***************************************************************************)
(* The topology, sequences of frames, and sets of handlers.                *)
(***************************************************************************)
LEMMA Topology ==
  /\ \A n \in Node : /\ Main[n] \in Controller /\ Main[n] \notin Spliced
                     /\ Splices[n] \in Seq(Controller)
                     /\ Len(Splices[n]) \in Nat
                     /\ HopLimit[n] \in Int
                     /\ ToSet(Splices[n]) \in SUBSET Controller
  /\ \A n \in Node : \A c :
       c \in ToSet(Splices[n])
         <=> \E i \in 1 .. Len(Splices[n]) : c = Splices[n][i]
  /\ \A c : c \in Spliced <=> \E n \in Node : c \in ToSet(Splices[n])
  /\ \A n, m \in Node : Main[n] = Main[m] => n = m
  /\ \A n, m \in Node : \A c :
       c \in ToSet(Splices[n]) /\ c \in ToSet(Splices[m]) => n = m
  /\ \A c \in Controller :
       Peer[c] \in Controller /\ Peer[c] # c /\ Peer[Peer[c]] = c
  /\ \A c \in Spliced : c \in Controller
  /\ "local" \notin Controller
<1>1. \A n \in Node : /\ Main[n] \in Controller /\ Main[n] \notin Spliced
                      /\ Splices[n] \in Seq(Controller)
                      /\ HopLimit[n] \in Int
  BY DiscoveryAssumption DEF DiscoveryAssumption
<1>2. \A n \in Node : \A c :
        c \in ToSet(Splices[n])
          <=> \E i \in 1 .. Len(Splices[n]) : c = Splices[n][i]
  BY <1>1 DEF ToSet
<1>3. \A n \in Node : \A i \in 1 .. Len(Splices[n]) :
        Splices[n][i] \in Controller
  BY <1>1
<1>4. \A n \in Node : ToSet(Splices[n]) \in SUBSET Controller
  BY <1>2, <1>3
<1>5. \A c : c \in Spliced <=> \E n \in Node : c \in ToSet(Splices[n])
  BY DEF Spliced
<1>6. \A n, m \in Node : \A c :
        c \in ToSet(Splices[n]) /\ c \in ToSet(Splices[m]) => n = m
  <2> SUFFICES ASSUME NEW n \in Node, NEW m \in Node, NEW c, n # m,
                      c \in ToSet(Splices[n]), c \in ToSet(Splices[m])
               PROVE  FALSE
    OBVIOUS
  <2>1. ToSet(Splices[n]) \cap ToSet(Splices[m]) = {}
    BY DiscoveryAssumption DEF DiscoveryAssumption
  <2>2. QED
    BY <2>1
<1>7. \A n, m \in Node : Main[n] = Main[m] => n = m
  BY DiscoveryAssumption DEF DiscoveryAssumption
<1>8. \A c \in Controller :
        Peer[c] \in Controller /\ Peer[c] # c /\ Peer[Peer[c]] = c
  BY DiscoveryAssumption DEF DiscoveryAssumption
<1>9. "local" \notin Controller
  BY DiscoveryAssumption DEF DiscoveryAssumption
<1>10. \A n \in Node : Len(Splices[n]) \in Nat
  BY <1>1
<1>11. QED
  BY <1>1, <1>2, <1>4, <1>5, <1>6, <1>7, <1>8, <1>9, <1>10

LEMMA SplicedAt ==
  ASSUME NEW n \in Node, NEW c \in ToSet(Splices[n])
  PROVE  \E i \in 1 .. Len(Splices[n]) : c = Splices[n][i]
<1>1. Splices[n] \in Seq(Controller)
  BY Topology
<1>2. QED
  BY <1>1 DEF ToSet

\* The controller a node is bringing up is that of its next Splice, or after
\* the last of them its main one.
LEMMA CurrentFacts ==
  ASSUME TypeOK, NEW n \in Node, Starting(n)
  PROVE  /\ step[n] \in Nat /\ Current(n) \in Controller
         /\ \/ /\ step[n] + 1 \in 1 .. Len(Splices[n])
               /\ Current(n) = Splices[n][step[n] + 1]
               /\ Current(n) \in ToSet(Splices[n]) /\ Current(n) # Main[n]
            \/ step[n] = Len(Splices[n]) /\ Current(n) = Main[n]
<1>1. /\ Splices[n] \in Seq(Controller) /\ Len(Splices[n]) \in Nat
      /\ Main[n] \in Controller /\ Main[n] \notin Spliced
  BY Topology
<1>2. step[n] \in Nat
  BY DEF TypeOK
<1>3. PICK p : p = Append(Splices[n], Main[n])
  OBVIOUS
<1>4. /\ Len(p) = Len(Splices[n]) + 1
      /\ \A i \in 1 .. Len(Splices[n]) : p[i] = Splices[n][i]
      /\ p[Len(Splices[n]) + 1] = Main[n]
  BY <1>1, <1>3
<1>5. step[n] < Len(p) /\ Current(n) = p[step[n] + 1]
  BY <1>3 DEF Starting, Current, Program
<1>6. CASE step[n] < Len(Splices[n])
  <2>1. step[n] + 1 \in 1 .. Len(Splices[n])
    BY <1>1, <1>2, <1>6
  <2>2. Current(n) = Splices[n][step[n] + 1]
    BY <1>4, <1>5, <2>1
  <2>3. Current(n) \in ToSet(Splices[n])
    <3>1. \E i \in 1 .. Len(Splices[n]) : Current(n) = Splices[n][i]
      BY <2>1, <2>2
    <3>2. QED
      BY <3>1, Topology, Zenon
  <2>4. QED
    BY <1>1, <1>2, <2>1, <2>2, <2>3, Topology
<1>7. CASE ~(step[n] < Len(Splices[n]))
  <2>1. step[n] = Len(Splices[n])
    BY <1>1, <1>2, <1>4, <1>5, <1>7
  <2>2. QED
    BY <1>1, <1>2, <1>4, <1>5, <2>1
<1>8. QED
  BY <1>6, <1>7

LEMMA TopFacts ==
  ASSUME TypeOK, NEW c \in Controller, stack[c] # <<>>
  PROVE  /\ stack[c] \in Seq(FrameType)
         /\ Len(stack[c]) \in Nat /\ Len(stack[c]) >= 1
         /\ Len(stack[c]) \in 1 .. Len(stack[c])
         /\ Top(c) = stack[c][Len(stack[c])] /\ Top(c) \in FrameType
         /\ answer[c].status = "asked"
<1>1. stack[c] \in Seq(FrameType) /\ answer[c].status = "asked"
  BY DEF TypeOK
<1>2. /\ Len(stack[c]) \in Nat /\ Len(stack[c]) >= 1
      /\ Len(stack[c]) \in 1 .. Len(stack[c])
  BY <1>1
<1>3. Top(c) = stack[c][Len(stack[c])]
  BY DEF Top
<1>4. QED
  BY <1>1, <1>2, <1>3

\* The frame on top is replaced by f.
LEMMA SetTopFacts ==
  ASSUME TypeOK, NEW c \in Controller, stack[c] # <<>>, NEW f \in FrameType
  PROVE  /\ SetTop(c, f) \in [Controller -> Seq(FrameType)]
         /\ \A d \in Controller : d # c => SetTop(c, f)[d] = stack[d]
         /\ Len(SetTop(c, f)[c]) = Len(stack[c])
         /\ SetTop(c, f)[c][Len(stack[c])] = f
         /\ \A i \in 1 .. Len(stack[c]) :
              i # Len(stack[c]) => SetTop(c, f)[c][i] = stack[c][i]
<1>1. /\ stack \in [Controller -> Seq(FrameType)]
      /\ Len(stack[c]) \in 1 .. Len(stack[c])
  BY TopFacts DEF TypeOK
<1>2. PICK s : s = [stack[c] EXCEPT ![Len(stack[c])] = f]
  OBVIOUS
<1>3. /\ s \in Seq(FrameType) /\ Len(s) = Len(stack[c])
      /\ s[Len(stack[c])] = f
      /\ \A i \in 1 .. Len(stack[c]) : i # Len(stack[c]) => s[i] = stack[c][i]
  BY <1>1, <1>2, ExceptSeq
<1>4. SetTop(c, f) = [stack EXCEPT ![c] = s]
  BY <1>2 DEF SetTop
<1>5. QED
  BY <1>1, <1>3, <1>4

\* What is left after PopTo: a prefix, whose last frame has more names.
LEMMA PopFacts ==
  ASSUME TypeOK, NEW c \in Controller, NEW i \in 1 .. Len(stack[c]),
         NEW N \in SUBSET Name, PopTo(c, i, N)
  PROVE  /\ stack' \in [Controller -> Seq(FrameType)]
         /\ \A d \in Controller : d # c => stack'[d] = stack[d]
         /\ Len(stack'[c]) = i - 1
         /\ i = 1 => stack'[c] = <<>>
         /\ \A j \in 1 .. i - 1 :
              /\ j \in 1 .. Len(stack[c])
              /\ j # i - 1 => stack'[c][j] = stack[c][j]
              /\ j = i - 1 => stack'[c][j] =
                   [stack[c][j] EXCEPT !.names = stack[c][j].names \cup N]
<1>1. /\ stack \in [Controller -> Seq(FrameType)]
      /\ stack[c] \in Seq(FrameType) /\ Len(stack[c]) \in Nat
  BY DEF TypeOK
<1>2. CASE i = 1
  <2>1. stack' = [stack EXCEPT ![c] = <<>>]
    BY <1>2 DEF PopTo
  <2>2. QED
    BY <1>1, <1>2, <2>1
<1>3. CASE i # 1
  <2>1. PICK p, f, g : /\ p = SubSeq(stack[c], 1, i - 2)
                       /\ f = stack[c][i - 1]
                       /\ g = [f EXCEPT !.names = f.names \cup N]
    OBVIOUS
  <2>2. /\ p \in Seq(FrameType) /\ Len(p) = i - 2
        /\ i - 1 \in 1 .. Len(stack[c]) /\ f \in FrameType
        /\ \A j \in 1 .. i - 2 : p[j] = stack[c][j]
        /\ \A j \in 1 .. i - 1 : j \in 1 .. Len(stack[c])
    BY <1>1, <1>3, <2>1
  <2>3. g \in FrameType
    BY <2>1, <2>2 DEF FrameType
  <2>4. PICK s : s = Append(p, g)
    OBVIOUS
  <2>5. /\ s \in Seq(FrameType) /\ Len(s) = i - 1 /\ s[i - 1] = g
        /\ \A j \in 1 .. i - 1 : j # i - 1 => s[j] = stack[c][j]
    BY <1>3, <2>2, <2>3, <2>4
  <2>6. stack' = [stack EXCEPT ![c] = s]
    BY <1>3, <2>1, <2>4 DEF PopTo
  <2>7. /\ stack' \in [Controller -> Seq(FrameType)] /\ stack'[c] = s
        /\ \A d \in Controller : d # c => stack'[d] = stack[d]
    BY <1>1, <2>5, <2>6
  <2>8. QED
    BY <1>3, <2>1, <2>2, <2>5, <2>7
<1>4. QED
  BY <1>2, <1>3

LEMMA HandlersGrow ==
  ASSUME NEW x, NEW H, NEW H2, H \subseteq H2
  PROVE  NamesOf(H) \subseteq NamesOf(H2)
         /\ ForwardsOf(x, H) \subseteq ForwardsOf(x, H2)
BY DEF NamesOf, ForwardsOf

\* More handlers, those of main controllers that run excepted, leave the frames
\* and the answers as they should be.
LEMMA FramesGrow ==
  ASSUME NEW c, NEW s, NEW hs, NEW hs2, NEW rn,
         s \in Seq(FrameType), FramesOK(c, s, hs), StackOK(c, s, rn),
         \A x \in Controller : hs[x] \subseteq hs2[x],
         \A x \in Controller : x \notin Spliced /\ x \in rn => hs2[x] = hs[x]
  PROVE  FramesOK(c, s, hs2)
<1> SUFFICES ASSUME NEW i \in 1 .. Len(s)
             PROVE  /\ FrameOK(s[i], Peer[s[i].via], hs2[Peer[s[i].via]])
                    /\ i > 1 =>
                         s[i].via \in ForwardsOf(Peer[s[i - 1].via],
                                                 hs2[Peer[s[i - 1].via]])
  BY DEF FramesOK
<1>1. PICK f, x : f = s[i] /\ x = Peer[f.via]
  OBVIOUS
<1>2. f \in FrameType /\ f.via \in Controller /\ x \in Controller
  <2>1. s[i] \in FrameType
    OBVIOUS
  <2>2. QED
    BY <1>1, <2>1, Topology DEF FrameType
<1>3. FrameOK(f, x, hs[x]) /\ (f.state = "running" => x \in rn)
  BY <1>1 DEF FramesOK, StackOK
<1>4. /\ NamesOf(hs[x]) \subseteq NamesOf(hs2[x])
      /\ ForwardsOf(x, hs[x]) \subseteq ForwardsOf(x, hs2[x])
  BY <1>2, HandlersGrow
<1>5. ASSUME f.names # {}, x \notin Spliced
      PROVE  NamesOf(hs2[x]) \subseteq f.names
  <2>1. hs2[x] = hs[x]
    BY <1>2, <1>3, <1>5 DEF FrameOK
  <2>2. QED
    BY <1>3, <1>5, <2>1 DEF FrameOK
<1>6. FrameOK(f, x, hs2[x])
  BY <1>3, <1>4, <1>5 DEF FrameOK
<1>7. ASSUME i > 1
      PROVE  s[i].via \in ForwardsOf(Peer[s[i - 1].via],
                                     hs2[Peer[s[i - 1].via]])
  <2>1. i - 1 \in 1 .. Len(s)
    BY <1>7
  <2>2. s[i - 1] \in FrameType
    BY <2>1
  <2>3. Peer[s[i - 1].via] \in Controller
    BY <2>2, Topology DEF FrameType
  <2>4. s[i].via \in ForwardsOf(Peer[s[i - 1].via], hs[Peer[s[i - 1].via]])
    BY <1>7 DEF FramesOK
  <2>5. QED
    BY <2>3, <2>4, HandlersGrow
<1>8. QED
  BY <1>1, <1>6, <1>7

LEMMA FoundGrow ==
  ASSUME NEW c \in Controller, NEW a, NEW H, NEW H2, NEW rn, NEW dn,
         FoundOK(a, Peer[c], H), AnswerOK(c, a, rn, dn), H \subseteq H2,
         Peer[c] \notin Spliced /\ Peer[c] \in rn => H2 = H
  PROVE  FoundOK(a, Peer[c], H2)
<1>1. NamesOf(H) \subseteq NamesOf(H2)
  BY HandlersGrow
<1>2. a.names # {} => Peer[c] \in rn
  BY DEF AnswerOK
<1>3. QED
  BY <1>1, <1>2 DEF FoundOK

\* Later steps and more answers keep where a handler comes from.
LEMMA HandlerStays ==
  ASSUME NEW x, NEW h, NEW st, NEW st2, NEW an, NEW an2,
         HandlerOK(x, h, st, an),
         \A n \in Node : st[n] \in Nat /\ st2[n] \in Nat /\ st[n] <= st2[n],
         \A c \in Controller :
           /\ an[c].names \subseteq an2[c].names
           /\ an[c].status = "ok" => an2[c].status = "ok"
  PROVE  HandlerOK(x, h, st2, an2)
<1>1. ASSUME FromSplice(x, h, st, an)
      PROVE  FromSplice(x, h, st2, an2)
  <2> PICK n \in Node : \E i \in 1 .. Len(Splices[n]) :
        /\ x = Main[n] /\ i <= st[n] /\ h.via = Splices[n][i]
        /\ h.name \in an[h.via].names
    BY <1>1 DEF FromSplice
  <2>1. PICK i \in 1 .. Len(Splices[n]) :
          /\ x = Main[n] /\ i <= st[n] /\ h.via = Splices[n][i]
          /\ h.name \in an[h.via].names
    OBVIOUS
  <2>2. h.via \in Controller
    BY <2>1, Topology
  <2>3. i <= st2[n] /\ h.name \in an2[h.via].names
    <3>1. st[n] \in Nat /\ st2[n] \in Nat /\ st[n] <= st2[n] /\ i \in Int
      OBVIOUS
    <3>2. i <= st2[n]
      BY <2>1, <3>1
    <3>3. QED
      BY <2>1, <2>2, <3>2
  <2>4. QED
    BY <2>1, <2>3 DEF FromSplice
<1>2. ASSUME FromServe(x, h, an)
      PROVE  FromServe(x, h, an2)
  <2>1. PICK n \in Node :
          /\ x \in ToSet(Splices[n]) /\ an[x].status = "ok"
          /\ h.via = Main[n] /\ h.name \in an[h.via].names
    BY <1>2 DEF FromServe
  <2>2. x \in Controller /\ h.via \in Controller
    BY <2>1, Topology
  <2>3. QED
    BY <2>1, <2>2 DEF FromServe
<1>3. QED
  BY <1>1, <1>2 DEF HandlerOK

\* What a discovery passes on is not new to the controller that passes it on.
LEMMA ForwardKnown ==
  ASSUME Inv, down = {}, OneSided, NEW x \in Controller,
         NEW y \in ForwardsOf(x, handlers[x])
  PROVE  NamesOf(handlers[Peer[y]]) \subseteq NamesOf(handlers[x])
<1>1. PICK h \in handlers[x] : /\ h.name = Reflection /\ h.via # "local"
                               /\ h.via = y /\ y \in Spliced /\ h.ctx # x
  BY DEF ForwardsOf
<1>2. HandlerOK(x, h, step, answer)
  BY DEF Inv, Structure
<1>3. ~FromServe(x, h, answer)
  BY <1>1, Topology DEF FromServe
<1>4. FromSplice(x, h, step, answer)
  BY <1>1, <1>2, <1>3 DEF HandlerOK
<1> PICK n \in Node : \E i \in 1 .. Len(Splices[n]) :
      /\ x = Main[n] /\ i <= step[n] /\ y = Splices[n][i]
      /\ Reflection \in answer[y].names
  BY <1>1, <1>4 DEF FromSplice
<1>5. PICK i \in 1 .. Len(Splices[n]) :
        /\ x = Main[n] /\ i <= step[n] /\ y = Splices[n][i]
        /\ Reflection \in answer[y].names
  OBVIOUS
<1>6. y \in Controller /\ Peer[y] \notin Spliced
  BY <1>1, Topology DEF OneSided
<1>7. NamesOf(handlers[Peer[y]]) \subseteq answer[y].names
  BY <1>5, <1>6 DEF Inv, Quiet, FoundOK
<1>8. answer[y].names \subseteq NamesOf(handlers[x])
  BY <1>5 DEF Inv, Quiet, OffersOK
<1>9. QED
  BY <1>7, <1>8

-------------------------------------------------------------------------------
(***************************************************************************)
(* ListServices.                                                           *)
(***************************************************************************)
\* A step of the discovery of c.
LEMMA ListKeeps ==
  ASSUME Inv, NEW c \in Controller, stack[c] # <<>>,
         UNCHANGED <<running, down, handlers, step>>,
         stack' \in [Controller -> Seq(FrameType)],
         answer' \in [Controller -> AnswerType],
         \A d \in Controller : d # c =>
           stack'[d] = stack[d] /\ answer'[d] = answer[d],
         stack'[c] # <<>> => answer'[c].status = "asked",
         StackOK(c, stack'[c], running),
         AnswerOK(c, answer'[c], running, down), NoRing(answer'),
         down = {} => /\ FramesOK(c, stack'[c], handlers)
                      /\ FoundOK(answer'[c], Peer[c], handlers[Peer[c]])
  PROVE  Inv'
<1>1. answer[c].status = "asked" /\ answer[c].names = {}
  BY TopFacts DEF Inv, Structure, AnswerOK
<1>2. TypeOK'
  BY DEF Inv, TypeOK
<1>3. ASSUME NEW n \in Node, NEW i \in 1 .. Len(Splices[n]), i <= step[n]
      PROVE  answer'[Splices[n][i]] = answer[Splices[n][i]]
  <2>1. answer[Splices[n][i]].status \in {"ok", "failed"}
    BY <1>3 DEF Inv, Structure, ProgramOK
  <2>2. Splices[n][i] \in Controller /\ Splices[n][i] # c
    BY <1>1, <2>1, Topology
  <2>3. QED
    BY <2>2
<1>4. \A n \in Node : ProgramOK(n, step[n], running, answer')
  BY <1>3 DEF Inv, Structure, ProgramOK
<1>5. ASSUME NEW x \in Controller, NEW h \in handlers[x]
      PROVE  HandlerOK(x, h, step, answer')
  <2>1. HandlerOK(x, h, step, answer)
    BY DEF Inv, Structure
  <2>2. \A n \in Node : step[n] \in Nat /\ step[n] <= step[n]
    BY DEF Inv, TypeOK
  <2>3. \A d \in Controller :
          /\ answer[d].names \subseteq answer'[d].names
          /\ answer[d].status = "ok" => answer'[d].status = "ok"
    BY <1>1
  <2>4. QED
    BY <2>1, <2>2, <2>3, HandlerStays
<1>6. Structure'
  BY <1>4, <1>5 DEF Inv, Structure
<1>7. ASSUME down = {}
      PROVE  Quiet'
  <2>1. \A n \in Node : OffersOK(n, step[n], handlers[Main[n]], answer')
    BY <1>3, <1>7 DEF Inv, Quiet, OffersOK
  <2>2. \A d \in Controller :
          /\ Handler(Reflection, "local", d) \in handlers[d]
          /\ FramesOK(d, stack'[d], handlers)
          /\ FoundOK(answer'[d], Peer[d], handlers[Peer[d]])
    BY <1>7 DEF Inv, Quiet
  <2>3. QED
    BY <2>1, <2>2 DEF Quiet
<1>8. QED
  BY <1>2, <1>6, <1>7 DEF Inv

\* An answer makes no ring: the main controller of the node that gets it does
\* not run yet, so nobody can have spliced that node.
LEMMA NoRingKeeps ==
  ASSUME Inv, NEW c \in Controller, answer[c].status \notin {"ok", "failed"},
         NEW an, an[c].status = "ok" => Peer[c] \in running,
         \A d \in Controller : d # c => an[d] = answer[d]
  PROVE  NoRing(an)
<1>1. NoRing(answer)
  BY DEF Inv, Structure
<1>2. CASE an[c].status # "ok" \/ c \notin Spliced
  <2>1. ASSUME NEW n \in Node, NEW p \in Node, Edge(n, p, an)
        PROVE  Edge(n, p, answer)
    <3>1. PICK d \in ToSet(Splices[n]) :
            Peer[d] = Main[p] /\ an[d].status = "ok"
      BY <2>1 DEF Edge
    <3>2. d \in Spliced /\ d \in Controller
      BY Topology, Zenon
    <3>3. d # c
      BY <1>1, <1>2, <3>1, <3>2
    <3>4. answer[d].status = "ok"
      BY <1>1, <3>1, <3>2, <3>3
    <3>5. QED
      BY <3>1, <3>4 DEF Edge
  <2>2. ASSUME NEW S \in SUBSET Node, S # {}
        PROVE  /\ \E n \in S : \A p \in S : ~Edge(n, p, an)
               /\ \E p \in S : \A n \in S : ~Edge(n, p, an)
    <3>1. /\ \E n \in S : \A p \in S : ~Edge(n, p, answer)
          /\ \E p \in S : \A n \in S : ~Edge(n, p, answer)
      BY <1>1, <2>2 DEF NoRing
    <3>2. QED
      BY <2>1, <3>1
  <2>3. QED
    BY <2>2 DEF NoRing
<1>3. CASE an[c].status = "ok" /\ c \in Spliced
  <2>1. PICK n \in Node : c \in ToSet(Splices[n])
    BY <1>3, Topology, Zenon
  <2>2. Main[n] \notin running
    <3>1. PICK i \in 1 .. Len(Splices[n]) : c = Splices[n][i]
      BY <2>1, SplicedAt
    <3>2. ~(i <= step[n])
      BY <3>1 DEF Inv, Structure, ProgramOK
    <3>3. ~(step[n] >= Len(Splices[n]))
      <4>1. step[n] \in Nat /\ Len(Splices[n]) \in Nat
        BY Topology DEF Inv, TypeOK
      <4>2. QED
        BY <3>2, <4>1
    <3>4. QED
      BY <3>3 DEF Inv, Structure, ProgramOK
  <2>3. ASSUME NEW k \in Node
        PROVE  ~Edge(k, n, an)
    <3> SUFFICES ASSUME NEW d \in ToSet(Splices[k]),
                        Peer[d] = Main[n], an[d].status = "ok"
                 PROVE  FALSE
      BY DEF Edge
    <3>1. d \in Controller
      BY Topology
    <3>2. CASE d = c
      BY <1>3, <2>2, <3>2
    <3>3. CASE d # c
      <4>1. answer[d].status = "ok"
        BY <1>1, <3>1, <3>3
      <4>2. Peer[d] \in running
        BY <3>1, <4>1 DEF Inv, Structure, AnswerOK
      <4>3. QED
        BY <2>2, <4>2
    <3>4. QED
      BY <3>2, <3>3
  <2>4. ASSUME NEW k \in Node, k # n, NEW p \in Node, Edge(k, p, an)
        PROVE  Edge(k, p, answer)
    <3>1. PICK d \in ToSet(Splices[k]) :
            Peer[d] = Main[p] /\ an[d].status = "ok"
      BY <2>4 DEF Edge
    <3>2. d \in Controller /\ d # c
      <4>1. d \in Controller
        BY Topology
      <4>2. ~(c \in ToSet(Splices[n]) /\ c \in ToSet(Splices[k]))
        BY <2>4, Topology, Zenon
      <4>3. QED
        BY <2>1, <4>1, <4>2
    <3>3. answer[d].status = "ok"
      BY <1>1, <3>1, <3>2
    <3>4. QED
      BY <3>1, <3>3 DEF Edge
  <2>5. ASSUME NEW S \in SUBSET Node, S # {}
        PROVE  \E m \in S : \A p \in S : ~Edge(m, p, an)
    <3>1. CASE S \ {n} = {}
      <4>1. n \in S /\ \A p \in S : p = n
        BY <2>5, <3>1
      <4>2. QED
        BY <2>3, <4>1
    <3>2. CASE S \ {n} # {}
      <4>1. PICK T \in SUBSET Node : T = S \ {n}
        OBVIOUS
      <4>2. PICK k \in T : \A p \in T : ~Edge(k, p, answer)
        BY <1>1, <3>2, <4>1 DEF NoRing
      <4>3. k \in S /\ k # n /\ k \in Node
        BY <4>1
      <4>4. \A p \in S : ~Edge(k, p, an)
        BY <2>3, <2>4, <4>1, <4>2, <4>3
      <4>5. QED
        BY <4>3, <4>4
    <3>3. QED
      BY <3>1, <3>2
  <2>6. ASSUME NEW S \in SUBSET Node, S # {}
        PROVE  \E p \in S : \A m \in S : ~Edge(m, p, an)
    <3>1. CASE n \in S
      BY <2>3, <3>1
    <3>2. CASE n \notin S
      <4>1. PICK p \in S : \A m \in S : ~Edge(m, p, answer)
        BY <1>1, <2>6 DEF NoRing
      <4>2. \A m \in S : ~Edge(m, p, an)
        BY <2>4, <3>2, <4>1
      <4>3. QED
        BY <4>2
    <3>3. QED
      BY <3>1, <3>2
  <2>7. QED
    BY <2>5, <2>6 DEF NoRing
<1>4. QED
  BY <1>2, <1>3

\* The frame on top becomes g, in the same place and running.
LEMMA TopChanges ==
  ASSUME Inv, NEW c \in Controller, stack[c] # <<>>, NEW g \in FrameType,
         g.via = Top(c).via, g.state = "running", Peer[g.via] \in running,
         down = {} => /\ FrameOK(g, Peer[g.via], handlers[Peer[g.via]])
                      /\ Len(stack[c]) = 1 /\ NoLimits => g.names # {}
                      /\ Top(c).names # {} => g.names # {}
  PROVE  /\ StackOK(c, SetTop(c, g)[c], running)
         /\ down = {} => FramesOK(c, SetTop(c, g)[c], handlers)
<1>1. PICK s, n, t : s = stack[c] /\ n = Len(stack[c]) /\ t = SetTop(c, g)[c]
  OBVIOUS
<1>2. /\ n \in Nat /\ n >= 1 /\ n = Len(s) /\ Len(t) = n /\ t[n] = g
      /\ \A i \in 1 .. n : i # n => t[i] = s[i]
      /\ Top(c) = s[n] /\ n \in 1 .. n
  BY <1>1, TopFacts, SetTopFacts DEF Inv
<1>3. StackOK(c, s, running)
  BY <1>1 DEF Inv, Structure
<1>4. StackOK(c, t, running)
  BY <1>2, <1>3 DEF StackOK
<1>5. ASSUME down = {}
      PROVE  FramesOK(c, t, handlers)
  <2>1. FramesOK(c, s, handlers)
    BY <1>1, <1>5 DEF Inv, Quiet
  <2>2. ASSUME NEW i \in 1 .. n
        PROVE  /\ FrameOK(t[i], Peer[t[i].via], handlers[Peer[t[i].via]])
               /\ i = 1 /\ t[i].state = "sent" =>
                    t[i].visited = {c} /\ (NoLimits => t[i].hops # 0)
               /\ i = 1 /\ t[i].state = "running" /\ NoLimits =>
                    t[i].names # {}
               /\ t[i].via = s[i].via
    <3>1. CASE i = n
      BY <1>1, <1>2, <1>5, <3>1
    <3>2. CASE i # n
      <4>1. t[i] = s[i]
        BY <1>2, <3>2
      <4>2. QED
        BY <1>2, <2>1, <4>1 DEF FramesOK
    <3>3. QED
      BY <3>1, <3>2
  <2>3. ASSUME NEW i \in 1 .. n, i > 1
        PROVE  /\ t[i].via \in ForwardsOf(Peer[t[i - 1].via],
                                          handlers[Peer[t[i - 1].via]])
               /\ t[i - 1].names # {}
    <3>1. i - 1 \in 1 .. n /\ i - 1 # n
      BY <1>2, <2>3
    <3>2. t[i - 1] = s[i - 1] /\ t[i].via = s[i].via
      BY <1>2, <2>2, <3>1
    <3>3. /\ s[i].via \in ForwardsOf(Peer[s[i - 1].via],
                                     handlers[Peer[s[i - 1].via]])
          /\ s[i - 1].names # {}
      BY <1>2, <2>1, <2>3 DEF FramesOK
    <3>4. QED
      BY <3>2, <3>3
  <2>4. QED
    BY <1>2, <2>2, <2>3 DEF FramesOK
<1>6. QED
  BY <1>1, <1>4, <1>5

LEMMA VisitKeeps ==
  ASSUME Inv, NEW c \in Controller, Visit(c)
  PROVE  Inv'
<1>1. PICK f, x, H : f = Top(c) /\ x = Peer[f.via] /\ H = handlers[x]
  OBVIOUS
<1>2. stack[c] # <<>> /\ f.state = "sent" /\ x \in running
  BY <1>1 DEF Visit
<1>3. /\ f \in FrameType /\ f.via \in Controller /\ x \in Controller
      /\ answer[c].status = "asked"
  <2>1. f \in FrameType /\ answer[c].status = "asked"
    BY <1>1, <1>2, TopFacts DEF Inv
  <2>2. QED
    BY <1>1, <2>1, Topology DEF FrameType
<1>4. Forwardable(x) = ForwardsOf(x, H) /\ {h.name : h \in H} = NamesOf(H)
  BY <1>1 DEF Forwardable, ForwardsOf, NamesOf
<1>5. NamesOf(H) \in SUBSET Name /\ ForwardsOf(x, H) \in SUBSET Controller
  <2>1. H \in SUBSET HandlerType
    BY <1>1, <1>3 DEF Inv, TypeOK
  <2>2. QED
    BY <2>1, Topology DEF NamesOf, ForwardsOf, HandlerType
<1>6. PICK g : g = IF Stops(c, f)
           THEN [f EXCEPT !.state = "running"]
           ELSE [f EXCEPT !.state = "running", !.hops = @ - 1,
                          !.visited = @ \cup {x},
                          !.names = NamesOf(H), !.todo = ForwardsOf(x, H)]
  OBVIOUS
<1>7. /\ stack' = SetTop(c, g)
      /\ UNCHANGED <<running, down, handlers, step, answer>>
  BY <1>1, <1>4, <1>6 DEF Visit
<1>8. /\ g \in FrameType /\ g.via = f.via /\ g.state = "running"
      /\ Stops(c, f) => g.names = f.names /\ g.todo = f.todo
      /\ ~Stops(c, f) => g.names = NamesOf(H) /\ g.todo = ForwardsOf(x, H)
  <2>1. CASE Stops(c, f)
    <3>1. g = [f EXCEPT !.state = "running"]
      BY <1>6, <2>1
    <3>2. QED
      BY <1>3, <2>1, <3>1 DEF FrameType
  <2>2. CASE ~Stops(c, f)
    <3>1. g = [f EXCEPT !.state = "running", !.hops = @ - 1,
                        !.visited = @ \cup {x},
                        !.names = NamesOf(H), !.todo = ForwardsOf(x, H)]
      BY <1>6, <2>2
    <3>2. PICK k, v : k = f.hops - 1 /\ v = f.visited \cup {x}
      OBVIOUS
    <3>3. k \in Int /\ v \in SUBSET Controller
      BY <1>3, <3>2 DEF FrameType
    <3>4. g = [f EXCEPT !.state = "running", !.hops = k, !.visited = v,
                        !.names = NamesOf(H), !.todo = ForwardsOf(x, H)]
      BY <3>1, <3>2
    <3>5. g \in FrameType
      BY <1>3, <1>5, <3>3, <3>4 DEF FrameType
    <3>6. QED
      BY <1>3, <2>2, <3>4, <3>5 DEF FrameType
  <2>3. QED
    BY <2>1, <2>2
<1>9. ASSUME down = {}
      PROVE  /\ FrameOK(g, x, H)
             /\ Len(stack[c]) = 1 /\ NoLimits => g.names # {}
             /\ f.names # {} => g.names # {}
  <2>1. PICK n : n = Len(stack[c])
    OBVIOUS
  <2>2. n \in 1 .. Len(stack[c]) /\ f = stack[c][n]
    BY <1>1, <1>2, <2>1, TopFacts DEF Inv
  <2>3. /\ FrameOK(f, x, H)
        /\ n = 1 => f.visited = {c} /\ (NoLimits => f.hops # 0)
        /\ n = 1 => f.via = c
    BY <1>1, <1>2, <1>9, <2>2 DEF Inv, Quiet, FramesOK, Structure, StackOK
  <2>4. f.names = {} /\ f.todo = {}
    BY <1>2, <2>3 DEF FrameOK
  <2>5. NamesOf(H) # {}
    <3>1. Handler(Reflection, "local", x) \in H
      BY <1>1, <1>3, <1>9 DEF Inv, Quiet
    <3>2. QED
      BY <3>1 DEF NamesOf
  <2>6. CASE Stops(c, f)
    <3>1. ~(n = 1 /\ NoLimits)
      BY <1>1, <2>3, <2>6, Topology DEF Stops
    <3>2. QED
      BY <1>8, <2>1, <2>4, <2>6, <3>1 DEF FrameOK
  <2>7. CASE ~Stops(c, f)
    BY <1>8, <2>5, <2>7 DEF FrameOK
  <2>8. QED
    BY <2>6, <2>7
<1>10. /\ StackOK(c, SetTop(c, g)[c], running)
       /\ down = {} => FramesOK(c, SetTop(c, g)[c], handlers)
  BY <1>1, <1>2, <1>8, <1>9, TopChanges
<1>11. /\ SetTop(c, g) \in [Controller -> Seq(FrameType)]
       /\ \A d \in Controller : d # c => SetTop(c, g)[d] = stack[d]
  BY <1>2, <1>8, SetTopFacts DEF Inv
<1>12. /\ AnswerOK(c, answer[c], running, down) /\ NoRing(answer)
       /\ down = {} => FoundOK(answer[c], Peer[c], handlers[Peer[c]])
       /\ answer \in [Controller -> AnswerType]
  BY DEF Inv, Structure, Quiet, TypeOK
<1>13. QED
  BY <1>2, <1>3, <1>7, <1>10, <1>11, <1>12, ListKeeps

LEMMA ForwardKeeps ==
  ASSUME Inv, NEW c \in Controller, Forward(c)
  PROVE  Inv'
<1>1. PICK t, x, H, n : /\ t = Top(c) /\ x = Peer[t.via] /\ H = handlers[x]
                        /\ n = Len(stack[c])
  OBVIOUS
<1>2. stack[c] # <<>> /\ t.state = "running"
  BY <1>1 DEF Forward
<1>3. PICK y \in t.todo : \E state \in SentStates(y) :
        LET f == [t EXCEPT !.todo = @ \ {y}] IN
        stack' = [SetTop(c, f) EXCEPT ![c] =
                    Append(@, Frame(y, f.hops, f.visited, state))]
  BY <1>1 DEF Forward
<1>4. PICK state \in SentStates(y) :
        LET f == [t EXCEPT !.todo = @ \ {y}] IN
        stack' = [SetTop(c, f) EXCEPT ![c] =
                    Append(@, Frame(y, f.hops, f.visited, state))]
  BY <1>3
<1>5. PICK g : g = [t EXCEPT !.todo = t.todo \ {y}]
  OBVIOUS
<1>6. PICK e : e = Frame(y, g.hops, g.visited, state)
  OBVIOUS
<1>7. stack' = [SetTop(c, g) EXCEPT ![c] = Append(SetTop(c, g)[c], e)]
  BY <1>4, <1>5, <1>6
<1>8. /\ t \in FrameType /\ t.via \in Controller /\ x \in Controller
      /\ y \in Controller /\ answer[c].status = "asked"
      /\ n \in 1 .. Len(stack[c]) /\ n \in Nat /\ n >= 1 /\ t = stack[c][n]
  <2>1. /\ t \in FrameType /\ answer[c].status = "asked"
        /\ n \in 1 .. Len(stack[c]) /\ n \in Nat /\ n >= 1 /\ t = stack[c][n]
    BY <1>1, <1>2, TopFacts DEF Inv
  <2>2. t.via \in Controller /\ y \in Controller
    BY <2>1 DEF FrameType
  <2>3. QED
    BY <1>1, <2>1, <2>2, Topology
<1>9. /\ g \in FrameType /\ g.via = t.via /\ g.state = "running"
      /\ g.names = t.names /\ g.todo = t.todo \ {y}
  BY <1>2, <1>5, <1>8 DEF FrameType
<1>10. /\ e \in FrameType /\ e.via = y /\ e.state # "running"
       /\ e.names = {} /\ e.todo = {}
  <2>1. state \in {"sent", "lost"}
    BY DEF SentStates
  <2>2. g.hops \in Int /\ g.visited \in SUBSET Controller
    BY <1>9 DEF FrameType
  <2>3. QED
    BY <1>6, <1>8, <2>1, <2>2 DEF Frame, FrameType
<1>11. x \in running
  BY <1>1, <1>2, <1>8 DEF Inv, Structure, StackOK
<1>12. ASSUME down = {}
       PROVE  FrameOK(t, x, H)
  BY <1>1, <1>8, <1>12 DEF Inv, Quiet, FramesOK
<1>13. ASSUME down = {}
       PROVE  /\ FrameOK(g, x, H) /\ g.names # {} /\ y \in ForwardsOf(x, H)
  BY <1>9, <1>12, <1>13 DEF FrameOK
<1>14. PICK s : s = SetTop(c, g)[c]
  OBVIOUS
<1>15. /\ StackOK(c, s, running)
       /\ down = {} => FramesOK(c, s, handlers)
  BY <1>1, <1>2, <1>9, <1>11, <1>13, <1>14, TopChanges
<1>16. /\ SetTop(c, g) \in [Controller -> Seq(FrameType)]
       /\ \A d \in Controller : d # c => SetTop(c, g)[d] = stack[d]
       /\ s \in Seq(FrameType) /\ Len(s) = n /\ s[n] = g
  BY <1>1, <1>2, <1>9, <1>14, SetTopFacts DEF Inv
<1>17. PICK r : r = Append(s, e)
  OBVIOUS
<1>18. /\ r \in Seq(FrameType) /\ Len(r) = n + 1 /\ r[n + 1] = e
       /\ \A i \in 1 .. n : r[i] = s[i]
  BY <1>8, <1>10, <1>16, <1>17
<1>19. /\ stack' \in [Controller -> Seq(FrameType)] /\ stack'[c] = r
       /\ \A d \in Controller : d # c => stack'[d] = stack[d]
  BY <1>7, <1>14, <1>16, <1>17, <1>18
<1>20. StackOK(c, r, running)
  <2>1. ASSUME NEW i \in 1 .. n + 1
        PROVE  /\ i = 1 => r[i].via = c
               /\ r[i].state = "running" => Peer[r[i].via] \in running
    <3>1. CASE i = n + 1
      BY <1>8, <1>10, <1>18, <3>1
    <3>2. CASE i # n + 1
      <4>1. i \in 1 .. n
        BY <1>8, <3>2
      <4>2. QED
        BY <1>15, <1>16, <1>18, <4>1 DEF StackOK
    <3>3. QED
      BY <3>1, <3>2
  <2>2. QED
    BY <1>18, <2>1 DEF StackOK
<1>21. ASSUME down = {}
       PROVE  FramesOK(c, r, handlers)
  <2>1. FramesOK(c, s, handlers)
    BY <1>15, <1>21
  <2>2. ASSUME NEW i \in 1 .. n + 1
        PROVE  /\ FrameOK(r[i], Peer[r[i].via], handlers[Peer[r[i].via]])
               /\ i = 1 /\ r[i].state = "sent" =>
                    r[i].visited = {c} /\ (NoLimits => r[i].hops # 0)
               /\ i = 1 /\ r[i].state = "running" /\ NoLimits =>
                    r[i].names # {}
               /\ i > 1 => /\ r[i].via \in ForwardsOf(Peer[r[i - 1].via],
                                             handlers[Peer[r[i - 1].via]])
                           /\ r[i - 1].names # {}
    <3>1. CASE i = n + 1
      <4>1. r[i] = e /\ i # 1 /\ i - 1 = n /\ n \in 1 .. n
        BY <1>8, <1>18, <3>1
      <4>2. r[i - 1] = g
        BY <1>16, <1>18, <4>1
      <4>3. FrameOK(e, Peer[e.via], handlers[Peer[e.via]])
        BY <1>10 DEF FrameOK
      <4>4. QED
        BY <1>1, <1>9, <1>10, <1>13, <1>21, <4>1, <4>2, <4>3
    <3>2. CASE i # n + 1
      <4>1. i \in 1 .. n /\ (i > 1 => i - 1 \in 1 .. n)
        BY <1>8, <3>2
      <4>2. r[i] = s[i] /\ (i > 1 => r[i - 1] = s[i - 1])
        BY <1>18, <4>1
      <4>3. QED
        BY <1>16, <2>1, <4>1, <4>2 DEF FramesOK
    <3>3. QED
      BY <3>1, <3>2
  <2>3. QED
    BY <1>18, <2>2 DEF FramesOK
<1>22. /\ AnswerOK(c, answer[c], running, down) /\ NoRing(answer)
       /\ down = {} => FoundOK(answer[c], Peer[c], handlers[Peer[c]])
       /\ answer \in [Controller -> AnswerType]
  BY DEF Inv, Structure, Quiet, TypeOK
<1>23. UNCHANGED <<running, down, handlers, step, answer>>
  BY DEF Forward
<1>24. QED
  BY <1>2, <1>8, <1>19, <1>20, <1>21, <1>22, <1>23, ListKeeps

\* What is left of the frames.
LEMMA PopStack ==
  ASSUME Inv, NEW c \in Controller, NEW i \in 1 .. Len(stack[c]),
         NEW N \in SUBSET Name, PopTo(c, i, N)
  PROVE  StackOK(c, stack'[c], running)
<1>1. PICK s, t : s = stack[c] /\ t = stack'[c]
  OBVIOUS
<1>2. /\ Len(t) = i - 1
      /\ \A j \in 1 .. i - 1 :
           /\ j \in 1 .. Len(s)
           /\ j # i - 1 => t[j] = s[j]
           /\ j = i - 1 => t[j] = [s[j] EXCEPT !.names = s[j].names \cup N]
  BY <1>1, PopFacts DEF Inv
<1>3. s \in Seq(FrameType) /\ StackOK(c, s, running)
  BY <1>1 DEF Inv, TypeOK, Structure
<1>4. ASSUME NEW j \in 1 .. i - 1
      PROVE  t[j].via = s[j].via /\ t[j].state = s[j].state
  <2>1. j \in 1 .. Len(s)
    BY <1>2
  <2>2. s[j] \in FrameType
    BY <1>3, <2>1
  <2>3. CASE j # i - 1
    BY <1>2, <2>3
  <2>4. CASE j = i - 1
    <3>1. t[j] = [s[j] EXCEPT !.names = s[j].names \cup N]
      BY <1>2, <2>4
    <3>2. QED
      BY <2>2, <3>1 DEF FrameType
  <2>5. QED
    BY <2>3, <2>4
<1>5. QED
  BY <1>1, <1>2, <1>3, <1>4 DEF StackOK

LEMMA ReturnFrames ==
  ASSUME Inv, down = {}, NEW c \in Controller, stack[c] # <<>>,
         PopTo(c, Len(stack[c]), Top(c).names)
  PROVE  FramesOK(c, stack'[c], handlers)
<1>1. PICK s, t, n, N : /\ s = stack[c] /\ t = stack'[c]
                        /\ n = Len(stack[c]) /\ N = Top(c).names
  OBVIOUS
<1>2. /\ s \in Seq(FrameType) /\ n = Len(s) /\ n \in Nat /\ n >= 1
      /\ n \in 1 .. n /\ N = s[n].names /\ s[n] \in FrameType
  BY <1>1, TopFacts DEF Inv
<1>3. N \in SUBSET Name
  BY <1>2 DEF FrameType
<1>4. /\ Len(t) = n - 1
      /\ \A j \in 1 .. n - 1 :
           /\ j \in 1 .. n
           /\ j # n - 1 => t[j] = s[j]
           /\ j = n - 1 => t[j] = [s[j] EXCEPT !.names = s[j].names \cup N]
  BY <1>1, <1>2, <1>3, PopFacts DEF Inv
<1>5. FramesOK(c, s, handlers)
  BY <1>1 DEF Inv, Quiet
<1>6. ASSUME NEW j \in 1 .. n - 1
      PROVE  /\ t[j].via = s[j].via /\ t[j].state = s[j].state
             /\ t[j].hops = s[j].hops /\ t[j].visited = s[j].visited
             /\ s[j].names \subseteq t[j].names
             /\ FrameOK(t[j], Peer[t[j].via], handlers[Peer[t[j].via]])
  <2>1. j \in 1 .. n /\ s[j] \in FrameType
    BY <1>2, <1>4
  <2>2. FrameOK(s[j], Peer[s[j].via], handlers[Peer[s[j].via]])
    BY <1>2, <1>5, <2>1 DEF FramesOK
  <2>3. CASE j # n - 1
    <3>1. t[j] = s[j]
      BY <1>4, <2>3
    <3>2. QED
      BY <2>2, <3>1
  <2>4. CASE j = n - 1
    <3>1. PICK f, x, H, g : f = s[j] /\ x = Peer[f.via] /\ H = handlers[x]
                            /\ g = t[j]
      OBVIOUS
    <3>2. g = [f EXCEPT !.names = f.names \cup N]
      BY <1>4, <2>4, <3>1
    <3>3. f \in FrameType /\ f.via \in Controller /\ x \in Controller
      BY <2>1, <3>1, Topology DEF FrameType
    <3>4. /\ g.via = f.via /\ g.state = f.state /\ g.hops = f.hops
          /\ g.visited = f.visited /\ g.names = f.names \cup N
          /\ g.todo = f.todo
      BY <3>2, <3>3 DEF FrameType
    <3>5. n > 1 /\ n - 1 = j
      BY <1>2, <2>4
    <3>6. s[n].via \in ForwardsOf(x, H) /\ f.names # {}
      BY <1>2, <1>5, <3>1, <3>5 DEF FramesOK
    <3>7. OneSided => NamesOf(handlers[Peer[s[n].via]]) \subseteq NamesOf(H)
      BY <3>1, <3>3, <3>6, ForwardKnown
    <3>8. OneSided => N \subseteq NamesOf(handlers[Peer[s[n].via]])
      BY <1>2, <1>5 DEF FramesOK, FrameOK
    <3>9. FrameOK(f, x, H)
      BY <2>2, <3>1
    <3>10. FrameOK(g, x, H)
      BY <3>4, <3>6, <3>7, <3>8, <3>9 DEF FrameOK
    <3>11. QED
      BY <3>1, <3>4, <3>10
  <2>5. QED
    BY <2>3, <2>4
<1>7. ASSUME NEW j \in 1 .. n - 1, j > 1
      PROVE  /\ t[j].via \in ForwardsOf(Peer[t[j - 1].via],
                                        handlers[Peer[t[j - 1].via]])
             /\ t[j - 1].names # {}
  <2>1. j \in 1 .. n /\ j - 1 \in 1 .. n - 1
    BY <1>2, <1>7
  <2>2. /\ s[j].via \in ForwardsOf(Peer[s[j - 1].via],
                                   handlers[Peer[s[j - 1].via]])
        /\ s[j - 1].names # {}
    BY <1>2, <1>5, <1>7, <2>1 DEF FramesOK
  <2>3. /\ t[j].via = s[j].via /\ t[j - 1].via = s[j - 1].via
        /\ s[j - 1].names \subseteq t[j - 1].names
    BY <1>6, <2>1
  <2>4. QED
    BY <2>2, <2>3
<1>8. ASSUME NEW j \in 1 .. n - 1, j = 1
      PROVE  /\ t[j].state = "sent" =>
                  t[j].visited = {c} /\ (NoLimits => t[j].hops # 0)
             /\ t[j].state = "running" /\ NoLimits => t[j].names # {}
  <2>1. j \in 1 .. n
    BY <1>4
  <2>2. /\ s[j].state = "sent" =>
             s[j].visited = {c} /\ (NoLimits => s[j].hops # 0)
        /\ s[j].state = "running" /\ NoLimits => s[j].names # {}
    BY <1>2, <1>5, <1>8, <2>1 DEF FramesOK
  <2>3. QED
    BY <1>6, <2>2
<1>9. FramesOK(c, t, handlers)
  BY <1>4, <1>6, <1>7, <1>8 DEF FramesOK
<1>10. QED
  BY <1>1, <1>9

LEMMA ReturnKeeps ==
  ASSUME Inv, NEW c \in Controller, Return(c)
  PROVE  Inv'
<1>1. PICK n, N : n = Len(stack[c]) /\ N = Top(c).names
  OBVIOUS
<1>2. /\ stack[c] # <<>> /\ Top(c).state = "running" /\ PopTo(c, n, N)
      /\ UNCHANGED <<running, down, handlers, step>>
      /\ answer' = IF n = 1 THEN [answer EXCEPT ![c] =
                                    [status |-> "ok", names |-> N]]
                            ELSE answer
  BY <1>1 DEF Return
<1>3. /\ n \in 1 .. Len(stack[c]) /\ n \in Nat /\ n >= 1
      /\ Top(c) = stack[c][n] /\ Top(c) \in FrameType
      /\ answer[c].status = "asked" /\ N \in SUBSET Name
  <2>1. /\ n \in 1 .. Len(stack[c]) /\ n \in Nat /\ n >= 1
        /\ Top(c) = stack[c][n] /\ Top(c) \in FrameType
        /\ answer[c].status = "asked"
    BY <1>1, <1>2, TopFacts DEF Inv
  <2>2. QED
    BY <1>1, <2>1 DEF FrameType
<1>4. /\ stack' \in [Controller -> Seq(FrameType)]
      /\ \A d \in Controller : d # c => stack'[d] = stack[d]
      /\ n = 1 => stack'[c] = <<>>
  BY <1>2, <1>3, PopFacts DEF Inv
<1>5. StackOK(c, stack'[c], running)
  BY <1>2, <1>3, PopStack
<1>6. /\ answer' \in [Controller -> AnswerType]
      /\ \A d \in Controller : d # c => answer'[d] = answer[d]
      /\ n = 1 => answer'[c] = [status |-> "ok", names |-> N]
      /\ n # 1 => answer' = answer
  <2>1. answer \in [Controller -> AnswerType]
    BY DEF Inv, TypeOK
  <2>2. CASE n = 1
    <3>1. PICK a : a = [status |-> "ok", names |-> N]
      OBVIOUS
    <3>2. a \in AnswerType
      BY <1>3, <3>1 DEF AnswerType
    <3>3. answer' = [answer EXCEPT ![c] = a]
      BY <1>2, <2>2, <3>1
    <3>4. QED
      BY <2>1, <2>2, <3>1, <3>2, <3>3
  <2>3. CASE n # 1
    BY <1>2, <2>1, <2>3
  <2>4. QED
    BY <2>2, <2>3
<1>7. n = 1 => Top(c).via = c /\ Peer[c] \in running
  BY <1>2, <1>3 DEF Inv, Structure, StackOK
<1>8. AnswerOK(c, answer'[c], running, down)
  <2>1. AnswerOK(c, answer[c], running, down)
    BY DEF Inv, Structure
  <2>2. CASE n = 1
    <3>1. c \in running
      BY <1>3, <2>1 DEF AnswerOK
    <3>2. answer'[c].status = "ok"
      BY <1>6, <2>2
    <3>3. QED
      BY <1>7, <2>2, <3>1, <3>2 DEF AnswerOK
  <2>3. CASE n # 1
    BY <1>6, <2>1, <2>3
  <2>4. QED
    BY <2>2, <2>3
<1>9. NoRing(answer')
  <2>1. answer'[c].status = "ok" => Peer[c] \in running
    BY <1>8 DEF AnswerOK
  <2>2. answer[c].status \notin {"ok", "failed"}
    BY <1>3
  <2>3. QED
    BY <1>6, <2>1, <2>2, NoRingKeeps
<1>10. ASSUME down = {}
       PROVE  /\ FramesOK(c, stack'[c], handlers)
              /\ FoundOK(answer'[c], Peer[c], handlers[Peer[c]])
  <2>1. FramesOK(c, stack'[c], handlers)
    BY <1>1, <1>2, <1>10, ReturnFrames
  <2>2. CASE n = 1
    <3>1. PICK a : a = answer'[c]
      OBVIOUS
    <3>2. a.names = N /\ a.status = "ok"
      BY <1>6, <2>2, <3>1
    <3>3. /\ FrameOK(Top(c), Peer[c], handlers[Peer[c]])
          /\ NoLimits => N # {}
      BY <1>1, <1>2, <1>3, <1>7, <1>10, <2>2 DEF Inv, Quiet, FramesOK
    <3>4. FoundOK(a, Peer[c], handlers[Peer[c]])
      BY <1>1, <3>2, <3>3 DEF FoundOK, FrameOK
    <3>5. QED
      BY <2>1, <3>1, <3>4
  <2>3. CASE n # 1
    BY <1>6, <1>10, <2>1, <2>3 DEF Inv, Quiet
  <2>4. QED
    BY <2>2, <2>3
<1>11. stack'[c] # <<>> => answer'[c].status = "asked"
  BY <1>3, <1>4, <1>6
<1>12. QED
  BY <1>2, <1>4, <1>5, <1>6, <1>8, <1>9, <1>10, <1>11, ListKeeps

LEMMA CallFailsKeeps ==
  ASSUME Inv, NEW c \in Controller, CallFails(c)
  PROVE  Inv'
<1>1. PICK i \in DOMAIN stack[c] :
        /\ stack[c][i].via \in down /\ PopTo(c, i, {})
        /\ answer' = IF i = 1 THEN [answer EXCEPT ![c].status = "failed"]
                              ELSE answer
  BY DEF CallFails
<1>2. UNCHANGED <<running, down, handlers, step>> /\ down # {}
  BY <1>1 DEF CallFails
<1>3. /\ i \in 1 .. Len(stack[c]) /\ stack[c] # <<>>
      /\ {} \in SUBSET Name
  <2>1. stack[c] \in Seq(FrameType)
    BY DEF Inv, TypeOK
  <2>2. DOMAIN stack[c] = 1 .. Len(stack[c])
    BY <2>1
  <2>3. QED
    BY <2>1, <2>2
<1>4. answer[c].status = "asked"
  BY <1>3, TopFacts DEF Inv
<1>5. /\ stack' \in [Controller -> Seq(FrameType)]
      /\ \A d \in Controller : d # c => stack'[d] = stack[d]
      /\ i = 1 => stack'[c] = <<>>
  BY <1>1, <1>3, PopFacts DEF Inv
<1>6. StackOK(c, stack'[c], running)
  BY <1>1, <1>3, PopStack
<1>7. /\ answer' \in [Controller -> AnswerType]
      /\ \A d \in Controller : d # c => answer'[d] = answer[d]
      /\ i = 1 => /\ answer'[c].status = "failed"
                  /\ answer'[c].names = answer[c].names
      /\ i # 1 => answer' = answer
  <2>1. answer \in [Controller -> AnswerType]
    BY DEF Inv, TypeOK
  <2>2. CASE i = 1
    <3>1. answer' = [answer EXCEPT ![c].status = "failed"]
      BY <1>1, <2>2
    <3>2. QED
      BY <2>1, <2>2, <3>1 DEF AnswerType
  <2>3. CASE i # 1
    BY <1>1, <2>1, <2>3
  <2>4. QED
    BY <2>2, <2>3
<1>8. AnswerOK(c, answer'[c], running, down)
  <2>1. AnswerOK(c, answer[c], running, down)
    BY DEF Inv, Structure
  <2>2. CASE i = 1
    <3>1. PICK a, b : a = answer[c] /\ b = answer'[c]
      OBVIOUS
    <3>2. b.status = "failed" /\ b.names = a.names /\ a.status = "asked"
      BY <1>4, <1>7, <2>2, <3>1
    <3>3. AnswerOK(c, b, running, down)
      BY <1>2, <2>1, <3>1, <3>2 DEF AnswerOK
    <3>4. QED
      BY <3>1, <3>3
  <2>3. CASE i # 1
    BY <1>7, <2>1, <2>3
  <2>4. QED
    BY <2>2, <2>3
<1>9. NoRing(answer')
  <2>1. answer'[c].status = "ok" => Peer[c] \in running
    BY <1>8 DEF AnswerOK
  <2>2. answer[c].status \notin {"ok", "failed"}
    BY <1>4
  <2>3. QED
    BY <1>7, <2>1, <2>2, NoRingKeeps
<1>10. stack'[c] # <<>> => answer'[c].status = "asked"
  BY <1>4, <1>5, <1>7
<1>11. QED
  BY <1>2, <1>3, <1>5, <1>6, <1>7, <1>8, <1>9, <1>10, ListKeeps

-------------------------------------------------------------------------------
(***************************************************************************)
(* Splice and Serve.                                                       *)
(***************************************************************************)
LEMMA StartKeeps ==
  ASSUME Inv, NEW n \in Node, Start(n)
  PROVE  Inv'
<1>1. PICK c : c = Current(n)
  OBVIOUS
<1>2. /\ Starting(n) /\ answer[c].status = "none"
      /\ running' = running \cup {c}
      /\ handlers' = IF c = Main[n] THEN handlers
                     ELSE [handlers EXCEPT ![c] = @ \cup
                       {h \in handlers[Main[n]] : h.via = "local"
                                                  /\ h.name \in Visible}]
      /\ answer' = [answer EXCEPT ![c].status = "asked"]
      /\ UNCHANGED <<down, step>>
  BY <1>1 DEF Start
<1>3. PICK state \in SentStates(c) :
        stack' = [stack EXCEPT ![c] = <<Frame(c, HopLimit[n], {c}, state)>>]
  BY <1>1 DEF Start
<1>4. /\ c \in Controller
      /\ \/ c \in ToSet(Splices[n]) /\ c # Main[n]
         \/ c = Main[n] /\ step[n] = Len(Splices[n])
  BY <1>1, <1>2, CurrentFacts DEF Inv
<1>5. PICK f : f = Frame(c, HopLimit[n], {c}, state)
  OBVIOUS
<1>6. /\ f \in FrameType /\ f.via = c /\ f.names = {} /\ f.todo = {}
      /\ f.visited = {c} /\ f.hops = HopLimit[n] /\ f.state # "running"
  <2>1. state \in {"sent", "lost"}
    BY DEF SentStates
  <2>2. HopLimit[n] \in Int
    BY Topology
  <2>3. QED
    BY <1>4, <1>5, <2>1, <2>2 DEF Frame, FrameType
<1>7. PICK s : s = <<f>>
  OBVIOUS
<1>8. s \in Seq(FrameType) /\ Len(s) = 1 /\ s[1] = f
  BY <1>6, <1>7
<1>9. /\ stack' \in [Controller -> Seq(FrameType)] /\ stack'[c] = s
      /\ \A d \in Controller : d # c => stack'[d] = stack[d]
  <2>1. stack' = [stack EXCEPT ![c] = s]
    BY <1>3, <1>5, <1>7
  <2>2. QED
    BY <1>4, <1>8, <2>1 DEF Inv, TypeOK
<1>10. /\ answer' \in [Controller -> AnswerType]
       /\ answer'[c].status = "asked" /\ answer'[c].names = answer[c].names
       /\ \A d \in Controller : d # c => answer'[d] = answer[d]
  BY <1>2, <1>4 DEF Inv, TypeOK, AnswerType
<1>11. /\ handlers' \in [Controller -> SUBSET HandlerType]
       /\ \A x \in Controller : handlers[x] \subseteq handlers'[x]
       /\ \A x \in Controller : x \notin Spliced => handlers'[x] = handlers[x]
       /\ \A x \in Controller : \A h \in handlers'[x] :
            \/ h \in handlers[x]
            \/ h \in handlers[Main[n]] /\ h.via = "local"
  <2>1. /\ handlers \in [Controller -> SUBSET HandlerType]
        /\ Main[n] \in Controller
    BY Topology DEF Inv, TypeOK
  <2>2. CASE c = Main[n]
    BY <1>2, <2>1, <2>2
  <2>3. CASE c # Main[n]
    <3>1. c \in Spliced
      BY <1>4, <2>3, Topology, Zenon
    <3>2. PICK H : H = {h \in handlers[Main[n]] : h.via = "local"
                                                  /\ h.name \in Visible}
      OBVIOUS
    <3>3. /\ H \in SUBSET HandlerType
          /\ \A h \in H : h \in handlers[Main[n]] /\ h.via = "local"
      BY <2>1, <3>2
    <3>4. handlers' = [handlers EXCEPT ![c] = handlers[c] \cup H]
      BY <1>2, <2>3, <3>2
    <3>5. QED
      BY <1>4, <2>1, <3>1, <3>3, <3>4
  <2>4. QED
    BY <2>2, <2>3
<1>12. TypeOK'
  <2>1. running' \subseteq Controller /\ down' \subseteq Controller
    BY <1>2, <1>4 DEF Inv, TypeOK
  <2>2. step' \in [Node -> Nat] /\ \A m \in Node : step'[m] <= Len(Program(m))
    BY <1>2 DEF Inv, TypeOK
  <2>3. ASSUME NEW d \in Controller
        PROVE  stack'[d] # <<>> => answer'[d].status = "asked"
    BY <1>9, <1>10 DEF Inv, TypeOK
  <2>4. QED
    BY <1>9, <1>10, <1>11, <2>1, <2>2, <2>3 DEF TypeOK
<1>13. answer[c].names = {}
  BY <1>2, <1>4 DEF Inv, Structure, AnswerOK
<1>14. ASSUME NEW m \in Node
       PROVE  ProgramOK(m, step[m], running', answer')
  <2>1. ProgramOK(m, step[m], running, answer)
    BY DEF Inv, Structure
  <2>2. ASSUME Main[m] \in running'
        PROVE  step[m] >= Len(Splices[m])
    <3>1. CASE Main[m] \in running
      BY <2>1, <3>1 DEF ProgramOK
    <3>2. CASE Main[m] = c
      <4>1. c \notin Spliced
        BY <3>2, Topology
      <4>2. c \notin ToSet(Splices[n])
        BY <4>1, Topology, Zenon
      <4>3. c = Main[n] /\ step[n] = Len(Splices[n]) /\ Len(Splices[n]) \in Nat
        BY <1>4, <4>2, Topology
      <4>4. m = n
        BY <3>2, <4>3, Topology
      <4>5. QED
        BY <4>3, <4>4
    <3>3. QED
      BY <1>2, <2>2, <3>1, <3>2
  <2>3. ASSUME NEW i \in 1 .. Len(Splices[m]), i <= step[m]
        PROVE  answer'[Splices[m][i]].status \in {"ok", "failed"}
    <3>1. answer[Splices[m][i]].status \in {"ok", "failed"}
      BY <2>1, <2>3 DEF ProgramOK
    <3>2. Splices[m][i] # c /\ Splices[m][i] \in Controller
      BY <1>2, <3>1, Topology
    <3>3. QED
      BY <1>10, <3>1, <3>2
  <2>4. QED
    BY <2>2, <2>3 DEF ProgramOK
<1>15. ASSUME NEW d \in Controller
       PROVE  AnswerOK(d, answer'[d], running', down)
  <2>1. AnswerOK(d, answer[d], running, down)
    BY DEF Inv, Structure
  <2>2. CASE d = c
    BY <1>2, <1>10, <1>13, <2>2 DEF AnswerOK
  <2>3. CASE d # c
    BY <1>2, <1>10, <2>1, <2>3 DEF AnswerOK
  <2>4. QED
    BY <2>2, <2>3
<1>16. ASSUME NEW d \in Controller
       PROVE  StackOK(d, stack'[d], running')
  <2>1. CASE d = c
    <3>1. \A i \in 1 .. Len(s) : s[i] = f
      BY <1>8
    <3>2. StackOK(c, s, running')
      BY <1>6, <3>1 DEF StackOK
    <3>3. QED
      BY <1>9, <2>1, <3>2
  <2>2. CASE d # c
    BY <1>2, <1>9, <2>2 DEF Inv, Structure, StackOK
  <2>3. QED
    BY <2>1, <2>2
<1>17. ASSUME NEW x \in Controller, NEW h \in handlers'[x]
       PROVE  HandlerOK(x, h, step, answer')
  <2>1. CASE h.via = "local"
    BY <2>1 DEF HandlerOK
  <2>2. CASE h \in handlers[x]
    <3>1. HandlerOK(x, h, step, answer)
      BY <2>2 DEF Inv, Structure
    <3>2. \A m \in Node : step[m] \in Nat /\ step[m] <= step[m]
      BY DEF Inv, TypeOK
    <3>3. \A d \in Controller :
            /\ answer[d].names \subseteq answer'[d].names
            /\ answer[d].status = "ok" => answer'[d].status = "ok"
      BY <1>2, <1>10
    <3>4. QED
      BY <3>1, <3>2, <3>3, HandlerStays
  <2>3. QED
    BY <1>11, <2>1, <2>2
<1>18. NoRing(answer')
  <2>1. answer[c].status \notin {"ok", "failed"}
    BY <1>2
  <2>2. answer'[c].status = "ok" => Peer[c] \in running
    BY <1>10
  <2>3. QED
    BY <1>4, <1>10, <2>1, <2>2, NoRingKeeps
<1>19. Structure'
  BY <1>2, <1>14, <1>15, <1>16, <1>17, <1>18 DEF Structure
<1>20. ASSUME down = {}
       PROVE  Quiet'
  <2>1. ASSUME NEW d \in Controller
        PROVE  Handler(Reflection, "local", d) \in handlers'[d]
    BY <1>11, <1>20 DEF Inv, Quiet
  <2>2. ASSUME NEW d \in Controller
        PROVE  FramesOK(d, stack'[d], handlers')
    <3>1. CASE d = c
      <4>1. FrameOK(f, Peer[f.via], handlers'[Peer[f.via]])
        BY <1>6 DEF FrameOK
      <4>2. NoLimits => f.hops # 0
        BY <1>6 DEF NoLimits
      <4>3. FramesOK(c, s, handlers')
        BY <1>6, <1>8, <4>1, <4>2 DEF FramesOK
      <4>4. QED
        BY <1>9, <3>1, <4>3
    <3>2. CASE d # c
      <4>1. /\ stack'[d] = stack[d] /\ stack[d] \in Seq(FrameType)
            /\ FramesOK(d, stack[d], handlers) /\ StackOK(d, stack[d], running)
        BY <1>9, <1>20, <3>2 DEF Inv, Structure, Quiet, TypeOK
      <4>2. FramesOK(d, stack[d], handlers')
        BY <1>11, <4>1, FramesGrow
      <4>3. QED
        BY <4>1, <4>2
    <3>3. QED
      BY <3>1, <3>2
  <2>3. ASSUME NEW d \in Controller
        PROVE  FoundOK(answer'[d], Peer[d], handlers'[Peer[d]])
    <3>1. CASE d = c
      BY <1>10, <1>13, <3>1 DEF FoundOK
    <3>2. CASE d # c
      <4>1. /\ answer'[d] = answer[d] /\ Peer[d] \in Controller
            /\ FoundOK(answer[d], Peer[d], handlers[Peer[d]])
            /\ AnswerOK(d, answer[d], running, down)
        BY <1>10, <1>20, <3>2, Topology DEF Inv, Structure, Quiet
      <4>2. /\ handlers[Peer[d]] \subseteq handlers'[Peer[d]]
            /\ Peer[d] \notin Spliced /\ Peer[d] \in running
                 => handlers'[Peer[d]] = handlers[Peer[d]]
        BY <1>11, <4>1
      <4>3. FoundOK(answer[d], Peer[d], handlers'[Peer[d]])
        BY <4>1, <4>2, FoundGrow
      <4>4. QED
        BY <4>1, <4>3
    <3>3. QED
      BY <3>1, <3>2
  <2>4. ASSUME NEW m \in Node
        PROVE  OffersOK(m, step[m], handlers'[Main[m]], answer')
    <3>1. handlers'[Main[m]] = handlers[Main[m]]
      BY <1>11, Topology
    <3>2. OffersOK(m, step[m], handlers[Main[m]], answer)
      BY <1>20 DEF Inv, Quiet
    <3>3. \A d \in Controller : answer'[d].names = answer[d].names
      BY <1>10
    <3>4. \A i \in 1 .. Len(Splices[m]) : Splices[m][i] \in Controller
      BY Topology
    <3>5. QED
      BY <3>1, <3>2, <3>3, <3>4 DEF OffersOK
  <2>5. QED
    BY <1>2, <2>1, <2>2, <2>3, <2>4 DEF Quiet
<1>21. QED
  BY <1>2, <1>12, <1>19, <1>20 DEF Inv

\* Splice or Serve of node n returns: its discovery is done, and controllers
\* other than the main ones that run get more handlers.
LEMMA ReturnsKeep ==
  ASSUME Inv, NEW n \in Node, UNCHANGED <<running, down, answer, stack>>,
         step' = [step EXCEPT ![n] = @ + 1], step[n] < Len(Program(n)),
         handlers' \in [Controller -> SUBSET HandlerType],
         \A x \in Controller : handlers[x] \subseteq handlers'[x],
         \A x \in Controller : x \notin Spliced /\ x \in running
                                 => handlers'[x] = handlers[x],
         \A x \in Controller : \A h \in handlers'[x] : h \notin handlers[x] =>
           HandlerOK(x, h, step', answer),
         ProgramOK(n, step'[n], running, answer),
         down = {} => OffersOK(n, step'[n], handlers'[Main[n]], answer)
  PROVE  Inv'
<1>1. /\ step \in [Node -> Nat] /\ step' \in [Node -> Nat]
      /\ step'[n] = step[n] + 1
      /\ \A m \in Node : m # n => step'[m] = step[m]
      /\ \A m \in Node : step[m] \in Nat /\ step'[m] \in Nat
                         /\ step[m] <= step'[m]
  <2>1. step \in [Node -> Nat]
    BY DEF Inv, TypeOK
  <2>2. /\ step' \in [Node -> Nat] /\ step'[n] = step[n] + 1
        /\ \A m \in Node : m # n => step'[m] = step[m]
    BY <2>1
  <2>3. QED
    BY <2>1, <2>2
<1>2. TypeOK'
  <2>1. \A m \in Node : step'[m] <= Len(Program(m))
    <3>1. Len(Program(n)) \in Nat
      <4>1. Program(n) \in Seq(Controller)
        BY Topology DEF Program
      <4>2. QED
        BY <4>1
    <3>2. step'[n] <= Len(Program(n))
      BY <1>1, <3>1
    <3>3. QED
      BY <1>1, <3>2 DEF Inv, TypeOK
  <2>2. QED
    BY <1>1, <2>1 DEF Inv, TypeOK
<1>3. ASSUME NEW x \in Controller, NEW h \in handlers'[x]
      PROVE  HandlerOK(x, h, step', answer)
  <2>1. CASE h \in handlers[x]
    <3>1. HandlerOK(x, h, step, answer)
      BY <2>1 DEF Inv, Structure
    <3>2. \A d \in Controller :
            /\ answer[d].names \subseteq answer[d].names
            /\ answer[d].status = "ok" => answer[d].status = "ok"
      OBVIOUS
    <3>3. QED
      BY <1>1, <3>1, <3>2, HandlerStays
  <2>2. QED
    BY <2>1
<1>4. \A m \in Node : ProgramOK(m, step'[m], running, answer)
  BY <1>1 DEF Inv, Structure
<1>5. Structure'
  BY <1>3, <1>4 DEF Inv, Structure
<1>6. ASSUME down = {}
      PROVE  Quiet'
  <2>1. ASSUME NEW d \in Controller
        PROVE  Handler(Reflection, "local", d) \in handlers'[d]
    BY <1>6 DEF Inv, Quiet
  <2>2. ASSUME NEW d \in Controller
        PROVE  FramesOK(d, stack[d], handlers')
    <3>1. /\ stack[d] \in Seq(FrameType)
          /\ FramesOK(d, stack[d], handlers) /\ StackOK(d, stack[d], running)
      BY <1>6 DEF Inv, Structure, Quiet, TypeOK
    <3>2. QED
      BY <3>1, FramesGrow
  <2>3. ASSUME NEW d \in Controller
        PROVE  FoundOK(answer[d], Peer[d], handlers'[Peer[d]])
    <3>1. /\ Peer[d] \in Controller
          /\ FoundOK(answer[d], Peer[d], handlers[Peer[d]])
          /\ AnswerOK(d, answer[d], running, down)
      BY <1>6, Topology DEF Inv, Structure, Quiet
    <3>2. /\ handlers[Peer[d]] \subseteq handlers'[Peer[d]]
          /\ Peer[d] \notin Spliced /\ Peer[d] \in running
               => handlers'[Peer[d]] = handlers[Peer[d]]
      BY <3>1
    <3>3. QED
      BY <3>1, <3>2, FoundGrow
  <2>4. ASSUME NEW m \in Node
        PROVE  OffersOK(m, step'[m], handlers'[Main[m]], answer)
    <3>1. CASE m = n
      BY <1>6, <3>1
    <3>2. CASE m # n
      <4>1. OffersOK(m, step[m], handlers[Main[m]], answer)
        BY <1>6 DEF Inv, Quiet
      <4>2. NamesOf(handlers[Main[m]]) \subseteq NamesOf(handlers'[Main[m]])
        BY Topology, HandlersGrow
      <4>3. step'[m] = step[m]
        BY <1>1, <3>2
      <4>4. QED
        BY <4>1, <4>2, <4>3 DEF OffersOK
    <3>3. QED
      BY <3>1, <3>2
  <2>5. QED
    BY <2>1, <2>2, <2>3, <2>4 DEF Quiet
<1>7. QED
  BY <1>2, <1>5, <1>6 DEF Inv

LEMMA SpliceReturnKeeps ==
  ASSUME Inv, NEW n \in Node, SpliceReturn(n)
  PROVE  Inv'
<1>1. PICK c, L, k : /\ c = Current(n) /\ k = step[n]
                     /\ L = {Handler(s, c, c) : s \in answer[c].names}
  OBVIOUS
<1>2. /\ Starting(n) /\ c # Main[n] /\ answer[c].status \in {"ok", "failed"}
      /\ handlers' = [handlers EXCEPT ![Main[n]] = @ \cup L]
      /\ step' = [step EXCEPT ![n] = @ + 1]
      /\ UNCHANGED <<running, down, answer, stack>>
  BY <1>1 DEF SpliceReturn
<1>3. /\ k \in Nat /\ c \in Controller /\ Len(Splices[n]) \in Nat
      /\ k + 1 \in 1 .. Len(Splices[n]) /\ c = Splices[n][k + 1]
  BY <1>1, <1>2, CurrentFacts, Topology DEF Inv
<1>4. Main[n] \notin running /\ Main[n] \in Controller
  <2>1. ~(k >= Len(Splices[n]))
    BY <1>3
  <2>2. QED
    BY <1>1, <2>1, Topology DEF Inv, Structure, ProgramOK
<1>5. step'[n] = k + 1 /\ step[n] < Len(Program(n))
  BY <1>1, <1>2 DEF Inv, TypeOK, Starting
<1>6. /\ L \in SUBSET HandlerType
      /\ \A h \in L : h.via = c /\ h.name \in answer[c].names
      /\ answer[c].names \subseteq NamesOf(L)
  <2>1. answer[c].names \in SUBSET Name
    BY <1>3 DEF Inv, TypeOK, AnswerType
  <2>2. \A h \in L : \E s \in answer[c].names : h = Handler(s, c, c)
    BY <1>1
  <2>3. \A s \in Name : LET h == Handler(s, c, c) IN
          h.via = c /\ h.name = s /\ h.ctx = c /\ h \in HandlerType
    BY <1>3 DEF Handler, HandlerType
  <2>4. L \in SUBSET HandlerType
    BY <2>1, <2>2, <2>3
  <2>5. \A h \in L : h.via = c /\ h.name \in answer[c].names
    BY <2>1, <2>2, <2>3
  <2>6. ASSUME NEW s \in answer[c].names
        PROVE  s \in NamesOf(L)
    <3>1. Handler(s, c, c) \in L
      BY <1>1, <2>6
    <3>2. Handler(s, c, c).name = s
      BY DEF Handler
    <3>3. QED
      BY <3>1, <3>2 DEF NamesOf
  <2>7. QED
    BY <2>4, <2>5, <2>6
<1>7. /\ handlers' \in [Controller -> SUBSET HandlerType]
      /\ handlers'[Main[n]] = handlers[Main[n]] \cup L
      /\ \A x \in Controller : x # Main[n] => handlers'[x] = handlers[x]
  BY <1>2, <1>4, <1>6 DEF Inv, TypeOK
<1>8. ASSUME NEW x \in Controller, NEW h \in handlers'[x], h \notin handlers[x]
      PROVE  HandlerOK(x, h, step', answer)
  <2>1. x = Main[n] /\ h \in L
    BY <1>7, <1>8
  <2>2. k + 1 <= step'[n]
    BY <1>3, <1>5
  <2>3. FromSplice(x, h, step', answer)
    BY <1>3, <1>6, <2>1, <2>2 DEF FromSplice
  <2>4. QED
    BY <1>6, <2>1, <2>3 DEF HandlerOK
<1>9. ASSUME NEW i \in 1 .. Len(Splices[n]), i <= step'[n]
      PROVE  i <= step[n] \/ Splices[n][i] = c
  <2>1. i <= k \/ i = k + 1
    BY <1>3, <1>5, <1>9
  <2>2. QED
    BY <1>1, <1>3, <2>1
<1>10. ProgramOK(n, step'[n], running, answer)
  BY <1>2, <1>4, <1>9 DEF Inv, Structure, ProgramOK
<1>11. ASSUME down = {}
       PROVE  OffersOK(n, step'[n], handlers'[Main[n]], answer)
  <2>1. PICK H : H = handlers'[Main[n]]
    OBVIOUS
  <2>2. /\ NamesOf(handlers[Main[n]]) \subseteq NamesOf(H)
        /\ NamesOf(L) \subseteq NamesOf(H)
    BY <1>7, <2>1, HandlersGrow
  <2>3. OffersOK(n, step[n], handlers[Main[n]], answer)
    BY <1>11 DEF Inv, Quiet
  <2>4. Local[n] \subseteq NamesOf(H)
    BY <2>2, <2>3 DEF OffersOK
  <2>5. ASSUME NEW i \in 1 .. Len(Splices[n]), i <= step'[n]
        PROVE  answer[Splices[n][i]].names \subseteq NamesOf(H)
    <3>1. CASE i <= step[n]
      BY <2>2, <2>3, <3>1 DEF OffersOK
    <3>2. CASE Splices[n][i] = c
      BY <1>6, <1>11, <2>2, <3>2
    <3>3. QED
      BY <1>9, <2>5, <3>1, <3>2
  <2>6. QED
    BY <2>1, <2>4, <2>5 DEF OffersOK
<1>12. /\ \A x \in Controller : handlers[x] \subseteq handlers'[x]
       /\ \A x \in Controller : x \notin Spliced /\ x \in running
                                  => handlers'[x] = handlers[x]
  BY <1>4, <1>7
<1>13. QED
  BY <1>2, <1>5, <1>7, <1>8, <1>10, <1>11, <1>12, ReturnsKeep

LEMMA ServeReturnKeeps ==
  ASSUME Inv, NEW n \in Node, ServeReturn(n)
  PROVE  Inv'
<1>1. PICK c, L, k : /\ c = Main[n] /\ k = step[n]
                     /\ L = {Handler(m, c, c) : m \in answer[c].names}
  OBVIOUS
<1>2. /\ Starting(n) /\ Current(n) = c
      /\ handlers' = [s \in Controller |-> IF s \in Tracked(n)
                        THEN handlers[s] \cup L ELSE handlers[s]]
      /\ step' = [step EXCEPT ![n] = @ + 1]
      /\ UNCHANGED <<running, down, answer, stack>>
  BY <1>1 DEF ServeReturn
<1>3. k \in Nat /\ c \in Controller /\ k = Len(Splices[n])
  BY <1>1, <1>2, CurrentFacts DEF Inv
<1>4. step'[n] = k + 1 /\ step[n] < Len(Program(n))
  BY <1>1, <1>2 DEF Inv, TypeOK, Starting
<1>5. /\ L \in SUBSET HandlerType
      /\ \A h \in L : h.via = c /\ h.name \in answer[c].names
  <2>1. answer[c].names \in SUBSET Name
    BY <1>3 DEF Inv, TypeOK, AnswerType
  <2>2. \A h \in L : \E s \in answer[c].names : h = Handler(s, c, c)
    BY <1>1
  <2>3. \A s \in Name : LET h == Handler(s, c, c) IN
          h.via = c /\ h.name = s /\ h.ctx = c /\ h \in HandlerType
    BY <1>3 DEF Handler, HandlerType
  <2>4. L \in SUBSET HandlerType
    BY <2>1, <2>2, <2>3
  <2>5. QED
    BY <2>1, <2>2, <2>3, <2>4
<1>6. \A s \in Tracked(n) : s \in ToSet(Splices[n]) /\ answer[s].status = "ok"
  BY DEF Tracked
<1>7. \A s \in Tracked(n) : s \in Spliced
  BY <1>6, Topology, Zenon
<1>8. /\ handlers' \in [Controller -> SUBSET HandlerType]
      /\ \A x \in Controller : x \notin Tracked(n) => handlers'[x] = handlers[x]
      /\ \A x \in Controller : x \in Tracked(n) =>
           handlers'[x] = handlers[x] \cup L
  <2>1. handlers \in [Controller -> SUBSET HandlerType]
    BY DEF Inv, TypeOK
  <2>2. QED
    BY <1>2, <1>5, <2>1
<1>9. ASSUME NEW x \in Controller, NEW h \in handlers'[x], h \notin handlers[x]
      PROVE  HandlerOK(x, h, step', answer)
  <2>1. x \in Tracked(n) /\ h \in L
    BY <1>8, <1>9
  <2>2. FromServe(x, h, answer)
    BY <1>1, <1>5, <1>6, <2>1 DEF FromServe
  <2>3. QED
    BY <1>5, <2>1, <2>2 DEF HandlerOK
<1>10. \A i \in 1 .. Len(Splices[n]) : i <= step[n]
  BY <1>1, <1>3
<1>11. ProgramOK(n, step'[n], running, answer)
  <2>1. step'[n] >= Len(Splices[n])
    BY <1>3, <1>4
  <2>2. QED
    BY <1>10, <2>1 DEF Inv, Structure, ProgramOK
<1>12. /\ \A x \in Controller : handlers[x] \subseteq handlers'[x]
       /\ \A x \in Controller : x \notin Spliced => handlers'[x] = handlers[x]
  BY <1>7, <1>8
<1>13. ASSUME down = {}
       PROVE  OffersOK(n, step'[n], handlers'[Main[n]], answer)
  <2>1. handlers'[Main[n]] = handlers[Main[n]]
    BY <1>12, Topology
  <2>2. OffersOK(n, step[n], handlers[Main[n]], answer)
    BY <1>13 DEF Inv, Quiet
  <2>3. QED
    BY <1>10, <2>1, <2>2 DEF OffersOK
<1>14. QED
  BY <1>2, <1>4, <1>8, <1>9, <1>11, <1>12, <1>13, ReturnsKeep

\* A stream that breaks leaves everything else as it is.
LEMMA BreakInv ==
  ASSUME Inv, NEW c \in Controller, Break(c)
  PROVE  Inv'
<1>1. /\ down' = down \cup {c, Peer[c]}
      /\ UNCHANGED <<running, handlers, step, answer, stack>>
  BY DEF Break
<1>2. down' # {} /\ down' \subseteq Controller
  BY <1>1, Topology DEF Inv, TypeOK
<1>3. TypeOK'
  BY <1>1, <1>2 DEF Inv, TypeOK
<1>4. \A d \in Controller : AnswerOK(d, answer[d], running, down')
  BY <1>2 DEF Inv, Structure, AnswerOK
<1>5. Structure'
  BY <1>1, <1>4 DEF Inv, Structure
<1>6. QED
  BY <1>2, <1>3, <1>5 DEF Inv

\* So does the goroutine that takes a handler from its list: a stream has
\* broken before.
LEMMA AfterFuncKeeps ==
  ASSUME Inv, NEW x \in Controller, AfterFunc(x)
  PROVE  Inv'
<1>1. PICK h \in handlers[x] :
        h.ctx \in down /\ handlers' = [handlers EXCEPT ![x] = @ \ {h}]
  BY DEF AfterFunc
<1>2. down # {} /\ UNCHANGED <<running, down, step, answer, stack>>
  BY <1>1 DEF AfterFunc
<1>3. /\ handlers' \in [Controller -> SUBSET HandlerType]
      /\ \A d \in Controller : handlers'[d] \subseteq handlers[d]
  <2>1. handlers \in [Controller -> SUBSET HandlerType]
    BY DEF Inv, TypeOK
  <2>2. QED
    BY <1>1, <2>1
<1>4. TypeOK'
  BY <1>2, <1>3 DEF Inv, TypeOK
<1>5. \A d \in Controller : \A g \in handlers'[d] :
        HandlerOK(d, g, step, answer)
  BY <1>3 DEF Inv, Structure
<1>6. Structure'
  BY <1>2, <1>5 DEF Inv, Structure
<1>7. QED
  BY <1>2, <1>4, <1>6 DEF Inv

-------------------------------------------------------------------------------
(***************************************************************************)
(* The invariant, and the theorems.                                        *)
(***************************************************************************)
LEMMA InitInv ==
  ASSUME Init
  PROVE  Inv
<1>1. /\ running = {} /\ down = {} /\ step = [n \in Node |-> 0]
      /\ \A c \in Controller : /\ handlers[c] = InitialHandlers(c)
                               /\ answer[c] = [status |-> "none", names |-> {}]
                               /\ answer[c].status = "none"
                               /\ answer[c].names = {}
                               /\ stack[c] = <<>>
  BY DEF Init
<1>2. ASSUME NEW c \in Controller, NEW h \in InitialHandlers(c)
      PROVE  /\ h \in HandlerType
             /\ h.via # "local" =>
                  h.via = c /\ h.ctx = c /\ h.name = Reflection
  <2>1. \E s \in Name :
          h = Handler(s, "local", c) \/ h = Handler(Reflection, c, c)
    BY <1>2 DEF InitialHandlers, Name
  <2>2. Reflection \in Name
    BY DEF Name
  <2>3. QED
    BY <2>1, <2>2 DEF Handler, HandlerType
<1>3. TypeOK
  <2>1. \A c \in Controller : InitialHandlers(c) \in SUBSET HandlerType
    BY <1>2
  <2>2. handlers \in [Controller -> SUBSET HandlerType]
    BY <2>1 DEF Init
  <2>3. \A n \in Node : step[n] <= Len(Program(n))
    <3>1. \A n \in Node : Program(n) \in Seq(Controller)
      BY Topology DEF Program
    <3>2. \A n \in Node : Len(Program(n)) \in Nat
      BY <3>1
    <3>3. QED
      BY <1>1, <3>2
  <2>4. step \in [Node -> Nat]
    BY <1>1
  <2>5. answer \in [Controller -> AnswerType]
    BY DEF Init, AnswerType
  <2>6. stack \in [Controller -> Seq(FrameType)]
    BY DEF Init
  <2>7. QED
    BY <1>1, <2>2, <2>3, <2>4, <2>5, <2>6 DEF TypeOK
<1>4. \A n \in Node : \A i \in 1 .. Len(Splices[n]) : ~(i <= step[n])
  BY <1>1
<1>5. Structure
  <2>1. \A n \in Node : ProgramOK(n, step[n], running, answer)
    BY <1>1, <1>4 DEF ProgramOK
  <2>2. \A c \in Controller : AnswerOK(c, answer[c], running, down)
    BY <1>1 DEF AnswerOK
  <2>3. \A c \in Controller : StackOK(c, stack[c], running)
    <3>1. \A c \in Controller : Len(stack[c]) = 0
      BY <1>1
    <3>2. QED
      BY <3>1 DEF StackOK
  <2>4. \A x \in Controller : \A h \in handlers[x] :
          HandlerOK(x, h, step, answer)
    BY <1>1, <1>2 DEF HandlerOK
  <2>5. \A n, p \in Node : ~Edge(n, p, answer)
    BY <1>1, Topology DEF Edge
  <2>6. NoRing(answer)
    BY <2>5 DEF NoRing
  <2>7. QED
    BY <2>1, <2>2, <2>3, <2>4, <2>6 DEF Structure
<1>6. Quiet
  <2>1. \A c \in Controller : Handler(Reflection, "local", c) \in handlers[c]
    BY <1>1 DEF InitialHandlers
  <2>2. \A c \in Controller : FramesOK(c, stack[c], handlers)
    <3>1. \A c \in Controller : Len(stack[c]) = 0
      BY <1>1
    <3>2. QED
      BY <3>1 DEF FramesOK
  <2>3. \A c \in Controller : FoundOK(answer[c], Peer[c], handlers[Peer[c]])
    BY <1>1 DEF FoundOK
  <2>4. ASSUME NEW n \in Node
        PROVE  OffersOK(n, step[n], handlers[Main[n]], answer)
    <3>1. ASSUME NEW s \in Local[n]
          PROVE  s \in NamesOf(handlers[Main[n]])
      <4>1. Main[n] \in Controller
        BY Topology
      <4>2. Handler(s, "local", Main[n]) \in handlers[Main[n]]
        BY <1>1, <4>1 DEF InitialHandlers
      <4>3. Handler(s, "local", Main[n]).name = s
        BY DEF Handler
      <4>4. QED
        BY <4>2, <4>3 DEF NamesOf
    <3>2. QED
      BY <1>4, <3>1 DEF OffersOK
  <2>5. QED
    BY <2>1, <2>2, <2>3, <2>4 DEF Quiet
<1>7. QED
  BY <1>3, <1>5, <1>6 DEF Inv

LEMMA NextInv ==
  ASSUME Inv, [Next]_vars
  PROVE  Inv'
<1>1. ASSUME NEW n \in Node, Start(n)
      PROVE  Inv'
  BY <1>1, StartKeeps
<1>2. ASSUME NEW n \in Node, SpliceReturn(n)
      PROVE  Inv'
  BY <1>2, SpliceReturnKeeps
<1>3. ASSUME NEW n \in Node, ServeReturn(n)
      PROVE  Inv'
  BY <1>3, ServeReturnKeeps
<1>4. ASSUME NEW c \in Controller, ListServices(c)
      PROVE  Inv'
  BY <1>4, VisitKeeps, ForwardKeeps, ReturnKeeps, CallFailsKeeps
     DEF ListServices
<1>5. ASSUME NEW c \in Controller, Break(c)
      PROVE  Inv'
  BY <1>5, BreakInv
<1>6. ASSUME NEW c \in Controller, AfterFunc(c)
      PROVE  Inv'
  BY <1>6, AfterFuncKeeps
<1>7. CASE UNCHANGED vars
  BY <1>7 DEF vars, Inv, TypeOK, Structure, Quiet, Program
<1>8. QED
  BY <1>1, <1>2, <1>3, <1>4, <1>5, <1>6, <1>7 DEF Next

LEMMA Invariant == Spec => []Inv
<1>1. Init => Inv
  BY InitInv
<1>2. Inv /\ [Next]_vars => Inv'
  BY NextInv
<1>3. QED
  BY <1>1, <1>2, PTL DEF Spec

\* The variables keep their types, and calls of ListServices are under way only
\* between the request of a discovery and its answer (discovery.go:49): none is
\* left behind by a Splice or Serve that has its answer.
THEOREM TypeCorrect == Spec => []TypeOK
<1>1. Inv => TypeOK
  BY DEF Inv
<1>2. QED
  BY <1>1, Invariant, PTL

LEMMA InvRoutes ==
  ASSUME Inv
  PROVE  RouteExists
<1> SUFFICES ASSUME OneSided, down = {},
                    NEW x \in Controller, NEW h \in handlers[x],
                    h.via # "local"
             PROVE  \E g \in handlers[Peer[h.via]] : g.name = h.name
  BY DEF RouteExists
<1>1. HandlerOK(x, h, step, answer)
  BY DEF Inv, Structure
<1>2. CASE h.via = x /\ h.name = Reflection
  <2>1. Handler(Reflection, "local", Peer[x]) \in handlers[Peer[x]]
    BY Topology DEF Inv, Quiet
  <2>2. Handler(Reflection, "local", Peer[x]).name = Reflection
    BY DEF Handler
  <2>3. QED
    BY <1>2, <2>1, <2>2
<1>3. CASE FromSplice(x, h, step, answer) \/ FromServe(x, h, answer)
  <2>1. h.name \in answer[h.via].names
    BY <1>3 DEF FromSplice, FromServe
  <2>2. h.via \in Controller
    <3>1. h.via \in Controller \cup {"local"}
      BY DEF Inv, TypeOK, HandlerType
    <3>2. QED
      BY <3>1
  <2>3. h.name \in NamesOf(handlers[Peer[h.via]])
    BY <2>1, <2>2 DEF Inv, Quiet, FoundOK
  <2>4. QED
    BY <2>3 DEF NamesOf
<1>4. QED
  BY <1>1, <1>2, <1>3 DEF HandlerOK

\* As long as no stream has broken, and if none is spliced at both ends, a
\* service is offered only where a request for it can be forwarded (Splice and
\* Serve register what discovery has found, server.go:217 and 309).
THEOREM RoutesExist == Spec => []RouteExists
<1>1. Inv => RouteExists
  BY InvRoutes
<1>2. QED
  BY <1>1, Invariant, PTL

\* A request leaves a main controller for a node that has been spliced, and a
\* spliced one for the main stream of its node.
LEMMA HopFacts ==
  ASSUME Inv, NEW name, name # Reflection, NEW x \in Controller,
         NEW y \in NextHops(x, name)
  PROVE  \/ \E n \in Node : \E c \in ToSet(Splices[n]) :
              x = Main[n] /\ answer[c].status = "ok" /\ y = Peer[c]
         \/ \E n \in Node :
              x \in ToSet(Splices[n]) /\ answer[x].status = "ok"
              /\ y = Peer[Main[n]]
<1>1. PICK h \in handlers[x] :
        h.name = name /\ h.via # "local" /\ y = Peer[h.via]
  BY DEF NextHops
<1>2. FromSplice(x, h, step, answer) \/ FromServe(x, h, answer)
  BY <1>1 DEF Inv, Structure, HandlerOK
<1>3. CASE FromServe(x, h, answer)
  BY <1>1, <1>3 DEF FromServe
<1>4. CASE FromSplice(x, h, step, answer)
  <2> PICK n \in Node : \E i \in 1 .. Len(Splices[n]) :
        /\ x = Main[n] /\ h.via = Splices[n][i]
        /\ h.name \in answer[h.via].names
    BY <1>4 DEF FromSplice
  <2>1. PICK i \in 1 .. Len(Splices[n]) :
          /\ x = Main[n] /\ h.via = Splices[n][i]
          /\ h.name \in answer[h.via].names
    OBVIOUS
  <2>2. h.via \in ToSet(Splices[n])
    BY <2>1, Topology, Zenon
  <2>3. h.via \in Controller
    BY <2>2, Topology
  <2>4. answer[h.via].status = "ok"
    BY <2>1, <2>3 DEF Inv, Structure, AnswerOK
  <2>5. QED
    BY <1>1, <2>1, <2>2, <2>4
<1>5. QED
  BY <1>2, <1>3, <1>4

LEMMA InvNoCircle ==
  ASSUME Inv
  PROVE  NoCircle
<1> SUFFICES ASSUME OneSided, NEW name \in Name \ {Reflection},
                    NEW C \in SUBSET Controller, C # {},
                    \A x \in C : NextHops(x, name) \cap C # {}
             PROVE  FALSE
  BY DEF NoCircle
<1> DEFINE Main2(x, y) == \E n \in Node : \E c \in ToSet(Splices[n]) :
             x = Main[n] /\ answer[c].status = "ok" /\ y = Peer[c]
           Spliced2(x, y) == \E n \in Node :
             x \in ToSet(Splices[n]) /\ answer[x].status = "ok"
             /\ y = Peer[Main[n]]
<1>1. \A x \in C : \E y \in C : Main2(x, y) \/ Spliced2(x, y)
  <2> SUFFICES ASSUME NEW x \in C
               PROVE  \E y \in C : Main2(x, y) \/ Spliced2(x, y)
    OBVIOUS
  <2>1. PICK y \in NextHops(x, name) : y \in C
    OBVIOUS
  <2>2. Main2(x, y) \/ Spliced2(x, y)
    BY HopFacts
  <2>3. QED
    BY <2>1, <2>2
<1>2. NoRing(answer)
  BY DEF Inv, Structure
<1>3. CASE \E n \in Node : Main[n] \in C
  <2>1. PICK S \in SUBSET Node : S = {n \in Node : Main[n] \in C}
    OBVIOUS
  <2>2. S # {}
    BY <1>3, <2>1
  <2>3. PICK n \in S : \A p \in S : ~Edge(n, p, answer)
    BY <1>2, <2>2 DEF NoRing
  <2>4. n \in Node /\ Main[n] \in C /\ Main[n] \notin Spliced
    BY <2>1, Topology
  <2>5. PICK y \in C : Main2(Main[n], y) \/ Spliced2(Main[n], y)
    BY <1>1, <2>4
  <2>6. ~Spliced2(Main[n], y)
    BY <2>4, Topology, Zenon
  <2>7. PICK m \in Node : \E c \in ToSet(Splices[m]) :
          Main[n] = Main[m] /\ answer[c].status = "ok" /\ y = Peer[c]
    BY <2>5, <2>6
  <2>8. m = n
    BY <2>4, <2>7, Topology
  <2>9. PICK c \in ToSet(Splices[n]) : answer[c].status = "ok" /\ y = Peer[c]
    BY <2>7, <2>8
  <2>10. y \notin Spliced
    <3>1. c \in Spliced
      BY <2>4, Topology, Zenon
    <3>2. QED
      BY <2>9, <3>1 DEF OneSided
  <2>11. PICK z \in C : Main2(y, z) \/ Spliced2(y, z)
    BY <1>1
  <2>12. ~Spliced2(y, z)
    BY <2>10, Topology, Zenon
  <2>13. PICK p \in Node : y = Main[p]
    BY <2>11, <2>12
  <2>14. p \in S
    BY <2>1, <2>13
  <2>15. Edge(n, p, answer)
    BY <2>9, <2>13 DEF Edge
  <2>16. QED
    BY <2>3, <2>14, <2>15
<1>4. CASE \A n \in Node : Main[n] \notin C
  <2>1. \A x \in C : \E y \in C : Spliced2(x, y)
    BY <1>1, <1>4
  <2>2. PICK S \in SUBSET Node :
          S = {n \in Node : \E x \in C : x \in ToSet(Splices[n])
                                         /\ answer[x].status = "ok"}
    OBVIOUS
  <2>3. S # {}
    <3>1. PICK x \in C : TRUE
      OBVIOUS
    <3>2. PICK y \in C : Spliced2(x, y)
      BY <2>1
    <3>3. QED
      BY <2>2, <3>2
  <2>4. PICK p \in S : \A n \in S : ~Edge(n, p, answer)
    BY <1>2, <2>3 DEF NoRing
  <2>5. PICK x \in C : x \in ToSet(Splices[p])
    BY <2>2
  <2>6. PICK y \in C : Spliced2(x, y)
    BY <2>1
  <2>7. PICK m \in Node : x \in ToSet(Splices[m]) /\ y = Peer[Main[m]]
    BY <2>6
  <2>8. p \in Node /\ m = p
    <3>1. p \in Node
      OBVIOUS
    <3>2. QED
      BY <2>5, <2>7, <3>1, Topology, Zenon
  <2>9. y = Peer[Main[p]] /\ Peer[y] = Main[p]
    BY <2>7, <2>8, Topology
  <2>10. PICK z \in C : Spliced2(y, z)
    BY <2>1
  <2>11. PICK k \in Node : y \in ToSet(Splices[k]) /\ answer[y].status = "ok"
    BY <2>10
  <2>12. k \in S /\ Edge(k, p, answer)
    BY <2>2, <2>9, <2>11 DEF Edge
  <2>13. QED
    BY <2>4, <2>12
<1>5. QED
  BY <1>3, <1>4

\* No request for a service other than reflection is forwarded in a circle,
\* also while streams break, if none is spliced at both ends (the handlers of
\* Splice and Serve, server.go).
THEOREM NeverCircles == Spec => []NoCircle
<1>1. Inv => NoCircle
  BY InvNoCircle
<1>2. QED
  BY <1>1, Invariant, PTL

LEMMA InvComplete ==
  ASSUME Inv
  PROVE  Complete
<1> SUFFICES ASSUME down = {}, NoLimits, NEW n \in Node, Main[n] \in running,
                    NEW m \in Below[n]
             PROVE  Local[m] \subseteq Offers(Main[n])
  BY DEF Complete, NoLimits
<1>1. PICK S \in SUBSET Node :
        S = {k \in Node : /\ Main[k] \in running
                          /\ NamesOf(handlers[Main[k]])
                               \subseteq NamesOf(handlers[Main[n]])}
  OBVIOUS
<1>2. n \in S
  BY <1>1
<1>3. ASSUME NEW k \in S, NEW j \in Child(k)
      PROVE  j \in S
  <2>1. PICK c : c = Peer[Main[j]]
    OBVIOUS
  <2>2. j \in Node /\ k \in Node /\ c \in ToSet(Splices[k])
    BY <2>1 DEF Child
  <2>3. c \in Controller /\ Peer[c] = Main[j] /\ Main[j] \notin Spliced
    BY <2>1, <2>2, Topology
  <2>4. PICK i \in 1 .. Len(Splices[k]) : c = Splices[k][i]
    BY <2>2, SplicedAt
  <2>5. i <= step[k]
    <3>1. step[k] >= Len(Splices[k])
      BY <1>1, <2>2 DEF Inv, Structure, ProgramOK
    <3>2. step[k] \in Nat /\ Len(Splices[k]) \in Nat
      BY <2>2, Topology DEF Inv, TypeOK
    <3>3. QED
      BY <3>1, <3>2
  <2>6. answer[c].status = "ok" /\ Main[j] \in running
    <3>1. answer[c].status \in {"ok", "failed"}
      BY <2>2, <2>4, <2>5 DEF Inv, Structure, ProgramOK
    <3>2. QED
      BY <2>3, <3>1 DEF Inv, Structure, AnswerOK
  <2>7. NamesOf(handlers[Main[j]]) \subseteq answer[c].names
    BY <2>3, <2>6 DEF Inv, Quiet, FoundOK
  <2>8. answer[c].names \subseteq NamesOf(handlers[Main[k]])
    BY <2>2, <2>4, <2>5 DEF Inv, Quiet, OffersOK
  <2>9. QED
    BY <1>1, <2>2, <2>6, <2>7, <2>8
<1>4. m \in Node /\ m \in S
  BY <1>2, <1>3 DEF Below
<1>5. Local[m] \subseteq NamesOf(handlers[Main[m]])
  BY <1>4 DEF Inv, Quiet, OffersOK
<1>6. QED
  BY <1>1, <1>4, <1>5 DEF Offers, NamesOf

\* As long as no stream has broken, a node that serves offers every service of
\* the nodes below it (the recursive ListServices, stream.go:381).
THEOREM OffersAll == Spec => []Complete
<1>1. Inv => Complete
  BY InvComplete
<1>2. QED
  BY <1>1, Invariant, PTL
===============================================================================
