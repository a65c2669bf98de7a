-------------------------- MODULE Descriptors_proof --------------------------
(***************************************************************************)
(* Who owns the host's descriptors, for any number of processes, threads,     *)
(* guest and host descriptors.                                              *)
(*                                                                         *)
(* The argument is about three functions: the host descriptor of every entry  *)
(* of every table (Hosts), what every host descriptor is (ends), and what     *)
(* every thread has received and not registered (Rights).  Own says that no   *)
(* host descriptor has two owners and that the owned ones are open; Kept that *)
(* the open ones are owned.  Every operation puts a free host descriptor in   *)
(* an empty entry, empties entries, moves a received one to an entry, or is a  *)
(* sequence of those.                                                       *)
(*                                                                         *)
(* First ownership, the invariant, and the calls that make, copy, replace,    *)
(* close and inherit entries; then the calls in two steps and the theorems.   *)
(***************************************************************************)
EXTENDS Descriptors, TLAPS

USE ZenonT(30)

-----------------------------------------------------------------------------
(* The lowest free numbers.                                                 *)

\* A set of numbers has its members in order.  Descriptors_proof proves it, by
\* theorems on finite sets whose modules nothing here needs.
Numbered ==
    \A n \in Nat : \A S \in SUBSET (0..n) :
        /\ Cardinality(S) \in Nat
        /\ \A i \in Nat : i < Cardinality(S) => Nth(S, i) \in S
        /\ \A i, j \in Nat : i < Cardinality(S) /\ j < Cardinality(S) /\ Nth(S, i) = Nth(S, j)
                            => i = j
        /\ S # {} => Nth(S, 0) \in S
        /\ \A a \in S : Cardinality({f \in S : f < a}) \in Nat
        /\ \A a, b \in S : Cardinality({f \in S : f < a}) = Cardinality({f \in S : f < b})
                          => a = b

-----------------------------------------------------------------------------
(* Ownership, of any functions of the right types.                          *)

Tables == [Procs -> [Fds -> HostFds \cup {NoHost}]]

\* Every owned host descriptor is open and has one owner.
Own(F, en, rc) ==
    /\ \A p \in Procs, fd \in Fds : F[p][fd] # NoHost => en[F[p][fd]] # NoEnd
    /\ \A p, q \in Procs, fd, gd \in Fds :
            F[p][fd] # NoHost /\ F[p][fd] = F[q][gd] => p = q /\ fd = gd
    /\ \A t \in Threads : rc[t] # NoHost =>
            /\ en[rc[t]] # NoEnd
            /\ \A p \in Procs, fd \in Fds : F[p][fd] # rc[t]
            /\ \A u \in Threads : rc[u] = rc[t] => u = t

\* Every open host descriptor is owned, or an eventfd's.
Kept(F, en, rc, sw) ==
    \A h \in HostFds :
        en[h] # NoEnd => \/ \E p \in Procs, fd \in Fds : F[p][fd] = h
                         \/ \E k \in Objects : sw[k] = h
                         \/ \E t \in Threads : rc[t] = h

LEMMA NoHostIsNone == NoHost \notin HostFds
    BY DescriptorsAssumption, SMT DEF NoHost, HostFds

\* A free host descriptor h, made an e, goes to the empty entry fd of p's table.
PutIn(F, en, G, fn, p, fd, h, e) ==
    /\ F \in Tables /\ G \in Tables /\ en \in [HostFds -> Ends]
    /\ p \in Procs /\ fd \in Fds /\ F[p][fd] = NoHost
    /\ h \in HostFds /\ en[h] = NoEnd /\ e \in Ends /\ e # NoEnd
    /\ \A q \in Procs, gd \in Fds : G[q][gd] = IF q = p /\ gd = fd THEN h ELSE F[q][gd]
    /\ fn = [en EXCEPT ![h] = e]

RightsTyped(rc) == rc \in [Threads -> HostFds \cup {NoHost}]

LEMMA PutKeeps ==
    ASSUME NEW F, NEW en, NEW rc, NEW sw, NEW G, NEW fn, NEW p, NEW fd, NEW h, NEW e,
           Own(F, en, rc), Kept(F, en, rc, sw), RightsTyped(rc),
           PutIn(F, en, G, fn, p, fd, h, e)
    PROVE  fn \in [HostFds -> Ends] /\ Own(G, fn, rc) /\ Kept(G, fn, rc, sw)
<1> USE DEF PutIn, RightsTyped
<1>1. \A q \in Procs, gd \in Fds : G[q][gd] = IF q = p /\ gd = fd THEN h ELSE F[q][gd]
    OBVIOUS
<1>2. fn \in [HostFds -> Ends] /\ \A g \in HostFds : fn[g] = IF g = h THEN e ELSE en[g]
    OBVIOUS
<1>3. \A q \in Procs, gd \in Fds : F[q][gd] # h /\ F[q][gd] \in HostFds \cup {NoHost}
    BY NoHostIsNone, SMT DEF Own, Tables
<1>4. \A t \in Threads : rc[t] # h /\ rc[t] \in HostFds \cup {NoHost}
    BY NoHostIsNone, SMT DEF Own
<1>5. Own(G, fn, rc)
  <2>1. \A q \in Procs, gd \in Fds : G[q][gd] # NoHost => fn[G[q][gd]] # NoEnd
        BY <1>1, <1>2, <1>3, SMT DEF Own
  <2>2. \A q, r \in Procs, gd, id \in Fds :
            G[q][gd] # NoHost /\ G[q][gd] = G[r][id] => q = r /\ gd = id
        BY <1>1, <1>3, SMT DEF Own
  <2>3. \A t \in Threads : rc[t] # NoHost =>
            /\ fn[rc[t]] # NoEnd
            /\ \A q \in Procs, gd \in Fds : G[q][gd] # rc[t]
            /\ \A u \in Threads : rc[u] = rc[t] => u = t
        BY <1>1, <1>2, <1>3, <1>4, SMT DEF Own
  <2> QED
        BY <2>1, <2>2, <2>3 DEF Own
<1>6. Kept(G, fn, rc, sw)
  <2> SUFFICES ASSUME NEW g \in HostFds, fn[g] # NoEnd
               PROVE  \/ \E q \in Procs, gd \in Fds : G[q][gd] = g
                      \/ \E k \in Objects : sw[k] = g
                      \/ \E t \in Threads : rc[t] = g
        BY DEF Kept
  <2>1. CASE g = h
        BY <1>1, <2>1
  <2>2. CASE g # h
    <3>1. en[g] # NoEnd
        BY <1>2, <2>2
    <3>2. \A q \in Procs, gd \in Fds : F[q][gd] = g => G[q][gd] = g
        BY <1>1, NoHostIsNone
    <3> QED
        BY <3>1, <3>2, SMT DEF Kept
  <2> QED
        BY <2>1, <2>2
<1> QED
    BY <1>2, <1>5, <1>6

\* Entries of one table are emptied, and their host descriptors closed.
ClearIn(F, en, G, fn, p, closing) ==
    /\ F \in Tables /\ G \in Tables /\ en \in [HostFds -> Ends] /\ p \in Procs
    /\ \A q \in Procs, gd \in Fds :
            G[q][gd] = IF q = p /\ gd \in closing THEN NoHost ELSE F[q][gd]
    /\ fn \in [HostFds -> Ends]
    /\ \A h \in HostFds :
            fn[h] = IF \E fd \in Fds : fd \in closing /\ F[p][fd] = h THEN NoEnd ELSE en[h]

LEMMA ClearKeeps ==
    ASSUME NEW F, NEW en, NEW rc, NEW sw, NEW G, NEW fn, NEW p, NEW closing,
           Own(F, en, rc), Kept(F, en, rc, sw), RightsTyped(rc),
           ClearIn(F, en, G, fn, p, closing)
    PROVE  Own(G, fn, rc) /\ Kept(G, fn, rc, sw)
<1> USE DEF ClearIn, RightsTyped
<1>0. \A q \in Procs, gd \in Fds : F[q][gd] \in HostFds \cup {NoHost}
    BY SMT DEF Tables
<1>1. \A q \in Procs, gd \in Fds : G[q][gd] # NoHost => fn[G[q][gd]] # NoEnd
  <2> SUFFICES ASSUME NEW q \in Procs, NEW gd \in Fds, G[q][gd] # NoHost
               PROVE  fn[G[q][gd]] # NoEnd
        OBVIOUS
  <2>1. G[q][gd] = F[q][gd] /\ F[q][gd] \in HostFds /\ ~(q = p /\ gd \in closing)
        BY <1>0, SMT
  <2>2. ~\E fd \in Fds : fd \in closing /\ F[p][fd] = F[q][gd]
        BY <2>1, SMT DEF Own
  <2> QED
        BY <2>1, <2>2, SMT DEF Own
<1>2. \A q, r \in Procs, gd, id \in Fds :
            G[q][gd] # NoHost /\ G[q][gd] = G[r][id] => q = r /\ gd = id
    BY SMT DEF Own
<1>3. \A t \in Threads : rc[t] # NoHost =>
            /\ fn[rc[t]] # NoEnd
            /\ \A q \in Procs, gd \in Fds : G[q][gd] # rc[t]
            /\ \A u \in Threads : rc[u] = rc[t] => u = t
  <2> SUFFICES ASSUME NEW t \in Threads, rc[t] # NoHost
               PROVE  /\ fn[rc[t]] # NoEnd
                      /\ \A q \in Procs, gd \in Fds : G[q][gd] # rc[t]
                      /\ \A u \in Threads : rc[u] = rc[t] => u = t
        OBVIOUS
  <2>1. /\ en[rc[t]] # NoEnd /\ rc[t] \in HostFds
        /\ \A q \in Procs, gd \in Fds : F[q][gd] # rc[t]
        /\ \A u \in Threads : rc[u] = rc[t] => u = t
        BY DEF Own
  <2> QED
        BY <2>1, SMT
<1>4. Kept(G, fn, rc, sw)
  <2> SUFFICES ASSUME NEW g \in HostFds, fn[g] # NoEnd
               PROVE  \/ \E q \in Procs, gd \in Fds : G[q][gd] = g
                      \/ \E k \in Objects : sw[k] = g
                      \/ \E t \in Threads : rc[t] = g
        BY DEF Kept
  <2>1. en[g] # NoEnd /\ ~\E fd \in Fds : fd \in closing /\ F[p][fd] = g
        OBVIOUS
  <2>2. \A q \in Procs, gd \in Fds : F[q][gd] = g => G[q][gd] = g
        BY <2>1
  <2> QED
        BY <2>1, <2>2, SMT DEF Kept
<1> QED
    BY <1>1, <1>2, <1>3, <1>4 DEF Own

\* A free host descriptor becomes the writing end behind an eventfd.
GiveIn(en, sw, fn, sv, k, h, e) ==
    /\ en \in [HostFds -> Ends] /\ sw \in [Objects -> HostFds \cup {NoHost}]
    /\ h \in HostFds /\ en[h] = NoEnd /\ e \in Ends /\ e # NoEnd
    /\ fn = [en EXCEPT ![h] = e]
    /\ k \in Objects /\ sw[k] = NoHost /\ sv = [sw EXCEPT ![k] = h]

LEMMA GiveKeeps ==
    ASSUME NEW F, NEW en, NEW rc, NEW sw, NEW fn, NEW sv, NEW k, NEW h, NEW e,
           Own(F, en, rc), Kept(F, en, rc, sw), RightsTyped(rc), F \in Tables,
           GiveIn(en, sw, fn, sv, k, h, e)
    PROVE  fn \in [HostFds -> Ends] /\ Own(F, fn, rc) /\ Kept(F, fn, rc, sv)
<1> USE DEF GiveIn, RightsTyped
<1>1. fn \in [HostFds -> Ends] /\ \A g \in HostFds : fn[g] = IF g = h THEN e ELSE en[g]
    OBVIOUS
<1>2. \A q \in Procs, gd \in Fds : F[q][gd] \in HostFds \cup {NoHost}
    BY DEF Tables
<1>3. Own(F, fn, rc)
    BY <1>1, <1>2, SMT DEF Own
<1>4. Kept(F, fn, rc, sv)
  <2> SUFFICES ASSUME NEW g \in HostFds, fn[g] # NoEnd
               PROVE  \/ \E q \in Procs, gd \in Fds : F[q][gd] = g
                      \/ \E j \in Objects : sv[j] = g
                      \/ \E t \in Threads : rc[t] = g
        BY DEF Kept
  <2>1. CASE g = h
        BY <2>1
  <2>2. CASE g # h
    <3>1. en[g] # NoEnd
        BY <1>1, <2>2
    <3>2. \A j \in Objects : sw[j] = g => sv[j] = g
        BY NoHostIsNone, SMT
    <3> QED
        BY <3>1, <3>2 DEF Kept
  <2> QED
        BY <2>1, <2>2
<1> QED
    BY <1>1, <1>3, <1>4

\* A thread receives a descriptor, as a free one of the host's.
ReceiveIn(en, rc, fn, rd, t, h, e) ==
    /\ en \in [HostFds -> Ends] /\ h \in HostFds /\ en[h] = NoEnd /\ e \in Ends /\ e # NoEnd
    /\ fn = [en EXCEPT ![h] = e]
    /\ t \in Threads /\ rc[t] = NoHost /\ rd = [rc EXCEPT ![t] = h]

LEMMA ReceiveKeeps ==
    ASSUME NEW F, NEW en, NEW rc, NEW sw, NEW fn, NEW rd, NEW t, NEW h, NEW e,
           Own(F, en, rc), Kept(F, en, rc, sw), RightsTyped(rc), F \in Tables,
           ReceiveIn(en, rc, fn, rd, t, h, e)
    PROVE  fn \in [HostFds -> Ends] /\ Own(F, fn, rd) /\ Kept(F, fn, rd, sw)
<1> USE DEF ReceiveIn, RightsTyped
<1>1. fn \in [HostFds -> Ends] /\ \A g \in HostFds : fn[g] = IF g = h THEN e ELSE en[g]
    OBVIOUS
<1>2. \A q \in Procs, gd \in Fds : F[q][gd] \in HostFds \cup {NoHost} /\ F[q][gd] # h
    BY NoHostIsNone, SMT DEF Tables, Own
<1>3. \A u \in Threads : /\ rc[u] # h /\ rc[u] \in HostFds \cup {NoHost}
                         /\ rd[u] = IF u = t THEN h ELSE rc[u]
    BY NoHostIsNone DEF Own
<1>4. Own(F, fn, rd)
  <2>1. \A q \in Procs, gd \in Fds : F[q][gd] # NoHost => fn[F[q][gd]] # NoEnd
        BY <1>1, <1>2, SMT DEF Own
  <2>2. ASSUME NEW u \in Threads, rd[u] # NoHost
        PROVE  /\ fn[rd[u]] # NoEnd
               /\ \A p \in Procs, fd \in Fds : F[p][fd] # rd[u]
               /\ \A v \in Threads : rd[v] = rd[u] => v = u
    <3>1. CASE u = t
        BY <1>1, <1>2, <1>3, <3>1
    <3>2. CASE u # t
        BY <1>1, <1>2, <1>3, <2>2, <3>2, SMT DEF Own
    <3> QED
        BY <3>1, <3>2
  <2> QED
        BY <2>1, <2>2 DEF Own
<1>5. Kept(F, fn, rd, sw)
  <2> SUFFICES ASSUME NEW g \in HostFds, fn[g] # NoEnd
               PROVE  \/ \E q \in Procs, gd \in Fds : F[q][gd] = g
                      \/ \E j \in Objects : sw[j] = g
                      \/ \E u \in Threads : rd[u] = g
        BY DEF Kept
  <2>1. CASE g = h
        BY <1>3, <2>1
  <2>2. CASE g # h
    <3>1. en[g] # NoEnd
        BY <1>1, <2>2
    <3>2. \A u \in Threads : rc[u] = g => rd[u] = g
        BY <1>3, NoHostIsNone
    <3> QED
        BY <3>1, <3>2 DEF Kept
  <2> QED
        BY <2>1, <2>2
<1> QED
    BY <1>1, <1>4, <1>5

\* What a thread received goes to an empty entry.
AdoptIn(F, rc, G, rd, t, p, fd) ==
    /\ F \in Tables /\ G \in Tables /\ t \in Threads /\ rc[t] # NoHost
    /\ rd = [rc EXCEPT ![t] = NoHost]
    /\ p \in Procs /\ fd \in Fds /\ F[p][fd] = NoHost
    /\ \A q \in Procs, gd \in Fds : G[q][gd] = IF q = p /\ gd = fd THEN rc[t] ELSE F[q][gd]

LEMMA AdoptKeeps ==
    ASSUME NEW F, NEW en, NEW rc, NEW sw, NEW G, NEW rd, NEW t, NEW p, NEW fd,
           Own(F, en, rc), Kept(F, en, rc, sw), RightsTyped(rc),
           AdoptIn(F, rc, G, rd, t, p, fd)
    PROVE  Own(G, en, rd) /\ Kept(G, en, rd, sw)
<1> USE DEF AdoptIn, RightsTyped
<1>1. \A q \in Procs, gd \in Fds : /\ G[q][gd] = IF q = p /\ gd = fd THEN rc[t] ELSE F[q][gd]
                                   /\ F[q][gd] # rc[t]
    BY SMT DEF Tables, Own
<1>2. \A u \in Threads : /\ rd[u] = IF u = t THEN NoHost ELSE rc[u]
                         /\ u # t => rc[u] # rc[t]
    BY DEF Own
<1>3. Own(G, en, rd)
  <2>1. \A q \in Procs, gd \in Fds : G[q][gd] # NoHost => en[G[q][gd]] # NoEnd
        BY <1>1, SMT DEF Own
  <2>2. \A q, r \in Procs, gd, id \in Fds :
            G[q][gd] # NoHost /\ G[q][gd] = G[r][id] => q = r /\ gd = id
        BY <1>1, SMT DEF Own
  <2>3. ASSUME NEW u \in Threads, rd[u] # NoHost
        PROVE  /\ en[rd[u]] # NoEnd
               /\ \A q \in Procs, gd \in Fds : G[q][gd] # rd[u]
               /\ \A v \in Threads : rd[v] = rd[u] => v = u
    <3>1. u # t /\ rd[u] = rc[u]
        BY <1>2, <2>3
    <3> QED
        BY <1>1, <1>2, <2>3, <3>1, SMT DEF Own
  <2> QED
        BY <2>1, <2>2, <2>3 DEF Own
<1>4. Kept(G, en, rd, sw)
  <2> SUFFICES ASSUME NEW g \in HostFds, en[g] # NoEnd
               PROVE  \/ \E q \in Procs, gd \in Fds : G[q][gd] = g
                      \/ \E j \in Objects : sw[j] = g
                      \/ \E u \in Threads : rd[u] = g
        BY DEF Kept
  <2>1. CASE g = rc[t]
        BY <1>1, <2>1, SMT
  <2>2. CASE g # rc[t]
    <3>1. \A q \in Procs, gd \in Fds : F[q][gd] = g => G[q][gd] = g
        BY <1>1, NoHostIsNone
    <3>2. \A u \in Threads : rc[u] = g => rd[u] = g
        BY <1>2, <2>2
    <3> QED
        BY <3>1, <3>2, SMT DEF Kept
  <2> QED
        BY <2>1, <2>2
<1> QED
    BY <1>3, <1>4

\* An empty table is filled with copies, each a free host descriptor of its own.
InheritIn(F, en, G, fn, c) ==
    /\ F \in Tables /\ G \in Tables /\ en \in [HostFds -> Ends] /\ fn \in [HostFds -> Ends]
    /\ c \in Procs /\ \A fd \in Fds : F[c][fd] = NoHost
    /\ \A q \in Procs \ {c}, fd \in Fds : G[q][fd] = F[q][fd]
    /\ \A fd \in Fds : G[c][fd] # NoHost =>
            /\ en[G[c][fd]] = NoEnd /\ fn[G[c][fd]] # NoEnd
            /\ \A gd \in Fds : G[c][gd] = G[c][fd] => gd = fd
    /\ \A h \in HostFds : fn[h] # en[h] => \E fd \in Fds : G[c][fd] = h

LEMMA InheritKeeps ==
    ASSUME NEW F, NEW en, NEW rc, NEW sw, NEW G, NEW fn, NEW c,
           Own(F, en, rc), Kept(F, en, rc, sw), RightsTyped(rc),
           InheritIn(F, en, G, fn, c)
    PROVE  Own(G, fn, rc) /\ Kept(G, fn, rc, sw)
<1> USE DEF InheritIn, RightsTyped
<1>1. \A q \in Procs, gd \in Fds : /\ F[q][gd] \in HostFds \cup {NoHost}
                                   /\ G[q][gd] \in HostFds \cup {NoHost}
    BY SMT DEF Tables
<1>2. \A h \in HostFds : en[h] # NoEnd => fn[h] # NoEnd
    BY NoHostIsNone, SMT
<1>3. Own(G, fn, rc)
  <2>1. ASSUME NEW q \in Procs, NEW gd \in Fds, G[q][gd] # NoHost
        PROVE  fn[G[q][gd]] # NoEnd
    <3>1. CASE q = c
        BY <2>1, <3>1
    <3>2. CASE q # c
        BY <1>1, <1>2, <2>1, <3>2, SMT DEF Own
    <3> QED
        BY <3>1, <3>2
  <2>2. ASSUME NEW q \in Procs, NEW r \in Procs, NEW gd \in Fds, NEW id \in Fds,
               G[q][gd] # NoHost, G[q][gd] = G[r][id]
        PROVE  q = r /\ gd = id
    <3>1. CASE q = c /\ r = c
        BY <2>2, <3>1
    <3>2. CASE q = c /\ r # c
        BY <2>2, <3>2, SMT DEF Own
    <3>3. CASE q # c /\ r = c
        BY <2>2, <3>3, SMT DEF Own
    <3>4. CASE q # c /\ r # c
        BY <2>2, <3>4, SMT DEF Own
    <3> QED
        BY <3>1, <3>2, <3>3, <3>4
  <2>3. ASSUME NEW u \in Threads, rc[u] # NoHost
        PROVE  /\ fn[rc[u]] # NoEnd
               /\ \A q \in Procs, gd \in Fds : G[q][gd] # rc[u]
               /\ \A v \in Threads : rc[v] = rc[u] => v = u
    <3>1. /\ rc[u] \in HostFds /\ en[rc[u]] # NoEnd
          /\ \A q \in Procs, gd \in Fds : F[q][gd] # rc[u]
          /\ \A v \in Threads : rc[v] = rc[u] => v = u
        BY <2>3 DEF Own
    <3> QED
        BY <1>2, <2>3, <3>1, SMT
  <2> QED
        BY <2>1, <2>2, <2>3, SMT DEF Own
<1>4. Kept(G, fn, rc, sw)
  <2> SUFFICES ASSUME NEW g \in HostFds, fn[g] # NoEnd
               PROVE  \/ \E q \in Procs, gd \in Fds : G[q][gd] = g
                      \/ \E j \in Objects : sw[j] = g
                      \/ \E u \in Threads : rc[u] = g
        BY DEF Kept
  <2>1. CASE fn[g] # en[g]
        BY <2>1
  <2>2. CASE fn[g] = en[g]
    <3>1. \A q \in Procs, gd \in Fds : F[q][gd] = g => G[q][gd] = g
        BY NoHostIsNone, SMT
    <3> QED
        BY <2>2, <3>1, SMT DEF Kept
  <2> QED
        BY <2>1, <2>2
<1> QED
    BY <1>3, <1>4

-----------------------------------------------------------------------------
(* The invariant.                                                           *)

Numbers == 0..MaxObjects
FileRecords ==
    [open : BOOLEAN, host : HostFds \cup {NoHost}, console : BOOLEAN, event : Numbers,
     epoll : Numbers, scratch : Numbers, cloexec : BOOLEAN]

\* An entry that is not open has nothing, and one with a directory has a host
\* descriptor for it.
Whole ==
    {r \in FileRecords : /\ ~r.open => r.host = NoHost /\ r.scratch = NoObject
                         /\ r.scratch # NoObject => r.host # NoHost}

Ops == {"none", "read", "write", "ctl", "holding", "send", "sending", "recv", "received"}
CallRecords ==
    [op : Ops, host : HostFds \cup {NoHost}, set : Numbers, fd : Fds,
     rights : HostFds \cup {NoHost}]

Types ==
    /\ files \in [Procs -> [Fds -> Whole]]
    /\ ends \in [HostFds -> Ends]
    /\ passed \in [Objects -> [Sides -> Ends]]
    /\ bytes \in [Objects -> BOOLEAN]
    /\ value \in [Objects -> Nat]
    /\ signalled \in [Objects -> BOOLEAN]
    /\ signal_write_fd \in [Objects -> HostFds \cup {NoHost}]
    /\ call \in [Threads -> CallRecords]
    /\ made \in Numbers

Hosts == [p \in Procs |-> [fd \in Fds |-> files[p][fd].host]]
Rights == [t \in Threads |-> IF call[t].op = "received" THEN call[t].rights ELSE NoHost]

Sound == Own(Hosts, ends, Rights) /\ Kept(Hosts, ends, Rights, signal_write_fd)

\* The directories made for /proc/self/fd are an entry's, or left behind.
DirsKnown ==
    /\ left \subseteq 1..made /\ dirs \subseteq 1..made
    /\ \A p \in Procs, fd \in Fds : files[p][fd].scratch # NoObject =>
            /\ files[p][fd].scratch \in (1..made) \ left
            /\ \A q \in Procs, gd \in Fds :
                    files[q][gd].scratch = files[p][fd].scratch => q = p /\ gd = fd
    /\ \A k \in 1..made :
            k \in dirs <=> k \in left \/ \E p \in Procs, fd \in Fds : files[p][fd].scratch = k

\* What an entry calls an eventfd has a writing end, and so has what is
\* signalled; an object not made yet has none.
EventsKnown ==
    /\ \A k \in Objects : k > made => signal_write_fd[k] = NoHost
    /\ \A p \in Procs, fd \in Fds : files[p][fd].event # NoObject =>
            signal_write_fd[files[p][fd].event] # NoHost
    /\ \A k \in Objects : signalled[k] => signal_write_fd[k] # NoHost

Inv == Types /\ Sound /\ DirsKnown /\ EventsKnown /\ EventIsPollable

-----------------------------------------------------------------------------
(* What the operators make.                                                 *)

LEMMA EmptyFile ==
    NoFile \in Whole /\ NoFile.host = NoHost /\ NoFile.event = NoObject /\ NoFile.scratch = NoObject
    BY DescriptorsAssumption, SMT DEF NoFile, Whole, FileRecords, Numbers, NoObject

LEMMA FileFacts ==
    ASSUME NEW h \in HostFds \cup {NoHost}, NEW cx \in BOOLEAN
    PROVE  /\ File(h, cx) \in Whole /\ File(h, cx).open /\ File(h, cx).host = h
           /\ File(h, cx).event = NoObject /\ File(h, cx).scratch = NoObject
<1>0. NoObject \in Numbers /\ NoFile \in FileRecords
    BY EmptyFile, DescriptorsAssumption, SMT DEF NoObject, Numbers, Whole
<1>1. /\ File(h, cx) \in FileRecords /\ File(h, cx).open /\ File(h, cx).host = h
      /\ File(h, cx).event = NoObject /\ File(h, cx).scratch = NoObject
    BY <1>0, EmptyFile DEF File, FileRecords
<1> QED
    BY <1>1 DEF Whole

\* Such an entry with an event, with an epoll set, and with a directory.
EventEntry(h, cx, k) == [File(h, cx) EXCEPT !.event = k]
EpollEntry(h, cx, k) == [File(h, cx) EXCEPT !.epoll = k]
ScratchEntry(h, k) == [File(h, FALSE) EXCEPT !.scratch = k]

\* An event's entry is whole: its host descriptor and its event are there.
LEMMA EventFile ==
    ASSUME NEW h \in HostFds \cup {NoHost}, NEW cx \in BOOLEAN, NEW k \in Numbers, NEW r,
           r = EventEntry(h, cx, k)
    PROVE  r \in Whole /\ r.host = h /\ r.event = k /\ r.scratch = NoObject
<1> DEFINE f == File(h, cx)
<1>1. /\ f \in FileRecords /\ f.open /\ f.host = h
      /\ f.event = NoObject /\ f.scratch = NoObject
    BY FileFacts DEF Whole
<1>2. r = [f EXCEPT !.event = k]
    BY DEF EventEntry
<1> HIDE DEF f
<1> QED
    BY <1>1, <1>2 DEF Whole, FileRecords

\* So is an epoll set's,
LEMMA EpollFile ==
    ASSUME NEW h \in HostFds \cup {NoHost}, NEW cx \in BOOLEAN, NEW k \in Numbers, NEW r,
           r = EpollEntry(h, cx, k)
    PROVE  r \in Whole /\ r.host = h /\ r.event = NoObject /\ r.scratch = NoObject
<1> DEFINE f == File(h, cx)
<1>1. /\ f \in FileRecords /\ f.open /\ f.host = h
      /\ f.event = NoObject /\ f.scratch = NoObject
    BY FileFacts DEF Whole
<1>2. r = [f EXCEPT !.epoll = k]
    BY DEF EpollEntry
<1> HIDE DEF f
<1> QED
    BY <1>1, <1>2 DEF Whole, FileRecords

\* ... and a directory's.
LEMMA ScratchFile ==
    ASSUME NEW h \in HostFds, NEW k \in Numbers, NEW r,
           r = ScratchEntry(h, k)
    PROVE  r \in Whole /\ r.host = h /\ r.event = NoObject /\ r.scratch = k
<1> DEFINE f == File(h, FALSE)
<1>1. /\ f \in FileRecords /\ f.open /\ f.host = h
      /\ f.event = NoObject /\ f.scratch = NoObject
    BY FileFacts DEF Whole
<1>2. r = [f EXCEPT !.scratch = k]
    BY DEF ScratchEntry
<1> HIDE DEF f
<1> QED
    BY <1>1, <1>2, SMT DEF Whole, FileRecords, HostFds, NoHost

LEMMA CopyFacts ==
    ASSUME NEW s \in Whole, NEW h \in HostFds \cup {NoHost}
    PROVE  /\ Duplicate(s, h) \in Whole /\ Duplicate(s, h).host = h
           /\ Duplicate(s, h).event = NoObject /\ Duplicate(s, h).scratch = NoObject
<1>1. NoObject \in Numbers /\ NoFile \in FileRecords /\ s.console \in BOOLEAN
    BY EmptyFile, DescriptorsAssumption DEF NoObject, Numbers, Whole, FileRecords
<1>2. /\ Duplicate(s, h) \in FileRecords /\ Duplicate(s, h).host = h /\ Duplicate(s, h).open
      /\ Duplicate(s, h).event = NoObject /\ Duplicate(s, h).scratch = NoObject
    BY <1>1, EmptyFile DEF Duplicate, FileRecords
<1> QED
    BY <1>2 DEF Whole

LEMMA EndFacts ==
    ASSUME NEW k \in Objects
    PROVE  \A which \in {"r", "w", "f", "x", "y"} : <<which, k>> \in Ends /\ <<which, k>> # NoEnd
    BY DEF Ends, NoEnd, Sides

\* The numbers AllocateFd and the host give are free ones.
LEMMA FreeFacts ==
    ASSUME Types
    PROVE  /\ \A h \in FreeHost : h \in HostFds /\ ends[h] = NoEnd
           /\ \A p \in Procs : \A fd \in FreeIn(p) :
                fd \in Fds /\ files[p][fd].host = NoHost /\ files[p][fd].scratch = NoObject
<1>1. \A p \in Procs : \A fd \in FreeIn(p) :
        fd \in Fds /\ files[p][fd].host = NoHost /\ files[p][fd].scratch = NoObject
    BY SMT DEF FreeIn, OpenIn, Types, Whole
<1>2. \A h \in FreeHost : h \in HostFds /\ ends[h] = NoEnd
    BY DEF FreeHost
<1> QED
    BY <1>1, <1>2

\* The one or two lowest free numbers are free, and are two.
LEMMA LowestFree ==
    ASSUME Numbered
    PROVE  /\ FreeHost # {} => Nth(FreeHost, 0) \in FreeHost
           /\ Cardinality(FreeHost) > 1 =>
                /\ Nth(FreeHost, 0) \in FreeHost /\ Nth(FreeHost, 1) \in FreeHost
                /\ Nth(FreeHost, 0) # Nth(FreeHost, 1)
           /\ \A p \in Procs :
                /\ FreeIn(p) # {} => AllocateFd(p) \in FreeIn(p)
                /\ Cardinality(FreeIn(p)) > 1 =>
                     /\ Nth(FreeIn(p), 0) \in FreeIn(p) /\ Nth(FreeIn(p), 1) \in FreeIn(p)
                     /\ Nth(FreeIn(p), 0) # Nth(FreeIn(p), 1)
<1>1. ASSUME NEW n \in Nat, NEW S \in SUBSET (0..n)
      PROVE  /\ S # {} => Nth(S, 0) \in S
             /\ Cardinality(S) > 1 => /\ Nth(S, 0) \in S /\ Nth(S, 1) \in S
                                      /\ Nth(S, 0) # Nth(S, 1)
  <2>1. /\ Cardinality(S) \in Nat
        /\ \A i \in Nat : i < Cardinality(S) => Nth(S, i) \in S
        /\ \A i, j \in Nat : i < Cardinality(S) /\ j < Cardinality(S) /\ Nth(S, i) = Nth(S, j)
                             => i = j
        /\ S # {} => Nth(S, 0) \in S
        BY DEF Numbered
  <2>2. Cardinality(S) > 1 => 0 < Cardinality(S) /\ 1 < Cardinality(S)
        BY <2>1, SMT
  <2> QED
        BY <2>1, <2>2, SMT
<1>2. MaxHost \in Nat /\ MaxFd \in Nat
    BY DescriptorsAssumption
<1>3. FreeHost \in SUBSET (0..MaxHost)
    BY DEF FreeHost, HostFds
<1>4. \A p : FreeIn(p) \in SUBSET (0..MaxFd)
    BY DEF FreeIn, Fds
<1>5. \A p \in Procs :
                /\ FreeIn(p) # {} => AllocateFd(p) \in FreeIn(p)
                /\ Cardinality(FreeIn(p)) > 1 =>
                     /\ Nth(FreeIn(p), 0) \in FreeIn(p) /\ Nth(FreeIn(p), 1) \in FreeIn(p)
                     /\ Nth(FreeIn(p), 0) # Nth(FreeIn(p), 1)
    BY <1>1, <1>2, <1>4 DEF AllocateFd
<1>6. /\ FreeHost # {} => Nth(FreeHost, 0) \in FreeHost
      /\ Cardinality(FreeHost) > 1 =>
                /\ Nth(FreeHost, 0) \in FreeHost /\ Nth(FreeHost, 1) \in FreeHost
                /\ Nth(FreeHost, 0) # Nth(FreeHost, 1)
    BY <1>1, <1>2, <1>3
<1> QED
    BY <1>5, <1>6

LEMMA HostsTyped ==
    ASSUME Types
    PROVE  /\ Hosts \in Tables /\ RightsTyped(Rights)
           /\ \A p \in Procs, fd \in Fds : Hosts[p][fd] = files[p][fd].host
    BY SMT DEF Types, Hosts, Rights, RightsTyped, Tables, Whole, FileRecords, CallRecords

LEMMA NextHostsTyped ==
    ASSUME Types'
    PROVE  /\ Hosts' \in Tables
           /\ \A p \in Procs, fd \in Fds : Hosts'[p][fd] = files'[p][fd].host
<1>1. Hosts' = [p \in Procs |-> [fd \in Fds |-> files'[p][fd].host]]
    BY DEF Hosts
<1>2. \A p \in Procs, fd \in Fds : files'[p][fd].host \in HostFds \cup {NoHost}
    BY DEF Types, Whole, FileRecords
<1> QED
    BY <1>1, <1>2 DEF Tables

\* One entry is set; two entries of one table are.
Sets(p, fd, r) ==
    /\ p \in Procs /\ fd \in Fds /\ r \in Whole
    /\ files' = [files EXCEPT ![p][fd] = r]
SetsTwo(p, a, r, b, s) ==
    /\ p \in Procs /\ a \in Fds /\ b \in Fds /\ a # b /\ r \in Whole /\ s \in Whole
    /\ files' = [files EXCEPT ![p][a] = r, ![p][b] = s]

LEMMA OneSet ==
    ASSUME Types, NEW p, NEW fd, NEW r, Sets(p, fd, r)
    PROVE  /\ files' \in [Procs -> [Fds -> Whole]]
           /\ \A q \in Procs, gd \in Fds :
                files'[q][gd] = IF q = p /\ gd = fd THEN r ELSE files[q][gd]
    BY DEF Types, Sets

LEMMA TwoSet ==
    ASSUME Types, NEW p, NEW a, NEW r, NEW b, NEW s, SetsTwo(p, a, r, b, s)
    PROVE  /\ files' \in [Procs -> [Fds -> Whole]]
           /\ \A q \in Procs, gd \in Fds :
                files'[q][gd] = IF q = p /\ gd = a THEN r
                                ELSE IF q = p /\ gd = b THEN s ELSE files[q][gd]
    BY DEF Types, SetsTwo

-----------------------------------------------------------------------------
(* What a step leaves alone.                                                *)

LEMMA SoundSame ==
    ASSUME Sound, UNCHANGED <<ends, signal_write_fd, call>>,
           \A p \in Procs, fd \in Fds : files'[p][fd].host = files[p][fd].host
    PROVE  Sound'
<1>1. Hosts' = Hosts /\ Rights' = Rights
    BY DEF Hosts, Rights
<1> QED
    BY <1>1 DEF Sound

LEMMA DirsSame ==
    ASSUME Types, DirsKnown, UNCHANGED scratch, made' \in Numbers, made <= made',
           \A p \in Procs, fd \in Fds : files'[p][fd].scratch = files[p][fd].scratch
    PROVE  DirsKnown'
<1>1. made \in Int /\ made' \in Int /\ 1..made \subseteq 1..made'
    BY SMT DEF Types, Numbers
<1>2. dirs' = dirs /\ left' = left
    BY DEF scratch
<1>3. left' \subseteq 1..made' /\ dirs' \subseteq 1..made'
    BY <1>1, <1>2 DEF DirsKnown
<1>4. \A p \in Procs, fd \in Fds : files'[p][fd].scratch # NoObject =>
            /\ files'[p][fd].scratch \in (1..made') \ left'
            /\ \A q \in Procs, gd \in Fds :
                    files'[q][gd].scratch = files'[p][fd].scratch => q = p /\ gd = fd
    BY <1>1, <1>2, SMT DEF DirsKnown
<1>5. \A k \in 1..made' :
            k \in dirs' <=> k \in left' \/ \E p \in Procs, fd \in Fds : files'[p][fd].scratch = k
  <2> SUFFICES ASSUME NEW k \in 1..made'
               PROVE  k \in dirs <=> k \in left \/ \E p \in Procs, fd \in Fds : files[p][fd].scratch = k
        BY <1>2, SMT
  <2>1. CASE k \in 1..made
        BY <2>1 DEF DirsKnown
  <2>2. CASE k \notin 1..made
        BY <2>2, SMT DEF DirsKnown, NoObject
  <2> QED
        BY <2>1, <2>2
<1> QED
    BY <1>3, <1>4, <1>5 DEF DirsKnown

LEMMA EventsSame ==
    ASSUME Types, EventsKnown, UNCHANGED <<signal_write_fd, signalled>>,
           made' \in Numbers, made <= made',
           \A p \in Procs, fd \in Fds :
                \/ files'[p][fd].event = NoObject
                \/ \E q \in Procs, gd \in Fds : files'[p][fd].event = files[q][gd].event
    PROVE  EventsKnown'
<1>1. \A k \in Objects : k > made' => k > made
    BY SMT DEF Types, Numbers, Objects
<1> QED
    BY <1>1, SMT DEF EventsKnown

LEMMA PollableSame ==
    ASSUME EventIsPollable, UNCHANGED <<value, signalled, bytes, robbed>>
    PROVE  EventIsPollable'
    BY DEF EventIsPollable

-----------------------------------------------------------------------------
(* Making descriptors.                                                      *)

\* A step that puts h, made an e, in the empty entry fd of p's table.
Puts(p, fd, h, e) ==
    /\ p \in Procs /\ fd \in Fds /\ files[p][fd].host = NoHost
    /\ h \in FreeHost /\ e \in Ends /\ e # NoEnd /\ ends' = [ends EXCEPT ![h] = e]
    /\ \A q \in Procs, gd \in Fds :
            files'[q][gd].host = IF q = p /\ gd = fd THEN h ELSE files[q][gd].host
    /\ UNCHANGED <<call, signal_write_fd>>

LEMMA SoundPut ==
    ASSUME Types, Types', Sound, NEW p, NEW fd, NEW h, NEW e, Puts(p, fd, h, e)
    PROVE  Sound'
<1>1. Rights' = Rights /\ ends \in [HostFds -> Ends]
    BY DEF Rights, Puts, Types
<1>2. PutIn(Hosts, ends, Hosts', ends', p, fd, h, e)
    BY <1>1, HostsTyped, NextHostsTyped, FreeFacts, SMT DEF Puts, PutIn
<1>3. Own(Hosts', ends', Rights) /\ Kept(Hosts', ends', Rights, signal_write_fd)
    BY <1>2, HostsTyped, PutKeeps DEF Sound
<1> QED
    BY <1>1, <1>3 DEF Sound, Puts

\* ... and two, in two entries.
PutsTwo(p, a, g, d, b, h, e) ==
    /\ p \in Procs /\ a \in Fds /\ b \in Fds /\ a # b
    /\ files[p][a].host = NoHost /\ files[p][b].host = NoHost
    /\ g \in FreeHost /\ h \in FreeHost /\ g # h
    /\ d \in Ends /\ e \in Ends /\ d # NoEnd /\ e # NoEnd
    /\ ends' = [ends EXCEPT ![g] = d, ![h] = e]
    /\ \A q \in Procs, gd \in Fds :
            files'[q][gd].host = IF q = p /\ gd = a THEN g
                                 ELSE IF q = p /\ gd = b THEN h ELSE files[q][gd].host
    /\ UNCHANGED <<call, signal_write_fd>>

LEMMA SoundTwo ==
    ASSUME Types, Types', Sound, NEW p, NEW a, NEW g, NEW d, NEW b, NEW h, NEW e,
           PutsTwo(p, a, g, d, b, h, e)
    PROVE  Sound'
<1> DEFINE F == [q \in Procs |-> [gd \in Fds |-> IF q = p /\ gd = a THEN g ELSE Hosts[q][gd]]]
           en == [ends EXCEPT ![g] = d]
<1>1. /\ g \in HostFds /\ h \in HostFds /\ ends[g] = NoEnd /\ ends[h] = NoEnd
      /\ Rights' = Rights /\ ends \in [HostFds -> Ends]
    BY FreeFacts DEF Rights, PutsTwo, Types
<1>2. /\ F \in Tables
      /\ \A q \in Procs, gd \in Fds : F[q][gd] = IF q = p /\ gd = a THEN g ELSE Hosts[q][gd]
    BY <1>1, HostsTyped DEF Tables
<1>3. ends' = [en EXCEPT ![h] = e] /\ en \in [HostFds -> Ends] /\ en[h] = NoEnd
    BY <1>1 DEF PutsTwo
<1>4. en = [ends EXCEPT ![g] = d]
    OBVIOUS
<1> HIDE DEF F, en
<1>5. PutIn(Hosts, ends, F, en, p, a, g, d)
    BY <1>1, <1>2, <1>4, HostsTyped DEF PutsTwo, PutIn
<1>6. Own(F, en, Rights) /\ Kept(F, en, Rights, signal_write_fd)
    BY <1>5, HostsTyped, PutKeeps DEF Sound
<1>7. PutIn(F, en, Hosts', ends', p, b, h, e)
  <2>1. p \in Procs /\ a \in Fds /\ b \in Fds /\ a # b /\ e \in Ends /\ e # NoEnd
        BY DEF PutsTwo
  <2>2. F[p][b] = NoHost
        BY <1>2, <2>1, HostsTyped, SMT DEF PutsTwo
  <2>3. \A q \in Procs, gd \in Fds :
            Hosts'[q][gd] = IF q = p /\ gd = a THEN g
                            ELSE IF q = p /\ gd = b THEN h ELSE Hosts[q][gd]
        BY HostsTyped, NextHostsTyped, SMT DEF PutsTwo
  <2>4. \A q \in Procs, gd \in Fds : Hosts'[q][gd] = IF q = p /\ gd = b THEN h ELSE F[q][gd]
        BY <1>2, <2>1, <2>3, SMT
  <2> QED
        BY <1>1, <1>2, <1>3, <2>1, <2>2, <2>4, NextHostsTyped DEF PutIn
<1>8. Own(Hosts', ends', Rights) /\ Kept(Hosts', ends', Rights, signal_write_fd)
    BY <1>6, <1>7, HostsTyped, PutKeeps
<1> QED
    BY <1>1, <1>8 DEF Sound, PutsTwo

LEMMA NewObject ==
    ASSUME Types, made < MaxObjects
    PROVE  made + 1 \in Objects /\ made + 1 \in Numbers /\ made <= made + 1
    BY DescriptorsAssumption, SMT DEF Types, Numbers, Objects

\* pipe, pipe2 and socketpair.
LEMMA PairStep ==
    ASSUME Inv, Numbered, NEW p \in Procs, NEW cx \in BOOLEAN, made < MaxObjects,
           Cardinality(FreeHost) > 1, Cardinality(FreeIn(p)) > 1,
           NEW x \in {"r", "w", "f", "x", "y"}, NEW y \in {"r", "w", "f", "x", "y"},
           ends' = [ends EXCEPT ![Nth(FreeHost, 0)] = <<x, made + 1>>,
                                ![Nth(FreeHost, 1)] = <<y, made + 1>>],
           files' = [files EXCEPT ![p][Nth(FreeIn(p), 0)] = File(Nth(FreeHost, 0), cx),
                                  ![p][Nth(FreeIn(p), 1)] = File(Nth(FreeHost, 1), cx)],
           made' = made + 1,
           UNCHANGED <<bytes, value, signalled, signal_write_fd, call, robbed, passed, scratch>>
    PROVE  Inv'
<1> DEFINE g == Nth(FreeHost, 0)
           h == Nth(FreeHost, 1)
           a == Nth(FreeIn(p), 0)
           b == Nth(FreeIn(p), 1)
           d == <<x, made + 1>>
           e == <<y, made + 1>>
<1>0. Types /\ Sound /\ DirsKnown /\ EventsKnown /\ EventIsPollable
    BY DEF Inv
<1>1. /\ g \in FreeHost /\ h \in FreeHost /\ g # h /\ g \in HostFds /\ h \in HostFds
    BY <1>0, FreeFacts, LowestFree
<1>2. /\ a \in Fds /\ b \in Fds /\ a # b
      /\ files[p][a].host = NoHost /\ files[p][b].host = NoHost
      /\ files[p][a].scratch = NoObject /\ files[p][b].scratch = NoObject
    BY <1>0, FreeFacts, LowestFree
<1>3. made + 1 \in Objects /\ made + 1 \in Numbers /\ made <= made + 1
    BY <1>0, NewObject
<1>4. d \in Ends /\ d # NoEnd /\ e \in Ends /\ e # NoEnd
    BY <1>3, EndFacts
<1>5. /\ File(g, cx) \in Whole /\ File(g, cx).host = g
      /\ File(g, cx).event = NoObject /\ File(g, cx).scratch = NoObject
      /\ File(h, cx) \in Whole /\ File(h, cx).host = h
      /\ File(h, cx).event = NoObject /\ File(h, cx).scratch = NoObject
    BY <1>1, FileFacts
<1>6. /\ files' = [files EXCEPT ![p][a] = File(g, cx), ![p][b] = File(h, cx)]
      /\ ends' = [ends EXCEPT ![g] = d, ![h] = e]
    OBVIOUS
<1> HIDE DEF g, h, a, b, d, e
<1>7. /\ files' \in [Procs -> [Fds -> Whole]]
      /\ \A q \in Procs, gd \in Fds :
            files'[q][gd] = IF q = p /\ gd = a THEN File(g, cx)
                            ELSE IF q = p /\ gd = b THEN File(h, cx) ELSE files[q][gd]
  <2>1. SetsTwo(p, a, File(g, cx), b, File(h, cx))
        BY <1>2, <1>5, <1>6 DEF SetsTwo
  <2> QED
        BY <1>0, <2>1, TwoSet, SMT
<1>a. ends' \in [HostFds -> Ends]
    BY <1>0, <1>1, <1>4, <1>6 DEF Types
<1>8. Types'
    BY <1>0, <1>3, <1>7, <1>a DEF Types
<1>9. Sound'
  <2>1. \A q \in Procs, gd \in Fds :
                files'[q][gd].host = IF q = p /\ gd = a THEN g
                                     ELSE IF q = p /\ gd = b THEN h ELSE files[q][gd].host
        BY <1>5, <1>7
  <2>2. PutsTwo(p, a, g, d, b, h, e)
        BY <1>1, <1>2, <1>4, <1>6, <2>1 DEF PutsTwo
  <2> QED
        BY <1>0, <1>8, <2>2, SoundTwo
<1>10. DirsKnown'
  <2>1. \A q \in Procs, gd \in Fds : files'[q][gd].scratch = files[q][gd].scratch
        BY <1>2, <1>5, <1>7, SMT
  <2> QED
        BY <1>0, <1>3, <2>1, DirsSame
<1>11. EventsKnown'
  <2>1. \A q \in Procs, gd \in Fds :
            files'[q][gd].event = NoObject \/ files'[q][gd].event = files[q][gd].event
        BY <1>5, <1>7
  <2> QED
        BY <1>0, <1>3, <2>1, EventsSame
<1> QED
    BY <1>0, <1>8, <1>9, <1>10, <1>11, PollableSame DEF Inv

\* What the steps below leave alone.
Quiet == UNCHANGED <<bytes, value, signalled, signal_write_fd, call, robbed, passed, scratch>>

Grows == made' \in Numbers /\ made <= made'

\* A new entry with no host descriptor: an epoll set, the display, a copy of
\* the console.
LEMMA PlainStep ==
    ASSUME Inv, NEW p, NEW fd, NEW r, Sets(p, fd, r), fd \in FreeIn(p),
           r.host = NoHost, r.event = NoObject, r.scratch = NoObject,
           Grows, Quiet, UNCHANGED ends
    PROVE  Inv'
<1>0. Types /\ Sound /\ DirsKnown /\ EventsKnown /\ EventIsPollable
    BY DEF Inv
<1>1. /\ files' \in [Procs -> [Fds -> Whole]]
      /\ \A q \in Procs, gd \in Fds :
            files'[q][gd] = IF q = p /\ gd = fd THEN r ELSE files[q][gd]
    BY <1>0, OneSet, SMT
<1>2. files[p][fd].host = NoHost /\ files[p][fd].scratch = NoObject
    BY <1>0, FreeFacts DEF Sets
<1>3. Types'
    BY <1>0, <1>1 DEF Types, Quiet, Grows
<1>4. Sound'
    BY <1>0, <1>1, <1>2, SoundSame DEF Quiet
<1>5. DirsKnown'
    BY <1>0, <1>1, <1>2, DirsSame DEF Quiet, Grows
<1>6. EventsKnown'
    BY <1>0, <1>1, EventsSame DEF Quiet, Grows
<1> QED
    BY <1>0, <1>3, <1>4, <1>5, <1>6, PollableSame DEF Inv, Quiet

\* A new entry with a host descriptor of its own: a file, a socket, a copy.
Enters(p, fd, r, h, e) ==
    /\ Sets(p, fd, r) /\ fd \in FreeIn(p) /\ h \in FreeHost
    /\ r.host = h /\ r.event = NoObject
    /\ e \in Ends /\ e # NoEnd /\ ends' = [ends EXCEPT ![h] = e]

LEMMA EntersKeeps ==
    ASSUME Inv, NEW p, NEW fd, NEW r, NEW h, NEW e, Enters(p, fd, r, h, e), Grows,
           UNCHANGED <<bytes, value, signalled, signal_write_fd, call, robbed, passed>>
    PROVE  /\ Types' /\ Sound' /\ EventsKnown' /\ EventIsPollable'
           /\ files[p][fd].scratch = NoObject
           /\ \A q \in Procs, gd \in Fds :
                files'[q][gd] = IF q = p /\ gd = fd THEN r ELSE files[q][gd]
<1>0. Types /\ Sound /\ EventsKnown /\ EventIsPollable
    BY DEF Inv
<1>1. /\ files' \in [Procs -> [Fds -> Whole]]
      /\ \A q \in Procs, gd \in Fds :
            files'[q][gd] = IF q = p /\ gd = fd THEN r ELSE files[q][gd]
    BY <1>0, OneSet, SMT DEF Enters
<1>2. /\ files[p][fd].host = NoHost /\ files[p][fd].scratch = NoObject
      /\ p \in Procs /\ fd \in Fds /\ h \in HostFds
    BY <1>0, FreeFacts DEF Enters, Sets
<1>3. ends' \in [HostFds -> Ends]
    BY <1>0, <1>2 DEF Enters, Types
<1>4. Types'
    BY <1>0, <1>1, <1>3 DEF Types, Grows
<1>5. Sound'
  <2>1. Puts(p, fd, h, e)
        BY <1>1, <1>2 DEF Puts, Enters
  <2> QED
        BY <1>0, <1>4, <2>1, SoundPut
<1>6. EventsKnown'
    BY <1>0, <1>1, EventsSame DEF Enters, Grows
<1> QED
    BY <1>0, <1>1, <1>2, <1>4, <1>5, <1>6, PollableSame

LEMMA FileStep ==
    ASSUME Inv, NEW p, NEW fd, NEW r, NEW h, NEW e, Enters(p, fd, r, h, e),
           r.scratch = NoObject, Grows, Quiet
    PROVE  Inv'
<1>1. /\ Types' /\ Sound' /\ EventsKnown' /\ EventIsPollable'
      /\ files[p][fd].scratch = NoObject
      /\ \A q \in Procs, gd \in Fds :
            files'[q][gd] = IF q = p /\ gd = fd THEN r ELSE files[q][gd]
    BY EntersKeeps, SMT DEF Quiet
<1>2. DirsKnown'
    BY <1>1, DirsSame DEF Inv, Quiet, Grows
<1> QED
    BY <1>1, <1>2 DEF Inv

-----------------------------------------------------------------------------
(* Emptying entries.                                                        *)

\* The entries of p's table that are closed are empty, and so is the host's
\* table where they pointed.
Clears(p, closing) ==
    /\ p \in Procs
    /\ \A q \in Procs, gd \in Fds :
            files'[q][gd] = IF q = p /\ gd \in closing THEN NoFile ELSE files[q][gd]
    /\ files' \in [Procs -> [Fds -> Whole]]
    /\ ends' \in [HostFds -> Ends]
    /\ \A h \in HostFds :
            ends'[h] = IF \E fd \in Fds : fd \in closing /\ files[p][fd].host = h
                       THEN NoEnd ELSE ends[h]
    /\ UNCHANGED <<bytes, value, signalled, signal_write_fd, made, call, robbed, passed>>

LEMMA ClearsKeeps ==
    ASSUME Inv, NEW p, NEW closing, Clears(p, closing)
    PROVE  Types' /\ Sound' /\ EventsKnown' /\ EventIsPollable'
<1>0. Types /\ Sound /\ EventsKnown /\ EventIsPollable
    BY DEF Inv
<1>1. Types'
    BY <1>0 DEF Types, Clears
<1>2. Sound'
  <2>1. Rights' = Rights /\ ends \in [HostFds -> Ends] /\ p \in Procs
        BY <1>0 DEF Rights, Clears, Types
  <2>2. \A q \in Procs, gd \in Fds :
            Hosts'[q][gd] = IF q = p /\ gd \in closing THEN NoHost ELSE Hosts[q][gd]
        BY <1>0, <1>1, HostsTyped, NextHostsTyped, EmptyFile, SMT DEF Clears
  <2>3. /\ ends' \in [HostFds -> Ends]
        /\ \A h \in HostFds :
            ends'[h] = IF \E fd \in Fds : fd \in closing /\ Hosts[p][fd] = h
                       THEN NoEnd ELSE ends[h]
        BY <1>0, <2>1, HostsTyped, SMT DEF Clears
  <2>4. ClearIn(Hosts, ends, Hosts', ends', p, closing)
        BY <1>0, <1>1, <2>1, <2>2, <2>3, HostsTyped, NextHostsTyped DEF ClearIn
  <2>5. Own(Hosts', ends', Rights) /\ Kept(Hosts', ends', Rights, signal_write_fd)
        BY <1>0, <2>4, HostsTyped, ClearKeeps DEF Sound
  <2> QED
        BY <2>1, <2>5 DEF Sound, Clears
<1>3. EventsKnown'
  <2>1. \A q \in Procs, gd \in Fds :
            files'[q][gd].event = NoObject \/ files'[q][gd].event = files[q][gd].event
        BY EmptyFile, SMT DEF Clears
  <2>2. made' = made /\ made' \in Numbers /\ made <= made'
        BY <1>0, SMT DEF Clears, Types, Numbers
  <2> QED
        BY <1>0, <2>1, <2>2, EventsSame DEF Clears
<1> QED
    BY <1>0, <1>1, <1>2, <1>3, PollableSame DEF Clears

\* The directories of the entries that go are removed with them.
DropsDirs(p, closing) ==
    /\ p \in Procs
    /\ \A q \in Procs, gd \in Fds :
            files'[q][gd].scratch = IF q = p /\ gd \in closing THEN NoObject
                                    ELSE files[q][gd].scratch
    /\ closing \subseteq Fds
    /\ dirs' = dirs \ {files[p][fd].scratch : fd \in closing}
    /\ UNCHANGED <<left, made>>

LEMMA DirsDropped ==
    ASSUME Types, DirsKnown, NEW p, NEW closing, DropsDirs(p, closing)
    PROVE  DirsKnown'
<1> USE DEF DropsDirs
<1>1. left' \subseteq 1..made' /\ dirs' \subseteq 1..made'
    BY DEF DirsKnown
<1>2. \A q \in Procs, fd \in Fds : files'[q][fd].scratch # NoObject =>
            /\ files'[q][fd].scratch \in (1..made') \ left'
            /\ \A r \in Procs, gd \in Fds :
                    files'[r][gd].scratch = files'[q][fd].scratch => r = q /\ gd = fd
    BY SMT DEF DirsKnown
<1>3. ASSUME NEW k \in 1..made'
      PROVE  k \in dirs' <=> k \in left' \/ \E q \in Procs, fd \in Fds : files'[q][fd].scratch = k
  <2>0. k # NoObject /\ k \in 1..made
        BY SMT DEF NoObject, Types, Numbers
  <2>1. CASE \E fd \in closing : files[p][fd].scratch = k
    <3>1. PICK fd \in closing : files[p][fd].scratch = k
        BY <2>1
    <3>2. k \notin dirs'
        BY <3>1
    <3>3. k \notin left'
        BY <2>0, <3>1 DEF DirsKnown
    <3>4. \A q \in Procs, gd \in Fds : files'[q][gd].scratch # k
        BY <2>0, <3>1, SMT DEF DirsKnown
    <3> QED
        BY <3>2, <3>3, <3>4
  <2>2. CASE ~\E fd \in closing : files[p][fd].scratch = k
    <3>1. k \in dirs' <=> k \in dirs
        BY <2>2
    <3>2. \A q \in Procs, gd \in Fds : files'[q][gd].scratch = k <=> files[q][gd].scratch = k
        BY <2>0, <2>2
    <3> QED
        BY <2>0, <3>1, <3>2, SMT DEF DirsKnown
  <2> QED
        BY <2>1, <2>2
<1> QED
    BY <1>1, <1>2, <1>3 DEF DirsKnown

LEMMA ClosedFacts ==
    ASSUME Types, NEW p \in Procs, NEW closing, closing \subseteq Fds,
           files' = [files EXCEPT ![p] = [fd \in Fds |-> IF fd \in closing THEN NoFile
                                                         ELSE files[p][fd]]],
           ends' = Closed({files[p][fd].host : fd \in closing}),
           UNCHANGED <<bytes, value, signalled, signal_write_fd, made, call, robbed, passed>>
    PROVE  Clears(p, closing)
<1>1. \A q \in Procs, gd \in Fds :
            files'[q][gd] = IF q = p /\ gd \in closing THEN NoFile ELSE files[q][gd]
    BY DEF Types
<1>2. files' \in [Procs -> [Fds -> Whole]]
    BY EmptyFile DEF Types
<1>3. \A h \in HostFds :
            ends'[h] = IF \E fd \in Fds : fd \in closing /\ files[p][fd].host = h
                       THEN NoEnd ELSE ends[h]
    BY DEF Closed
<1>4. ends' \in [HostFds -> Ends]
    BY DEF Closed, Types, Ends
<1> QED
    BY <1>1, <1>2, <1>3, <1>4 DEF Clears

LEMMA CloseFdsStep ==
    ASSUME Inv, NEW p \in Procs, NEW closing, closing \subseteq Fds, CloseFds(p, closing),
           UNCHANGED <<objects, call, robbed, passed, left>>
    PROVE  Inv'
<1>0. Types /\ DirsKnown
    BY DEF Inv
<1>1. Clears(p, closing)
    BY <1>0, ClosedFacts DEF CloseFds, objects
<1>2. DropsDirs(p, closing)
    BY <1>1, EmptyFile DEF DropsDirs, Clears, CloseFds
<1>3. DirsKnown'
    BY <1>0, <1>2, DirsDropped
<1> QED
    BY <1>1, <1>3, ClearsKeeps DEF Inv

LEMMA ExitStep ==
    ASSUME Inv, NEW t \in Threads, Exit(t)
    PROVE  Inv'
<1> DEFINE p == Proc[t]
<1>0. Types /\ DirsKnown /\ p \in Procs
    BY DescriptorsAssumption DEF Inv
<1>1. Clears(p, Fds)
  <2>1. files' = [files EXCEPT ![p] = [fd \in Fds |-> IF fd \in Fds THEN NoFile ELSE files[p][fd]]]
    <3>1. [fd \in Fds |-> NoFile] = [fd \in Fds |-> IF fd \in Fds THEN NoFile ELSE files[p][fd]]
        OBVIOUS
    <3> QED
        BY <3>1 DEF Exit
  <2> QED
        BY <1>0, <2>1, ClosedFacts DEF Exit, objects
<1>2. DirsKnown'
  <2>1. /\ made' = made /\ dirs' = dirs
        /\ left' = left \cup ({files[p][fd].scratch : fd \in Fds} \ {NoObject})
        BY DEF Exit, objects
  <2>2. \A q \in Procs, gd \in Fds :
            files'[q][gd].scratch = IF q = p THEN NoObject ELSE files[q][gd].scratch
        BY <1>1, EmptyFile, SMT DEF Clears
  <2> HIDE DEF p
  <2>3. \A k : k \in left' <=> k \in left \/ (k # NoObject /\ \E fd \in Fds : files[p][fd].scratch = k)
        BY <2>1
  <2>4. left' \subseteq 1..made' /\ dirs' \subseteq 1..made'
    <3>1. ASSUME NEW k \in left' PROVE k \in 1..made
      <4>1. CASE k \in left
        BY <1>0, <4>1 DEF DirsKnown
      <4>2. CASE k \notin left
        <5>1. PICK fd \in Fds : files[p][fd].scratch = k /\ k # NoObject
            BY <2>3, <4>2
        <5> QED
            BY <1>0, <5>1 DEF DirsKnown
      <4> QED
        BY <4>1, <4>2
    <3> QED
        BY <1>0, <2>1, <3>1 DEF DirsKnown
  <2>5. \A q \in Procs, fd \in Fds : files'[q][fd].scratch # NoObject =>
            /\ files'[q][fd].scratch \in (1..made') \ left'
            /\ \A r \in Procs, gd \in Fds :
                    files'[r][gd].scratch = files'[q][fd].scratch => r = q /\ gd = fd
        BY <1>0, <2>1, <2>2, <2>3, SMT DEF DirsKnown
  <2>6. ASSUME NEW k \in 1..made'
        PROVE  k \in dirs' <=> k \in left' \/ \E q \in Procs, fd \in Fds : files'[q][fd].scratch = k
    <3>1. k # NoObject /\ k \in 1..made
        BY <1>0, <2>1, SMT DEF NoObject, Types, Numbers
    <3> QED
        BY <1>0, <2>1, <2>2, <2>3, <3>1, SMT DEF DirsKnown
  <2> QED
        BY <2>4, <2>5, <2>6 DEF DirsKnown
<1> QED
    BY <1>1, <1>2, ClearsKeeps DEF Inv

-----------------------------------------------------------------------------
(* open, epoll_create, the display's socket, dup.                           *)

\* Open, socket and memfd_create.
LEMMA RegisterStep ==
    ASSUME Inv, Numbered, NEW t \in Threads, NEW cx \in BOOLEAN, Register(t, cx)
    PROVE  Inv'
<1> DEFINE p == Proc[t]
           h == Nth(FreeHost, 0)
           fd == AllocateFd(p)
           e == <<"f", made + 1>>
           r == File(h, cx)
<1>0. Types /\ p \in Procs
    BY DescriptorsAssumption DEF Inv
<1>1. /\ made < MaxObjects /\ FreeHost # {} /\ FreeIn(p) # {} /\ made' = made + 1
      /\ ends' = [ends EXCEPT ![h] = e] /\ files' = [files EXCEPT ![p][fd] = r]
      /\ Quiet
    BY DEF Register, Quiet
<1>2. h \in FreeHost /\ h \in HostFds /\ fd \in FreeIn(p) /\ fd \in Fds
    BY <1>0, <1>1, FreeFacts, LowestFree
<1>3. made + 1 \in Objects /\ Grows
    BY <1>0, <1>1, NewObject DEF Grows
<1>4. e \in Ends /\ e # NoEnd
    BY <1>3, EndFacts
<1>5. r \in Whole /\ r.host = h /\ r.event = NoObject /\ r.scratch = NoObject
    BY <1>2, FileFacts
<1> HIDE DEF p, h, fd, e, r
<1>6. Enters(p, fd, r, h, e)
    BY <1>0, <1>1, <1>2, <1>4, <1>5 DEF Enters, Sets
<1> QED
    BY <1>1, <1>3, <1>5, <1>6, FileStep

LEMMA EpollCreateStep ==
    ASSUME Inv, Numbered, NEW t \in Threads, NEW cx \in BOOLEAN, EpollCreate(t, cx)
    PROVE  Inv'
<1> DEFINE p == Proc[t]
           fd == AllocateFd(p)
           r == EpollEntry(NoHost, cx, made + 1)
<1>0. Types /\ p \in Procs
    BY DescriptorsAssumption DEF Inv
<1>1. /\ made < MaxObjects /\ FreeIn(p) # {} /\ made' = made + 1
      /\ UNCHANGED ends /\ files' = [files EXCEPT ![p][fd] = r] /\ Quiet
    BY DEF EpollCreate, Quiet, EpollEntry
<1>2. fd \in FreeIn(p) /\ fd \in Fds
    BY <1>0, <1>1, FreeFacts, LowestFree
<1>3. made + 1 \in Numbers /\ Grows
    BY <1>0, <1>1, NewObject DEF Grows
<1>4. NoHost \in HostFds \cup {NoHost}
    OBVIOUS
<1>5. r \in Whole /\ r.host = NoHost /\ r.event = NoObject /\ r.scratch = NoObject
    BY <1>3, <1>4, EpollFile, SMT
<1> HIDE DEF p, fd, r
<1>6. Sets(p, fd, r)
    BY <1>0, <1>1, <1>2, <1>5 DEF Sets
<1> QED
    BY <1>1, <1>2, <1>3, <1>5, <1>6, PlainStep

LEMMA OpenDisplayStep ==
    ASSUME Inv, Numbered, NEW t \in Threads, OpenDisplay(t)
    PROVE  Inv'
<1> DEFINE p == Proc[t]
           fd == AllocateFd(p)
           r == File(NoHost, FALSE)
<1>0. Types /\ p \in Procs
    BY DescriptorsAssumption DEF Inv
<1>1. /\ FreeIn(p) # {} /\ made' = made
      /\ UNCHANGED ends /\ files' = [files EXCEPT ![p][fd] = r] /\ Quiet
    BY DEF OpenDisplay, Quiet, objects
<1>2. fd \in FreeIn(p) /\ fd \in Fds
    BY <1>0, <1>1, FreeFacts, LowestFree
<1>3. Grows
    BY <1>0, <1>1, SMT DEF Grows, Types, Numbers
<1>5. r \in Whole /\ r.host = NoHost /\ r.event = NoObject /\ r.scratch = NoObject
    BY FileFacts
<1> HIDE DEF p, fd, r
<1>6. Sets(p, fd, r)
    BY <1>0, <1>1, <1>2, <1>5 DEF Sets
<1> QED
    BY <1>1, <1>2, <1>3, <1>5, <1>6, PlainStep

\* dup and fcntl's F_DUPFD.
LEMMA DupStep ==
    ASSUME Inv, Numbered, NEW t \in Threads, NEW of \in Fds, Dup(t, of)
    PROVE  Inv'
<1> DEFINE p == Proc[t]
           h == Nth(FreeHost, 0)
           fd == AllocateFd(p)
           file == files[p][of]
<1>0. Types /\ p \in Procs
    BY DescriptorsAssumption DEF Inv
<1>1. FreeIn(p) # {} /\ made' = made /\ Quiet
    BY DEF Dup, Quiet, objects
<1>2. fd \in FreeIn(p) /\ fd \in Fds /\ file \in Whole
    BY <1>0, <1>1, FreeFacts, LowestFree DEF Types
<1>3. Grows
    BY <1>0, <1>1, SMT DEF Grows, Types, Numbers
<1>4. CASE file.host = NoHost
  <2> DEFINE r == Duplicate(file, NoHost)
  <2>1. files' = [files EXCEPT ![p][fd] = r] /\ UNCHANGED ends
        BY <1>4 DEF Dup
  <2>2. r \in Whole /\ r.host = NoHost /\ r.event = NoObject /\ r.scratch = NoObject
        BY <1>2, CopyFacts
  <2> HIDE DEF p, fd, r, file
  <2>3. Sets(p, fd, r)
        BY <1>0, <1>2, <2>1, <2>2 DEF Sets
  <2> QED
        BY <1>1, <1>2, <1>3, <2>1, <2>2, <2>3, PlainStep
<1>5. CASE file.host # NoHost
  <2> DEFINE r == Duplicate(file, h)
             e == ends[file.host]
  <2>1. /\ files' = [files EXCEPT ![p][fd] = r] /\ ends' = [ends EXCEPT ![h] = e]
        /\ FreeHost # {}
        BY <1>5 DEF Dup
  <2>2. h \in FreeHost /\ h \in HostFds
        BY <1>0, <2>1, FreeFacts, LowestFree
  <2>3. r \in Whole /\ r.host = h /\ r.event = NoObject /\ r.scratch = NoObject
        BY <1>2, <2>2, CopyFacts
  <2>4. e \in Ends /\ e # NoEnd
    <3>1. file.host \in HostFds /\ ends \in [HostFds -> Ends]
        BY <1>0, <1>2, <1>5 DEF Whole, FileRecords, Types
    <3>2. Hosts[p][of] = file.host
        BY <1>0, HostsTyped
    <3>3. ends[Hosts[p][of]] # NoEnd
        BY <1>0, <1>5, <3>2 DEF Inv, Sound, Own
    <3> QED
        BY <3>1, <3>2, <3>3
  <2> HIDE DEF p, fd, r, file, e, h
  <2>5. Enters(p, fd, r, h, e)
        BY <1>0, <1>2, <2>1, <2>2, <2>3, <2>4 DEF Enters, Sets
  <2> QED
        BY <1>1, <1>3, <2>3, <2>5, FileStep
<1> QED
    BY <1>4, <1>5

-----------------------------------------------------------------------------
(* dup2 and dup3.                                                           *)

\* The entry `to' is replaced by r, its host descriptor closed.
Replaces(p, to, r) ==
    /\ p \in Procs /\ to \in Fds /\ r \in Whole
    /\ r.event = NoObject /\ r.scratch = NoObject
    /\ files' = [files EXCEPT ![p] = [files[p] EXCEPT ![to] = r]]
    /\ dirs' = dirs \ {files[p][to].scratch}
    /\ UNCHANGED <<objects, call, robbed, passed, left>>

LEMMA ReplacesKeeps ==
    ASSUME Inv, NEW p, NEW to, NEW r, Replaces(p, to, r), ends' \in [HostFds -> Ends]
    PROVE  /\ Types' /\ DirsKnown' /\ EventsKnown' /\ EventIsPollable'
           /\ \A q \in Procs, gd \in Fds :
                files'[q][gd] = IF q = p /\ gd = to THEN r ELSE files[q][gd]
<1>0. Types /\ DirsKnown /\ EventsKnown /\ EventIsPollable
    BY DEF Inv
<1>1. /\ files' \in [Procs -> [Fds -> Whole]]
      /\ \A q \in Procs, gd \in Fds :
            files'[q][gd] = IF q = p /\ gd = to THEN r ELSE files[q][gd]
    BY <1>0 DEF Types, Replaces
<1>2. made' = made /\ made' \in Numbers /\ made <= made'
    BY <1>0, SMT DEF Replaces, Types, Numbers, objects
<1>3. Types'
    BY <1>0, <1>1 DEF Types, Replaces, objects
<1>4. DropsDirs(p, {to})
    BY <1>1, SMT DEF DropsDirs, Replaces, objects
<1>5. DirsKnown'
    BY <1>0, <1>4, DirsDropped
<1>6. EventsKnown'
  <2>1. \A q \in Procs, gd \in Fds :
            files'[q][gd].event = NoObject \/ files'[q][gd].event = files[q][gd].event
        BY <1>1 DEF Replaces
  <2> QED
        BY <1>0, <1>2, <2>1, EventsSame DEF Replaces, objects
<1> QED
    BY <1>0, <1>1, <1>3, <1>5, <1>6, PollableSame DEF Replaces, objects

\* The copy has no host descriptor, or there is no copy.
LEMMA ReplacedBare ==
    ASSUME Inv, NEW p, NEW to, NEW r, Replaces(p, to, r), r.host = NoHost,
           ends' \in [HostFds -> Ends],
           \A g \in HostFds : ends'[g] = IF g = files[p][to].host THEN NoEnd ELSE ends[g]
    PROVE  Inv'
<1>0. Types /\ Sound
    BY DEF Inv
<1>1. /\ Types' /\ DirsKnown' /\ EventsKnown' /\ EventIsPollable'
      /\ \A q \in Procs, gd \in Fds :
            files'[q][gd] = IF q = p /\ gd = to THEN r ELSE files[q][gd]
    BY ReplacesKeeps, SMT
<1>2. /\ Rights' = Rights /\ ends \in [HostFds -> Ends] /\ p \in Procs /\ to \in Fds
      /\ signal_write_fd' = signal_write_fd
    BY <1>0 DEF Rights, Replaces, Types, objects
<1>3. \A q \in Procs, gd \in Fds :
            Hosts'[q][gd] = IF q = p /\ gd \in {to} THEN NoHost ELSE Hosts[q][gd]
    BY <1>0, <1>1, HostsTyped, NextHostsTyped, SMT
<1>4. \A h \in HostFds :
            ends'[h] = IF \E fd \in Fds : fd \in {to} /\ Hosts[p][fd] = h
                       THEN NoEnd ELSE ends[h]
    BY <1>0, <1>2, HostsTyped, SMT
<1>5. ClearIn(Hosts, ends, Hosts', ends', p, {to})
    BY <1>0, <1>1, <1>2, <1>3, <1>4, HostsTyped, NextHostsTyped DEF ClearIn
<1>6. Own(Hosts', ends', Rights) /\ Kept(Hosts', ends', Rights, signal_write_fd)
    BY <1>0, <1>5, HostsTyped, ClearKeeps DEF Sound
<1> QED
    BY <1>1, <1>2, <1>6 DEF Inv, Sound

\* The copy has the lowest host descriptor that is free once the target is
\* closed.
LEMMA ReplacedHosted ==
    ASSUME Inv, NEW p, NEW to, NEW r, Replaces(p, to, r), NEW h \in HostFds, r.host = h,
           ends[h] = NoEnd \/ h = files[p][to].host,
           NEW e \in Ends, e # NoEnd, ends' \in [HostFds -> Ends],
           \A g \in HostFds : ends'[g] = IF g = h THEN e
                                         ELSE IF g = files[p][to].host THEN NoEnd ELSE ends[g]
    PROVE  Inv'
<1> DEFINE F == [q \in Procs |-> [gd \in Fds |-> IF q = p /\ gd \in {to} THEN NoHost
                                                 ELSE Hosts[q][gd]]]
           en == [g \in HostFds |-> IF g = files[p][to].host THEN NoEnd ELSE ends[g]]
<1>0. Types /\ Sound
    BY DEF Inv
<1>1. /\ Types' /\ DirsKnown' /\ EventsKnown' /\ EventIsPollable'
      /\ \A q \in Procs, gd \in Fds :
            files'[q][gd] = IF q = p /\ gd = to THEN r ELSE files[q][gd]
    BY ReplacesKeeps, SMT
<1>2. /\ Rights' = Rights /\ ends \in [HostFds -> Ends] /\ p \in Procs /\ to \in Fds
      /\ signal_write_fd' = signal_write_fd
    BY <1>0 DEF Rights, Replaces, Types, objects
<1>3. /\ F \in Tables
      /\ \A q \in Procs, gd \in Fds :
            F[q][gd] = IF q = p /\ gd \in {to} THEN NoHost ELSE Hosts[q][gd]
    BY <1>0, HostsTyped DEF Tables
<1>4. /\ en \in [HostFds -> Ends] /\ en[h] = NoEnd
      /\ \A g \in HostFds : en[g] = IF g = files[p][to].host THEN NoEnd ELSE ends[g]
    BY <1>2 DEF Ends
<1>5. ends' = [en EXCEPT ![h] = e]
    BY <1>4
<1> HIDE DEF F, en
<1>6. \A g \in HostFds :
            en[g] = IF \E fd \in Fds : fd \in {to} /\ Hosts[p][fd] = g THEN NoEnd ELSE ends[g]
    BY <1>0, <1>2, <1>4, HostsTyped, SMT
<1>7. ClearIn(Hosts, ends, F, en, p, {to})
    BY <1>0, <1>2, <1>3, <1>4, <1>6, HostsTyped DEF ClearIn
<1>8. Own(F, en, Rights) /\ Kept(F, en, Rights, signal_write_fd)
    BY <1>0, <1>7, HostsTyped, ClearKeeps DEF Sound
<1>9. \A q \in Procs, gd \in Fds : Hosts'[q][gd] = IF q = p /\ gd = to THEN h ELSE F[q][gd]
    BY <1>0, <1>1, <1>3, HostsTyped, NextHostsTyped, SMT
<1>10. PutIn(F, en, Hosts', ends', p, to, h, e)
    BY <1>1, <1>2, <1>3, <1>4, <1>5, <1>9, NextHostsTyped DEF PutIn
<1>11. Own(Hosts', ends', Rights) /\ Kept(Hosts', ends', Rights, signal_write_fd)
    BY <1>0, <1>8, <1>10, HostsTyped, PutKeeps
<1> QED
    BY <1>1, <1>2, <1>11 DEF Inv, Sound

LEMMA Dup2Step ==
    ASSUME Inv, Numbered, NEW t \in Threads, NEW from \in Fds, NEW to \in Fds, Dup2(t, from, to)
    PROVE  Inv'
<1> DEFINE p == Proc[t]
           file == files[p][from]
           old == files[p][to].host
           freed == IF old = NoHost THEN FreeHost ELSE FreeHost \cup {old}
           h == Nth(freed, 0)
           copied == file.host = NoHost \/ freed # {}
           copy == CASE ~copied -> NoFile
                     [] file.host = NoHost -> Duplicate(file, NoHost)
                     [] OTHER -> Duplicate(file, h)
           e == ends[file.host]
<1>0. Types /\ Sound /\ p \in Procs
    BY DescriptorsAssumption DEF Inv
<1>1. /\ files' = [files EXCEPT ![p] = [files[p] EXCEPT ![to] = copy]]
      /\ ends' = [g \in HostFds |->
                      IF copied /\ file.host # NoHost /\ g = h THEN e
                      ELSE IF g = old THEN NoEnd ELSE ends[g]]
      /\ dirs' = dirs \ {files[p][to].scratch}
      /\ UNCHANGED <<objects, call, robbed, passed, left>>
    BY DEF Dup2
<1> HIDE DEF copy
<1>2. /\ ~copied => copy = NoFile
      /\ copied /\ file.host = NoHost => copy = Duplicate(file, NoHost)
      /\ copied /\ file.host # NoHost => copy = Duplicate(file, h)
    BY DEF copy
<1> HIDE DEF copied, h
<1>3. copied /\ file.host # NoHost => freed # {}
    BY DEF copied
<1> HIDE DEF freed
<1>4. file \in Whole /\ old \in HostFds \cup {NoHost} /\ ends \in [HostFds -> Ends] /\ NoEnd \in Ends
    BY <1>0, SMT DEF Types, Whole, FileRecords, Ends
<1>5. file.host # NoHost => e \in Ends /\ e # NoEnd
  <2>1. file.host \in HostFds \cup {NoHost}
        BY <1>4 DEF Whole, FileRecords
  <2>2. Hosts[p][from] = file.host
        BY <1>0, HostsTyped
  <2>3. file.host # NoHost => ends[file.host] # NoEnd
        BY <1>0, <2>2, SMT DEF Sound, Own
  <2> QED
        BY <1>4, <2>1, <2>3
<1> HIDE DEF p, file, e
<1>6. freed # {} => h \in HostFds /\ (ends[h] = NoEnd \/ h = old)
  <2>1. \A g \in freed : g \in HostFds /\ (ends[g] = NoEnd \/ g = old)
        BY <1>0, <1>4, FreeFacts, LowestFree DEF freed
  <2>2. freed \in SUBSET (0..MaxHost) /\ MaxHost \in Nat
        BY <2>1, DescriptorsAssumption DEF HostFds
  <2> QED
        BY <2>1, <2>2 DEF h, Numbered
<1>7. CASE ~(copied /\ file.host # NoHost)
  <2>1. copy \in Whole /\ copy.host = NoHost /\ copy.event = NoObject /\ copy.scratch = NoObject
    <3>1. CASE ~copied
        BY <1>2, <3>1, EmptyFile
    <3>2. CASE copied /\ file.host = NoHost
        BY <1>2, <1>4, <3>2, CopyFacts, SMT
    <3> QED
        BY <1>7, <3>1, <3>2
  <2>2. ends' = [g \in HostFds |-> IF g = old THEN NoEnd ELSE ends[g]]
        BY <1>1, <1>7
  <2>3. /\ ends' \in [HostFds -> Ends]
        /\ \A g \in HostFds : ends'[g] = IF g = old THEN NoEnd ELSE ends[g]
        BY <1>4, <2>2
  <2>4. Replaces(p, to, copy)
        BY <1>0, <1>1, <2>1 DEF Replaces
  <2> QED
        BY <2>1, <2>3, <2>4, ReplacedBare, SMT
<1>8. CASE copied /\ file.host # NoHost
  <2>1. /\ copy = Duplicate(file, h) /\ h \in HostFds /\ (ends[h] = NoEnd \/ h = old)
        /\ e \in Ends /\ e # NoEnd
        BY <1>2, <1>3, <1>5, <1>6, <1>8
  <2>2. ends' = [g \in HostFds |-> IF g = h THEN e ELSE IF g = old THEN NoEnd ELSE ends[g]]
        BY <1>1, <1>8
  <2>3. /\ ends' \in [HostFds -> Ends]
        /\ \A g \in HostFds : ends'[g] = IF g = h THEN e ELSE IF g = old THEN NoEnd ELSE ends[g]
        BY <1>4, <2>1, <2>2
  <2>4. copy \in Whole /\ copy.host = h /\ copy.event = NoObject /\ copy.scratch = NoObject
        BY <1>4, <2>1, CopyFacts, SMT
  <2>5. Replaces(p, to, copy)
        BY <1>0, <1>1, <2>4 DEF Replaces
  <2> QED
        BY <2>1, <2>3, <2>4, <2>5, ReplacedHosted, SMT
<1> QED
    BY <1>7, <1>8

-----------------------------------------------------------------------------
(* F_SETFD, eventfd, /proc/self/fd.                                         *)

LEMMA SetCloexecStep ==
    ASSUME Inv, NEW t \in Threads, NEW fd \in Fds, SetCloexec(t, fd)
    PROVE  Inv'
<1> DEFINE p == Proc[t]
           r == [files[p][fd] EXCEPT !.cloexec = ~@]
<1>0. Types /\ Sound /\ DirsKnown /\ EventsKnown /\ EventIsPollable /\ p \in Procs
    BY DescriptorsAssumption DEF Inv
<1>1. files[p][fd] \in Whole
    BY <1>0 DEF Types
<1>2. /\ r \in Whole /\ r.host = files[p][fd].host /\ r.event = files[p][fd].event
      /\ r.scratch = files[p][fd].scratch
  <2>1. (~files[p][fd].cloexec) \in BOOLEAN
        OBVIOUS
  <2> QED
        BY <1>1, <2>1 DEF Whole, FileRecords
<1>3. /\ files' = [files EXCEPT ![p][fd] = r]
      /\ UNCHANGED <<ends, bytes, value, signalled, signal_write_fd, made, call, robbed, passed,
                     scratch>>
    BY <1>0, <1>1 DEF SetCloexec, objects, Types
<1> HIDE DEF p, r
<1>4. /\ files' \in [Procs -> [Fds -> Whole]]
      /\ \A q \in Procs, gd \in Fds :
            files'[q][gd] = IF q = p /\ gd = fd THEN r ELSE files[q][gd]
  <2>1. Sets(p, fd, r)
        BY <1>0, <1>2, <1>3 DEF Sets
  <2> QED
        BY <1>0, <2>1, OneSet, SMT
<1>5. made' \in Numbers /\ made <= made'
    BY <1>0, <1>3, SMT DEF Types, Numbers
<1>6. Types'
    BY <1>0, <1>3, <1>4 DEF Types
<1>7. Sound'
    BY <1>0, <1>2, <1>3, <1>4, SoundSame
<1>8. DirsKnown'
    BY <1>0, <1>2, <1>3, <1>4, <1>5, DirsSame
<1>9. EventsKnown'
  <2>1. \A q \in Procs, gd \in Fds : files'[q][gd].event = files[q][gd].event
        BY <1>2, <1>4
  <2> QED
        BY <1>0, <1>3, <1>5, <2>1, EventsSame
<1> QED
    BY <1>0, <1>3, <1>6, <1>7, <1>8, <1>9, PollableSame DEF Inv

LEMMA OpenFdsStep ==
    ASSUME Inv, Numbered, NEW t \in Threads, OpenFds(t)
    PROVE  Inv'
<1> DEFINE p == Proc[t]
           k == made + 1
           h == Nth(FreeHost, 0)
           fd == AllocateFd(p)
           e == <<"f", k>>
           r == ScratchEntry(h, k)
<1>0. Types /\ Sound /\ DirsKnown /\ EventsKnown /\ EventIsPollable /\ p \in Procs
    BY DescriptorsAssumption DEF Inv
<1>1. /\ made < MaxObjects /\ made' = k /\ dirs' = dirs \cup {k}
      /\ UNCHANGED <<bytes, value, signalled, signal_write_fd, call, robbed, passed>>
    BY DEF OpenFds
<1>2. /\ k \in Objects /\ Grows /\ k \in Numbers /\ k # NoObject /\ k \notin 1..made
      /\ 1..made' = 1..made \cup {k}
    BY <1>0, <1>1, NewObject, SMT DEF Grows, NoObject, Objects, Types, Numbers
<1>3. \A q \in Procs, gd \in Fds : files[q][gd].scratch # k
    BY <1>0, <1>2, SMT DEF DirsKnown
<1>4. CASE FreeHost # {}
  <2>1. /\ FreeIn(p) # {} /\ ends' = [ends EXCEPT ![h] = e]
        /\ files' = [files EXCEPT ![p][fd] = r] /\ left' = left
        BY <1>4 DEF OpenFds, ScratchEntry
  <2>2. h \in FreeHost /\ h \in HostFds /\ fd \in FreeIn(p) /\ fd \in Fds /\ h # NoHost
        BY <1>0, <1>4, <2>1, FreeFacts, LowestFree, NoHostIsNone
  <2>3. r \in Whole /\ r.host = h /\ r.event = NoObject /\ r.scratch = k
    <3>1. r = ScratchEntry(h, k)
        OBVIOUS
    <3> HIDE DEF h, k, r
    <3> QED
        BY <1>2, <2>2, <3>1, ScratchFile, SMT
  <2>4. e \in Ends /\ e # NoEnd
        BY <1>2, EndFacts
  <2> HIDE DEF p, h, fd, e, r, k
  <2>5. Enters(p, fd, r, h, e)
        BY <1>0, <2>1, <2>2, <2>3, <2>4 DEF Enters, Sets
  <2>6. /\ Types' /\ Sound' /\ EventsKnown' /\ EventIsPollable'
        /\ files[p][fd].scratch = NoObject
        /\ \A q \in Procs, gd \in Fds :
            files'[q][gd] = IF q = p /\ gd = fd THEN r ELSE files[q][gd]
        BY <1>1, <1>2, <2>5, EntersKeeps, SMT
  <2>7. \A q \in Procs, gd \in Fds :
            files'[q][gd].scratch = IF q = p /\ gd = fd THEN k ELSE files[q][gd].scratch
        BY <2>3, <2>6
  <2>8. DirsKnown'
    <3>1. left' \subseteq 1..made' /\ dirs' \subseteq 1..made'
        BY <1>0, <1>1, <1>2, <2>1 DEF DirsKnown
    <3>2. ASSUME NEW q \in Procs, NEW gd \in Fds, files'[q][gd].scratch # NoObject
          PROVE  /\ files'[q][gd].scratch \in (1..made') \ left'
                 /\ \A s \in Procs, id \in Fds :
                    files'[s][id].scratch = files'[q][gd].scratch => s = q /\ id = gd
      <4>1. CASE q = p /\ gd = fd
        BY <1>0, <1>2, <1>3, <2>1, <2>7, <4>1, SMT DEF DirsKnown
      <4>2. CASE ~(q = p /\ gd = fd)
        BY <1>0, <1>2, <1>3, <2>1, <2>7, <3>2, <4>2, SMT DEF DirsKnown
      <4> QED
        BY <4>1, <4>2
    <3>3. ASSUME NEW j \in 1..made'
          PROVE  j \in dirs' <=> j \in left' \/ \E q \in Procs, gd \in Fds : files'[q][gd].scratch = j
      <4>1. CASE j = k
        BY <1>0, <1>1, <2>2, <2>7, <4>1
      <4>2. CASE j # k
        <5>1. j \in 1..made /\ j # NoObject
            BY <1>0, <1>2, <4>2, SMT DEF NoObject, Types, Numbers
        <5>2. \A q \in Procs, gd \in Fds : files'[q][gd].scratch = j <=> files[q][gd].scratch = j
            BY <2>6, <2>7, <4>2, <5>1
        <5> QED
            BY <1>0, <1>1, <2>1, <4>2, <5>1, <5>2, SMT DEF DirsKnown
      <4> QED
        BY <4>1, <4>2
    <3> QED
        BY <3>1, <3>2, <3>3 DEF DirsKnown
  <2> QED
        BY <2>6, <2>8 DEF Inv
<1>5. CASE FreeHost = {}
  <2>1. UNCHANGED <<files, ends>> /\ left' = left \cup {k}
        BY <1>5 DEF OpenFds
  <2> HIDE DEF p, h, fd, e, r, k
  <2>2. Types'
        BY <1>0, <1>1, <1>2, <2>1 DEF Types, Grows
  <2>3. Sound'
        BY <1>0, <1>1, <2>1, SoundSame
  <2>4. EventsKnown'
        BY <1>0, <1>1, <1>2, <2>1, EventsSame DEF Grows
  <2>5. DirsKnown'
    <3>1. left' \subseteq 1..made' /\ dirs' \subseteq 1..made'
        BY <1>0, <1>1, <1>2, <2>1 DEF DirsKnown
    <3>2. \A q \in Procs, gd \in Fds : files'[q][gd].scratch # NoObject =>
            /\ files'[q][gd].scratch \in (1..made') \ left'
            /\ \A s \in Procs, id \in Fds :
                    files'[s][id].scratch = files'[q][gd].scratch => s = q /\ id = gd
        BY <1>0, <1>2, <1>3, <2>1, SMT DEF DirsKnown
    <3>3. \A j \in 1..made' :
            j \in dirs' <=> j \in left' \/ \E q \in Procs, gd \in Fds : files'[q][gd].scratch = j
        BY <1>0, <1>1, <1>2, <2>1, SMT DEF DirsKnown
    <3> QED
        BY <3>1, <3>2, <3>3 DEF DirsKnown
  <2> QED
        BY <1>0, <1>1, <2>2, <2>3, <2>4, <2>5, PollableSame DEF Inv
<1> QED
    BY <1>4, <1>5

LEMMA EventfdStep ==
    ASSUME Inv, Numbered, NEW t \in Threads, NEW initial \in Nat, NEW cx \in BOOLEAN,
           Eventfd(t, initial, cx)
    PROVE  Inv'
<1> DEFINE p == Proc[t]
           k == made + 1
           h == Nth(FreeHost, 0)
           w == Nth(FreeHost, 1)
           fd == AllocateFd(p)
           d == <<"r", k>>
           e == <<"w", k>>
           r == EventEntry(h, cx, k)
           F == [q \in Procs |-> [gd \in Fds |-> IF q = p /\ gd = fd THEN h ELSE Hosts[q][gd]]]
           en == [ends EXCEPT ![h] = d]
<1>0. Types /\ Sound /\ DirsKnown /\ EventsKnown /\ EventIsPollable /\ p \in Procs
    BY DescriptorsAssumption DEF Inv
<1>1. /\ made < MaxObjects /\ made' = k /\ Cardinality(FreeHost) > 1 /\ FreeIn(p) # {}
      /\ ends' = [ends EXCEPT ![h] = d, ![w] = e]
      /\ files' = [files EXCEPT ![p][fd] = r]
      /\ value' = [value EXCEPT ![k] = initial]
      /\ signalled' = [signalled EXCEPT ![k] = initial # 0]
      /\ bytes' = [bytes EXCEPT ![k] = initial # 0]
      /\ signal_write_fd' = [signal_write_fd EXCEPT ![k] = w]
      /\ UNCHANGED <<call, robbed, passed, scratch>>
    BY DEF Eventfd, EventEntry
<1>2. k \in Objects /\ Grows /\ k \in Numbers /\ k > made /\ made \in Int /\ k \in Int
    BY <1>0, <1>1, NewObject, SMT DEF Grows, Objects, Types, Numbers
<1>3. /\ h \in FreeHost /\ w \in FreeHost /\ h # w /\ h \in HostFds /\ w \in HostFds
      /\ ends[h] = NoEnd /\ ends[w] = NoEnd
    BY <1>0, <1>1, FreeFacts, LowestFree
<1>4. fd \in Fds /\ files[p][fd].host = NoHost /\ files[p][fd].scratch = NoObject
    BY <1>0, <1>1, FreeFacts, LowestFree
<1>5. d \in Ends /\ d # NoEnd /\ e \in Ends /\ e # NoEnd
    BY <1>2, EndFacts
<1>6. r \in Whole /\ r.host = h /\ r.event = k /\ r.scratch = NoObject
  <2>1. r = EventEntry(h, cx, k) /\ h \in HostFds \cup {NoHost}
        BY <1>3
  <2> HIDE DEF h, k, r
  <2> QED
        BY <1>2, <2>1, EventFile, SMT
<1>7. /\ F \in Tables
      /\ \A q \in Procs, gd \in Fds : F[q][gd] = IF q = p /\ gd = fd THEN h ELSE Hosts[q][gd]
    BY <1>0, <1>3, HostsTyped DEF Tables
<1>8. /\ ends \in [HostFds -> Ends] /\ en = [ends EXCEPT ![h] = d]
      /\ en \in [HostFds -> Ends] /\ en[w] = NoEnd /\ ends' = [en EXCEPT ![w] = e]
    BY <1>0, <1>1, <1>3, <1>5 DEF Types
<1> HIDE DEF p, k, h, w, fd, d, e, r, F, en
<1>9. /\ files' \in [Procs -> [Fds -> Whole]]
      /\ \A q \in Procs, gd \in Fds :
            files'[q][gd] = IF q = p /\ gd = fd THEN r ELSE files[q][gd]
  <2>1. Sets(p, fd, r)
        BY <1>0, <1>1, <1>4, <1>6 DEF Sets
  <2> QED
        BY <1>0, <2>1, OneSet, SMT
<1>10. Types'
  <2>1. ends' \in [HostFds -> Ends]
        BY <1>3, <1>5, <1>8
  <2>2. (initial # 0) \in BOOLEAN
        OBVIOUS
  <2>3. signalled' \in [Objects -> BOOLEAN] /\ bytes' \in [Objects -> BOOLEAN]
        BY <1>0, <1>1, <2>2 DEF Types
  <2>4. value' \in [Objects -> Nat] /\ signal_write_fd' \in [Objects -> HostFds \cup {NoHost}]
        BY <1>0, <1>1, <1>3 DEF Types
  <2> QED
        BY <1>0, <1>1, <1>2, <1>9, <2>1, <2>3, <2>4 DEF Types, Grows
<1>11. Sound'
  <2>1. Rights' = Rights
        BY <1>1 DEF Rights
  <2>2. PutIn(Hosts, ends, F, en, p, fd, h, d)
        BY <1>0, <1>3, <1>4, <1>5, <1>7, <1>8, HostsTyped DEF PutIn
  <2>3. Own(F, en, Rights) /\ Kept(F, en, Rights, signal_write_fd)
        BY <1>0, <2>2, HostsTyped, PutKeeps DEF Sound
  <2>4. signal_write_fd[k] = NoHost /\ signal_write_fd \in [Objects -> HostFds \cup {NoHost}]
        BY <1>0, <1>2 DEF EventsKnown, Types
  <2>5. GiveIn(en, signal_write_fd, ends', signal_write_fd', k, w, e)
        BY <1>1, <1>2, <1>3, <1>5, <1>8, <2>4 DEF GiveIn
  <2>6. Own(F, ends', Rights) /\ Kept(F, ends', Rights, signal_write_fd')
        BY <1>0, <1>7, <2>3, <2>5, HostsTyped, GiveKeeps
  <2>7. Hosts' = F
    <3>1. \A q \in Procs, gd \in Fds : Hosts'[q][gd] = F[q][gd]
        BY <1>0, <1>6, <1>7, <1>9, <1>10, HostsTyped, NextHostsTyped, SMT
    <3>2. Hosts' \in Tables
        BY <1>10, NextHostsTyped
    <3>3. \A q \in Procs : Hosts'[q] = F[q]
        BY <1>7, <3>1, <3>2, SMT DEF Tables
    <3> QED
        BY <1>7, <3>2, <3>3, SMT DEF Tables
  <2> QED
        BY <2>1, <2>6, <2>7 DEF Sound
<1>12. DirsKnown'
  <2>1. \A q \in Procs, gd \in Fds : files'[q][gd].scratch = files[q][gd].scratch
        BY <1>4, <1>6, <1>9
  <2> QED
        BY <1>0, <1>1, <1>2, <2>1, DirsSame DEF Grows
<1>13. EventsKnown'
  <2>0. \A j \in Objects : /\ signal_write_fd'[j] = IF j = k THEN w ELSE signal_write_fd[j]
                           /\ j # k => signalled'[j] = signalled[j]
        BY <1>0, <1>1 DEF Types
  <2>1. w # NoHost
        BY <1>3, NoHostIsNone
  <2>2. \A j \in Objects : j > made' => signal_write_fd'[j] = NoHost
    <3>1. \A j \in Objects : j > made' => j > made /\ j # k
        BY <1>1, <1>2, SMT DEF Objects
    <3> QED
        BY <1>0, <2>0, <3>1 DEF EventsKnown
  <2>3. ASSUME NEW q \in Procs, NEW gd \in Fds, files'[q][gd].event # NoObject
        PROVE  signal_write_fd'[files'[q][gd].event] # NoHost
    <3>1. files'[q][gd].event \in Objects
        BY <1>10, <2>3, SMT DEF Types, Whole, FileRecords, Numbers, Objects, NoObject
    <3>2. CASE q = p /\ gd = fd
        BY <1>2, <1>6, <1>9, <2>0, <2>1, <3>2
    <3>3. CASE ~(q = p /\ gd = fd)
      <4>1. files'[q][gd].event = files[q][gd].event
        BY <1>9, <3>3
      <4> QED
        BY <1>0, <2>0, <2>1, <2>3, <3>1, <4>1 DEF EventsKnown
    <3> QED
        BY <3>2, <3>3
  <2>4. \A j \in Objects : signalled'[j] => signal_write_fd'[j] # NoHost
        BY <1>0, <2>0, <2>1 DEF EventsKnown
  <2> QED
        BY <2>2, <2>3, <2>4 DEF EventsKnown
<1>14. EventIsPollable'
  <2> SUFFICES ASSUME NEW j \in Objects
               PROVE  /\ value'[j] # 0 => signalled'[j]
                      /\ signalled'[j] => bytes'[j] \/ j \in robbed'
        BY DEF EventIsPollable
  <2>1. CASE j = k
    <3>1. value'[j] = initial /\ signalled'[j] = (initial # 0) /\ bytes'[j] = (initial # 0)
        BY <1>0, <1>1, <1>2, <2>1 DEF Types
    <3> QED
        BY <3>1
  <2>2. CASE j # k
    <3>1. /\ value'[j] = value[j] /\ signalled'[j] = signalled[j] /\ bytes'[j] = bytes[j]
          /\ robbed' = robbed
        BY <1>0, <1>1, <2>2 DEF Types
    <3> QED
        BY <1>0, <3>1 DEF EventIsPollable
  <2> QED
        BY <2>1, <2>2
<1> QED
    BY <1>10, <1>11, <1>12, <1>13, <1>14 DEF Inv

-----------------------------------------------------------------------------
(* fork.                                                                    *)

LEMMA InheritedFacts ==
    ASSUME NEW s \in Whole, s.open, NEW h \in HostFds
    PROVE  LET r == [s EXCEPT !.host = h, !.scratch = NoObject]
           IN  r \in Whole /\ r.host = h /\ r.scratch = NoObject /\ r.event = s.event
<1>1. NoObject \in Numbers
    BY DescriptorsAssumption, SMT DEF NoObject, Numbers
<1> QED
    BY <1>1 DEF Whole, FileRecords

LEMMA ForkStep ==
    ASSUME Inv, Numbered, NEW t \in Threads, NEW child \in Procs, Fork(t, child)
    PROVE  Inv'
<1> DEFINE p == Proc[t]
           hosted == {fd \in OpenIn(p) : files[p][fd].host # NoHost}
           Place(fd) == Cardinality({f \in hosted : f < fd})
           Gets(fd) == Place(fd) < Cardinality(FreeHost)
           HostOf(fd) == Nth(FreeHost, Place(fd))
           Copy(fd) == [files[p][fd] EXCEPT !.host = HostOf(fd), !.scratch = NoObject]
<1>0. Types /\ Sound /\ DirsKnown /\ EventsKnown /\ EventIsPollable /\ p \in Procs
    BY DescriptorsAssumption DEF Inv
<1>1. /\ child \notin alive /\ p \in alive /\ OpenIn(child) = {}
      /\ files' = [files EXCEPT ![child] =
              [fd \in Fds |-> CASE fd \in hosted /\ Gets(fd) -> Copy(fd)
                                [] fd \in hosted /\ ~Gets(fd) -> NoFile
                                [] OTHER -> files[p][fd]]]
      /\ ends' = [h \in HostFds |->
              IF \E fd \in hosted : Gets(fd) /\ h = HostOf(fd)
              THEN ends[files[p][CHOOSE fd \in hosted : Gets(fd) /\ h = HostOf(fd)].host]
              ELSE ends[h]]
      /\ UNCHANGED <<bytes, value, signalled, signal_write_fd, made, call, robbed, passed, scratch>>
    BY DEF Fork, Ready, objects
<1>2. \A fd \in hosted : /\ fd \in Fds /\ files[p][fd] \in Whole /\ files[p][fd].open
                         /\ files[p][fd].host \in HostFds
    BY <1>0, SMT DEF OpenIn, Types, Whole, FileRecords
<1>3. \A fd \in hosted : /\ Gets(fd) => HostOf(fd) \in FreeHost
                         /\ \A gd \in hosted : Gets(fd) /\ Gets(gd) /\ HostOf(gd) = HostOf(fd) => gd = fd
  <2>1. hosted \in SUBSET (0..MaxFd) /\ FreeHost \in SUBSET (0..MaxHost)
        BY DEF OpenIn, Fds, FreeHost, HostFds
  <2>a. MaxFd \in Nat /\ MaxHost \in Nat
        BY DescriptorsAssumption
  <2> HIDE DEF hosted
  <2>2. /\ \A a \in hosted : Place(a) \in Nat
        /\ \A a, b \in hosted : Place(a) = Place(b) => a = b
        BY <2>1, <2>a DEF Numbered
  <2>3. /\ \A n \in Nat : n < Cardinality(FreeHost) => Nth(FreeHost, n) \in FreeHost
        /\ \A m, n \in Nat : m < Cardinality(FreeHost) /\ n < Cardinality(FreeHost)
                             /\ Nth(FreeHost, m) = Nth(FreeHost, n) => m = n
        BY <2>1, <2>a DEF Numbered
  <2> HIDE DEF Place
  <2> QED
        BY <2>2, <2>3
<1>4. \A fd \in hosted : ends[files[p][fd].host] \in Ends /\ ends[files[p][fd].host] # NoEnd
  <2>1. \A fd \in hosted : Hosts[p][fd] = files[p][fd].host /\ Hosts[p][fd] # NoHost
        BY <1>0, <1>2, HostsTyped
  <2>2. \A fd \in hosted : ends[Hosts[p][fd]] # NoEnd
        BY <1>0, <1>2, <2>1, SMT DEF Sound, Own
  <2> QED
        BY <1>0, <1>2, <2>1, <2>2 DEF Types
<1> HIDE DEF p, Gets, HostOf
<1>5. ASSUME NEW fd \in hosted, Gets(fd)
      PROVE  /\ HostOf(fd) \in HostFds /\ ends[HostOf(fd)] = NoEnd
             /\ Copy(fd) \in Whole /\ Copy(fd).host = HostOf(fd)
             /\ Copy(fd).scratch = NoObject /\ Copy(fd).event = files[p][fd].event
  <2>1. HostOf(fd) \in HostFds /\ ends[HostOf(fd)] = NoEnd
        BY <1>0, <1>3, <1>5, FreeFacts, LowestFree
  <2> QED
        BY <1>2, <2>1, InheritedFacts
<1>6. ASSUME NEW fd \in Fds, fd \notin hosted
      PROVE  /\ files[p][fd] \in Whole /\ files[p][fd].host = NoHost
             /\ files[p][fd].scratch = NoObject
    BY <1>0, <1>6, SMT DEF OpenIn, Types, Whole
<1> HIDE DEF hosted, Copy
<1>7. \A q \in Procs, gd \in Fds :
            files'[q][gd] = IF q # child THEN files[q][gd]
                            ELSE IF gd \notin hosted THEN files[p][gd]
                            ELSE IF Gets(gd) THEN Copy(gd) ELSE NoFile
    BY <1>0, <1>1 DEF Types
<1>8. files' \in [Procs -> [Fds -> Whole]]
  <2>1. \A gd \in Fds : (IF gd \notin hosted THEN files[p][gd]
                         ELSE IF Gets(gd) THEN Copy(gd) ELSE NoFile) \in Whole
        BY <1>5, <1>6, EmptyFile
  <2>2. files' = [files EXCEPT ![child] =
              [gd \in Fds |-> IF gd \notin hosted THEN files[p][gd]
                              ELSE IF Gets(gd) THEN Copy(gd) ELSE NoFile]]
        BY <1>1
  <2>3. [gd \in Fds |-> IF gd \notin hosted THEN files[p][gd]
                        ELSE IF Gets(gd) THEN Copy(gd) ELSE NoFile] \in [Fds -> Whole]
        BY <2>1
  <2> QED
        BY <1>0, <2>2, <2>3 DEF Types
<1>9. /\ ends' \in [HostFds -> Ends]
      /\ \A fd \in hosted : Gets(fd) => ends'[HostOf(fd)] # NoEnd
      /\ \A h \in HostFds : ends'[h] # ends[h] => \E fd \in hosted : Gets(fd) /\ h = HostOf(fd)
  <2> DEFINE From(h) == CHOOSE fd \in hosted : Gets(fd) /\ h = HostOf(fd)
  <2>1. ASSUME NEW h, \E fd \in hosted : Gets(fd) /\ h = HostOf(fd)
        PROVE  From(h) \in hosted
        BY <2>1
  <2>2. ends' = [h \in HostFds |->
              IF \E fd \in hosted : Gets(fd) /\ h = HostOf(fd)
              THEN ends[files[p][From(h)].host] ELSE ends[h]]
        BY <1>1
  <2> HIDE DEF From
  <2>3. ends' \in [HostFds -> Ends]
        BY <1>0, <1>4, <2>1, <2>2 DEF Types
  <2>4. ASSUME NEW fd \in hosted, Gets(fd) PROVE ends'[HostOf(fd)] # NoEnd
    <3>1. HostOf(fd) \in HostFds /\ From(HostOf(fd)) \in hosted
        BY <1>5, <2>1, <2>4
    <3>2. ends'[HostOf(fd)] = ends[files[p][From(HostOf(fd))].host]
        BY <2>2, <2>4, <3>1
    <3> QED
        BY <1>4, <3>1, <3>2
  <2>5. \A h \in HostFds : ends'[h] # ends[h] => \E fd \in hosted : Gets(fd) /\ h = HostOf(fd)
        BY <2>2
  <2> QED
        BY <2>3, <2>4, <2>5
<1>10. Types'
    BY <1>0, <1>1, <1>8, <1>9 DEF Types
<1>11. Sound'
  <2>1. Rights' = Rights /\ ends \in [HostFds -> Ends] /\ signal_write_fd' = signal_write_fd
        BY <1>0, <1>1 DEF Rights, Types
  <2>2. \A fd \in Fds : Hosts[child][fd] = NoHost
    <3>1. \A fd \in Fds : files[child][fd] \in Whole /\ ~files[child][fd].open
        BY <1>0, <1>1 DEF OpenIn, Types
    <3> QED
        BY <1>0, <3>1, HostsTyped, SMT DEF Whole
  <2>3. \A q \in Procs \ {child}, fd \in Fds : Hosts'[q][fd] = Hosts[q][fd]
        BY <1>0, <1>7, <1>10, HostsTyped, NextHostsTyped, SMT
  <2>4. \A fd \in Fds : Hosts'[child][fd] = IF fd \in hosted /\ Gets(fd) THEN HostOf(fd) ELSE NoHost
        BY <1>5, <1>6, <1>7, <1>10, EmptyFile, NextHostsTyped
  <2>5. ASSUME NEW fd \in Fds, Hosts'[child][fd] # NoHost
        PROVE  /\ ends[Hosts'[child][fd]] = NoEnd /\ ends'[Hosts'[child][fd]] # NoEnd
               /\ \A gd \in Fds : Hosts'[child][gd] = Hosts'[child][fd] => gd = fd
    <3>1. fd \in hosted /\ Gets(fd) /\ Hosts'[child][fd] = HostOf(fd)
        BY <2>4, <2>5
    <3>2. \A gd \in Fds : Hosts'[child][gd] = Hosts'[child][fd] =>
                                gd \in hosted /\ Gets(gd) /\ HostOf(gd) = HostOf(fd)
        BY <2>4, <2>5, <3>1
    <3> QED
        BY <1>3, <1>5, <1>9, <3>1, <3>2
  <2>6. \A h \in HostFds : ends'[h] # ends[h] => \E fd \in Fds : Hosts'[child][fd] = h
        BY <1>2, <1>9, <2>4
  <2>7. InheritIn(Hosts, ends, Hosts', ends', child)
        BY <1>0, <1>9, <1>10, <2>1, <2>2, <2>3, <2>5, <2>6, HostsTyped, NextHostsTyped
        DEF InheritIn
  <2>8. Own(Hosts', ends', Rights) /\ Kept(Hosts', ends', Rights, signal_write_fd)
        BY <1>0, <2>7, HostsTyped, InheritKeeps DEF Sound
  <2> QED
        BY <2>1, <2>8 DEF Sound
<1>12. made' = made /\ made' \in Numbers /\ made <= made'
    BY <1>0, <1>1, SMT DEF Types, Numbers
<1>13. DirsKnown'
  <2>1. \A gd \in Fds : files[child][gd].scratch = NoObject
        BY <1>0, <1>1, SMT DEF OpenIn, Types, Whole
  <2>2. \A gd \in Fds : files'[child][gd].scratch = NoObject
        BY <1>5, <1>6, <1>7, EmptyFile
  <2>3. \A q \in Procs, gd \in Fds : files'[q][gd].scratch = files[q][gd].scratch
        BY <1>7, <2>1, <2>2
  <2> QED
        BY <1>0, <1>1, <1>12, <2>3, DirsSame
<1>14. EventsKnown'
  <2>1. \A q \in Procs, gd \in Fds :
            \/ files'[q][gd].event = NoObject
            \/ \E s \in Procs, id \in Fds : files'[q][gd].event = files[s][id].event
        BY <1>0, <1>2, <1>5, <1>7, EmptyFile, SMT
  <2> QED
        BY <1>0, <1>1, <1>12, <2>1, EventsSame
<1> QED
    BY <1>0, <1>1, <1>10, <1>11, <1>13, <1>14, PollableSame DEF Inv

-----------------------------------------------------------------------------
(* Calls in two steps, and what they read and write.                        *)

LEMMA IdleCall == Idle \in CallRecords /\ Idle.op = "none"
<1>1. NoObject \in Numbers /\ 0 \in Fds /\ NoHost \in HostFds \cup {NoHost}
    BY DescriptorsAssumption, SMT DEF NoObject, Numbers, Fds
<1> QED
    BY <1>1 DEF Idle, CallRecords, Ops

\* One thread's call moves on, and neither had nor has received anything.
Moves(t, c) ==
    /\ t \in Threads /\ c \in CallRecords /\ c.op # "received" /\ call[t].op # "received"
    /\ call' = [call EXCEPT ![t] = c]

LEMMA MovesKeeps ==
    ASSUME Inv, call' = call \/ \E t, c : Moves(t, c),
           UNCHANGED <<files, ends, signal_write_fd, made, scratch>>
    PROVE  call' \in [Threads -> CallRecords] /\ Sound' /\ DirsKnown'
<1>0. Types /\ Sound /\ DirsKnown
    BY DEF Inv
<1>1. call' \in [Threads -> CallRecords]
    BY <1>0 DEF Types, Moves
<1>2. \A u \in Threads : (IF call'[u].op = "received" THEN call'[u].rights ELSE NoHost)
                         = (IF call[u].op = "received" THEN call[u].rights ELSE NoHost)
    BY <1>0 DEF Types, Moves
<1>3. Rights' = Rights /\ Hosts' = Hosts
    BY <1>2 DEF Rights, Hosts
<1>4. Sound'
    BY <1>0, <1>3 DEF Sound
<1>5. DirsKnown'
  <2>1. made' \in Numbers /\ made <= made'
        BY <1>0, SMT DEF Types, Numbers
  <2> QED
        BY <1>0, <2>1, DirsSame
<1> QED
    BY <1>1, <1>4, <1>5

LEMMA CallStep ==
    ASSUME Inv, NEW t, NEW c, Moves(t, c),
           UNCHANGED <<files, ends, bytes, value, signalled, signal_write_fd, made, robbed, scratch>>,
           passed' \in [Objects -> [Sides -> Ends]]
    PROVE  Inv'
<1>0. Types /\ EventsKnown /\ EventIsPollable
    BY DEF Inv
<1>1. call' \in [Threads -> CallRecords] /\ Sound' /\ DirsKnown'
    BY MovesKeeps
<1>2. Types'
    BY <1>0, <1>1 DEF Types
<1>3. EventsKnown'
    BY <1>0 DEF EventsKnown
<1> QED
    BY <1>0, <1>1, <1>2, <1>3, PollableSame DEF Inv

\* The call returns.
LEMMA ReturnMoves ==
    ASSUME NEW t \in Threads, Return(t), call[t].op # "received"
    PROVE  Moves(t, Idle)
    BY IdleCall DEF Moves, Return

\* The second step of a call that changes nothing in the tables.
LEMMA ReturnStep ==
    ASSUME Inv, NEW t \in Threads,
           \/ ReadNothing(t) \/ WriteNothing(t) \/ SendNothing(t) \/ RecvNothing(t)
           \/ CtlAdd(t) \/ CtlDel(t)
    PROVE  Inv'
<1>0. Types
    BY DEF Inv
<1>1. /\ Return(t) /\ call[t].op # "received"
      /\ UNCHANGED <<files, ends, bytes, value, signalled, signal_write_fd, made, robbed, scratch>>
    BY DEF ReadNothing, WriteNothing, SendNothing, RecvNothing, CtlAdd, CtlDel, objects
<1>2. NoEnd \in Ends
    BY DEF Ends
<1>3. passed' \in [Objects -> [Sides -> Ends]]
  <2>1. CASE UNCHANGED passed
        BY <1>0, <2>1 DEF Types
  <2>2. CASE ~UNCHANGED passed
    <3>1. RecvNothing(t)
        BY <2>2 DEF ReadNothing, WriteNothing, SendNothing, CtlAdd, CtlDel
    <3>2. PICK side \in Sides, k \in Objects : passed' = [passed EXCEPT ![k][side] = NoEnd]
        BY <2>2, <3>1 DEF RecvNothing
    <3> QED
        BY <1>0, <1>2, <3>2 DEF Types
  <2> QED
        BY <2>1, <2>2
<1> QED
    BY <1>1, <1>3, ReturnMoves, CallStep

\* The first step of a call: the lookup.
LEMMA LookupStep ==
    ASSUME Inv, NEW t \in Threads, NEW fd \in Fds,
           \/ Find(t, "read", fd) \/ Find(t, "write", fd)
           \/ MessageFind(t, "send", fd) \/ MessageFind(t, "recv", fd)
           \/ \E ef \in Fds : CtlFind(t, ef, fd)
           \/ SendTranslate(t, fd)
    PROVE  Inv'
<1> DEFINE p == Proc[t]
<1>0. Types /\ p \in Procs
    BY DescriptorsAssumption DEF Inv
<1>1. /\ UNCHANGED <<files, ends, bytes, value, signalled, signal_write_fd, made, robbed, scratch,
                     passed>>
      /\ call[t].op # "received"
    BY IdleCall DEF Find, MessageFind, CtlFind, SendTranslate, Ready, objects
<1>2. \A f \in Fds : files[p][f].host \in HostFds \cup {NoHost} /\ files[p][f].epoll \in Numbers
    BY <1>0 DEF Types, Whole, FileRecords
<1>3. PICK c : c \in CallRecords /\ c.op # "received" /\ call' = [call EXCEPT ![t] = c]
  <2>1. CASE \E o \in {"read", "write"} : Find(t, o, fd)
    <3>1. PICK o \in {"read", "write"} : Find(t, o, fd)
        BY <2>1
    <3>2. o \in Ops /\ o # "received" /\ files[p][fd].host \in HostFds \cup {NoHost}
        BY <1>2 DEF Ops
    <3> DEFINE d == [Idle EXCEPT !.op = o, !.host = files[p][fd].host]
    <3>3. call' = [call EXCEPT ![t] = d]
        BY <3>1 DEF Find
    <3>4. d \in CallRecords /\ d.op = o
        BY <3>2, IdleCall DEF CallRecords
    <3> HIDE DEF d
    <3> QED
        BY <3>2, <3>3, <3>4
  <2>2. CASE \E o \in {"send", "recv"} : MessageFind(t, o, fd)
    <3>1. PICK o \in {"send", "recv"} : MessageFind(t, o, fd)
        BY <2>2
    <3>2. o \in Ops /\ o # "received" /\ files[p][fd].host \in HostFds \cup {NoHost}
        BY <1>2 DEF Ops
    <3> DEFINE d == [Idle EXCEPT !.op = o, !.host = files[p][fd].host]
    <3>3. call' = [call EXCEPT ![t] = d]
        BY <3>1 DEF MessageFind, HostFdFor
    <3>4. d \in CallRecords /\ d.op = o
        BY <3>2, IdleCall DEF CallRecords
    <3> HIDE DEF d
    <3> QED
        BY <3>2, <3>3, <3>4
  <2>3. CASE \E ef \in Fds : CtlFind(t, ef, fd)
    <3>1. PICK ef \in Fds : CtlFind(t, ef, fd)
        BY <2>3
    <3>2. "ctl" \in Ops /\ files[p][ef].epoll \in Numbers
        BY <1>2 DEF Ops
    <3> DEFINE d == [Idle EXCEPT !.op = "ctl", !.fd = fd, !.set = files[p][ef].epoll]
    <3>3. call' = [call EXCEPT ![t] = d]
        BY <3>1 DEF CtlFind
    <3>4. d \in CallRecords /\ d.op = "ctl"
        BY <3>2, IdleCall DEF CallRecords
    <3> HIDE DEF d
    <3> QED
        BY <3>3, <3>4
  <2>4. CASE SendTranslate(t, fd)
    <3> DEFINE d == [call[t] EXCEPT !.op = "sending", !.rights = files[p][fd].host]
    <3>1. call[t] \in CallRecords /\ call \in [Threads -> CallRecords]
        BY <1>0 DEF Types
    <3>2. call' = [call EXCEPT ![t] = d]
        BY <2>4, <3>1 DEF SendTranslate, HostFdFor
    <3>3. d \in CallRecords /\ d.op = "sending"
        BY <1>2, <3>1 DEF CallRecords, Ops
    <3> HIDE DEF d
    <3> QED
        BY <3>2, <3>3
  <2> QED
        BY <2>1, <2>2, <2>3, <2>4
<1>4. Moves(t, c)
    BY <1>1, <1>3 DEF Moves
<1>5. passed' \in [Objects -> [Sides -> Ends]]
    BY <1>0, <1>1 DEF Types
<1> QED
    BY <1>1, <1>4, <1>5, CallStep

LEMMA SendRightsStep ==
    ASSUME Inv, NEW t \in Threads, NEW side \in Sides, NEW k \in Objects, SendRights(t, side, k)
    PROVE  Inv'
<1>0. Types
    BY DEF Inv
<1>1. /\ Return(t) /\ call[t].op # "received"
      /\ UNCHANGED <<files, ends, bytes, value, signalled, signal_write_fd, made, robbed, scratch>>
    BY DEF SendRights, objects
<1>2. passed' \in [Objects -> [Sides -> Ends]]
  <2>1. call[t].rights \in HostFds
        BY <1>0 DEF Types, CallRecords, SendRights
  <2>2. ends[call[t].rights] \in Ends /\ Other(side) \in Sides
        BY <1>0, <2>1 DEF Types, Other, Sides
  <2> QED
        BY <1>0, <2>2 DEF Types, SendRights
<1> QED
    BY <1>1, <1>2, ReturnMoves, CallStep

LEMMA ReadByteStep ==
    ASSUME Inv, NEW t \in Threads, NEW k \in Objects, ReadByte(t, k)
    PROVE  Inv'
<1>0. Types /\ EventsKnown /\ EventIsPollable
    BY DEF Inv
<1>1. /\ bytes' = [bytes EXCEPT ![k] = FALSE]
      /\ robbed' = IF signal_write_fd[k] # NoHost THEN robbed \cup {k} ELSE robbed
      /\ UNCHANGED <<files, ends, value, signalled, signal_write_fd, made, passed, scratch>>
      /\ Return(t) /\ call[t].op # "received"
    BY DEF ReadByte
<1>2. call' \in [Threads -> CallRecords] /\ Sound' /\ DirsKnown'
    BY <1>1, ReturnMoves, MovesKeeps
<1>3. Types'
    BY <1>0, <1>1, <1>2 DEF Types
<1>4. EventsKnown'
    BY <1>0, <1>1 DEF EventsKnown
<1>5. EventIsPollable'
  <2>1. \A j \in Objects : j # k => bytes'[j] = bytes[j]
        BY <1>0, <1>1 DEF Types
  <2>2. signalled[k] => k \in robbed'
        BY <1>0, <1>1 DEF EventsKnown
  <2>3. robbed \subseteq robbed'
        BY <1>1
  <2> QED
        BY <1>0, <1>1, <2>1, <2>2, <2>3 DEF EventIsPollable
<1> QED
    BY <1>2, <1>3, <1>4, <1>5 DEF Inv

LEMMA WriteByteStep ==
    ASSUME Inv, NEW t \in Threads, NEW k \in Objects, WriteByte(t, k)
    PROVE  Inv'
<1>0. Types /\ EventsKnown /\ EventIsPollable
    BY DEF Inv
<1>1. /\ bytes' = [bytes EXCEPT ![k] = TRUE]
      /\ UNCHANGED <<files, ends, value, signalled, signal_write_fd, made, passed, scratch, robbed>>
      /\ Return(t) /\ call[t].op # "received"
    BY DEF WriteByte
<1>2. call' \in [Threads -> CallRecords] /\ Sound' /\ DirsKnown'
    BY <1>1, ReturnMoves, MovesKeeps
<1>3. Types'
    BY <1>0, <1>1, <1>2 DEF Types
<1>4. EventsKnown'
    BY <1>0, <1>1 DEF EventsKnown
<1>5. EventIsPollable'
  <2>1. \A j \in Objects : bytes[j] => bytes'[j]
        BY <1>0, <1>1 DEF Types
  <2> QED
        BY <1>0, <1>1, <2>1 DEF EventIsPollable
<1> QED
    BY <1>2, <1>3, <1>4, <1>5 DEF Inv

LEMMA EventReadStep ==
    ASSUME Inv, NEW t \in Threads, NEW fd \in Fds, NEW take, EventRead(t, fd, take)
    PROVE  Inv'
<1> DEFINE k == files[Proc[t]][fd].event
           c == [call[t] EXCEPT !.op = "holding"]
<1>0. Types /\ EventsKnown /\ EventIsPollable /\ Proc[t] \in Procs
    BY DescriptorsAssumption DEF Inv
<1>1. k \in Objects
  <2>1. k \in Numbers
        BY <1>0 DEF Types, Whole, FileRecords
  <2>2. k # NoObject
        BY DEF EventRead
  <2> QED
        BY <2>1, <2>2, SMT DEF Numbers, Objects, NoObject
<1>2. /\ value' = [value EXCEPT ![k] = @ - take] /\ take \in Takes(k) /\ call[t] = Idle
      /\ UNCHANGED <<files, ends, signal_write_fd, made, robbed, passed, scratch>>
    BY DEF EventRead, Ready
<1>3. \/ UNCHANGED <<bytes, signalled, call>> /\ (take # value[k] \/ ~signalled[k])
      \/ /\ take = value[k] /\ UNCHANGED call /\ signalled' = [signalled EXCEPT ![k] = FALSE]
         /\ bytes' = [bytes EXCEPT ![k] = FALSE] \/ UNCHANGED bytes
      \/ take = value[k] /\ call' = [call EXCEPT ![t] = c] /\ UNCHANGED <<bytes, signalled>>
  <2>1. call' = [call EXCEPT ![t].op = "holding"] => call' = [call EXCEPT ![t] = c]
        BY <1>0 DEF Types
  <2> QED
        BY <2>1 DEF EventRead, ClearSignal
<1>4. Moves(t, c) \/ call' = call
  <2>1. c \in CallRecords /\ c.op = "holding"
        BY <1>2, IdleCall DEF CallRecords, Ops
  <2>2. call[t].op # "received"
        BY <1>2, IdleCall
  <2> HIDE DEF c
  <2> QED
        BY <1>3, <2>1, <2>2 DEF Moves
<1> HIDE DEF k, c
<1>5. call' \in [Threads -> CallRecords] /\ Sound' /\ DirsKnown'
    BY <1>2, <1>4, MovesKeeps
<1>6. /\ value[k] \in Nat /\ value[k] # 0 /\ take \in {1, value[k]}
    BY <1>0, <1>1, <1>2 DEF Types, Takes
<1>7. value' \in [Objects -> Nat] /\ value'[k] = value[k] - take
  <2>1. value[k] - take \in Nat
        BY <1>6, SMT
  <2> QED
        BY <1>0, <1>1, <1>2, <2>1 DEF Types
<1>8. /\ \A j \in Objects \ {k} : /\ value'[j] = value[j] /\ signalled'[j] = signalled[j]
                                  /\ bytes'[j] = bytes[j]
      /\ bytes' \in [Objects -> BOOLEAN] /\ signalled' \in [Objects -> BOOLEAN]
  <2>1. signalled' = signalled \/ signalled' = [signalled EXCEPT ![k] = FALSE]
        BY <1>3
  <2>2. bytes' = bytes \/ bytes' = [bytes EXCEPT ![k] = FALSE]
        BY <1>3
  <2>3. \A j \in Objects \ {k} : signalled'[j] = signalled[j] /\ bytes'[j] = bytes[j]
        BY <1>0, <2>1, <2>2 DEF Types
  <2>4. bytes' \in [Objects -> BOOLEAN] /\ signalled' \in [Objects -> BOOLEAN]
        BY <1>0, <2>1, <2>2 DEF Types
  <2>5. \A j \in Objects \ {k} : value'[j] = value[j]
        BY <1>0, <1>2 DEF Types
  <2> QED
        BY <2>3, <2>4, <2>5
<1>9. Types'
    BY <1>0, <1>2, <1>5, <1>7, <1>8 DEF Types
<1>10. /\ signalled'[k] => signalled[k] /\ bytes'[k] = bytes[k]
       /\ value'[k] # 0 => signalled'[k]
  <2>1. signalled[k]
        BY <1>0, <1>1, <1>6 DEF EventIsPollable
  <2>2. take = value[k] => value'[k] = 0
        BY <1>6, <1>7, SMT
  <2>3. signalled' = [signalled EXCEPT ![k] = FALSE] => ~signalled'[k]
        BY <1>0, <1>1 DEF Types
  <2> QED
        BY <1>3, <2>1, <2>2, <2>3
<1>11. EventsKnown'
    BY <1>0, <1>1, <1>2, <1>8, <1>10 DEF EventsKnown
<1>12. EventIsPollable'
    BY <1>0, <1>1, <1>2, <1>8, <1>10 DEF EventIsPollable
<1> QED
    BY <1>5, <1>9, <1>11, <1>12 DEF Inv

LEMMA EventWriteStep ==
    ASSUME Inv, NEW t \in Threads, NEW fd \in Fds, NEW n \in Nat, EventWrite(t, fd, n)
    PROVE  Inv'
<1> DEFINE k == files[Proc[t]][fd].event
           sum == (value[k] + n) % (MaxValue + 1)
<1>0. Types /\ EventsKnown /\ EventIsPollable /\ Proc[t] \in Procs
    BY DescriptorsAssumption DEF Inv
<1>1. k \in Objects /\ signal_write_fd[k] # NoHost
  <2>1. k \in Numbers
        BY <1>0 DEF Types, Whole, FileRecords
  <2>2. k # NoObject
        BY DEF EventWrite
  <2> QED
        BY <1>0, <2>1, <2>2, SMT DEF Numbers, Objects, NoObject, EventsKnown
<1>2. /\ value' = [value EXCEPT ![k] = sum]
      /\ signalled' = [signalled EXCEPT ![k] = signalled[k] \/ sum # 0]
      /\ bytes' = [bytes EXCEPT ![k] = bytes[k] \/ (sum # 0 /\ ~signalled[k])]
      /\ UNCHANGED <<files, ends, signal_write_fd, made, call, robbed, passed, scratch>>
    BY DEF EventWrite
<1>3. sum \in Nat
  <2>1. value[k] \in Nat /\ MaxValue + 1 \in Nat /\ MaxValue + 1 > 0
        BY <1>0, <1>1, DescriptorsAssumption, SMT DEF Types
  <2> HIDE DEF k
  <2> QED
        BY <2>1, SMT
<1> HIDE DEF k, sum
<1>4. call' \in [Threads -> CallRecords] /\ Sound' /\ DirsKnown'
    BY <1>2, MovesKeeps
<1>5. value' \in [Objects -> Nat] /\ value'[k] = sum
    BY <1>0, <1>1, <1>2, <1>3 DEF Types
<1>6. /\ signalled' \in [Objects -> BOOLEAN]
      /\ signalled'[k] = (signalled[k] \/ sum # 0)
  <2>1. (signalled[k] \/ sum # 0) \in BOOLEAN
        OBVIOUS
  <2> QED
        BY <1>0, <1>1, <1>2, <2>1 DEF Types
<1>7. /\ bytes' \in [Objects -> BOOLEAN]
      /\ bytes'[k] = (bytes[k] \/ (sum # 0 /\ ~signalled[k]))
  <2>1. (bytes[k] \/ (sum # 0 /\ ~signalled[k])) \in BOOLEAN
        OBVIOUS
  <2> QED
        BY <1>0, <1>1, <1>2, <2>1 DEF Types
<1>8. \A j \in Objects \ {k} : /\ value'[j] = value[j] /\ signalled'[j] = signalled[j]
                               /\ bytes'[j] = bytes[j]
    BY <1>0, <1>2 DEF Types
<1>9. Types'
    BY <1>0, <1>2, <1>4, <1>5, <1>6, <1>7 DEF Types
<1>10. EventsKnown'
    BY <1>0, <1>1, <1>2, <1>8 DEF EventsKnown
<1>11. EventIsPollable'
  <2>1. value'[k] # 0 => signalled'[k]
        BY <1>5, <1>6
  <2>2. signalled'[k] => bytes'[k] \/ k \in robbed
        BY <1>0, <1>1, <1>6, <1>7 DEF EventIsPollable
  <2>3. robbed' = robbed
        BY <1>2
  <2> QED
        BY <1>0, <1>8, <2>1, <2>2, <2>3 DEF EventIsPollable
<1> QED
    BY <1>4, <1>9, <1>10, <1>11 DEF Inv

-----------------------------------------------------------------------------
(* recvmsg.                                                                 *)

LEMMA RecvRightsStep ==
    ASSUME Inv, Numbered, NEW t \in Threads, NEW side \in Sides, NEW k \in Objects, RecvRights(t, side, k)
    PROVE  Inv'
<1> DEFINE h == Nth(FreeHost, 0)
           e == passed[k][side]
           c == [call[t] EXCEPT !.op = "received", !.rights = h]
<1>0. Types /\ Sound /\ DirsKnown /\ EventsKnown /\ EventIsPollable
    BY DEF Inv
<1>1. /\ FreeHost # {} /\ e # NoEnd /\ call[t].op = "recv"
      /\ ends' = [ends EXCEPT ![h] = e] /\ passed' = [passed EXCEPT ![k][side] = NoEnd]
      /\ UNCHANGED <<files, bytes, value, signalled, signal_write_fd, made, robbed, scratch>>
    BY DEF RecvRights, objects
<1>2. call' = [call EXCEPT ![t] = c]
    BY <1>0 DEF RecvRights, Types
<1>3. h \in HostFds /\ ends[h] = NoEnd /\ e \in Ends /\ ends \in [HostFds -> Ends] /\ NoEnd \in Ends
    BY <1>0, <1>1, FreeFacts, LowestFree, SMT DEF Types, Ends
<1>4. c \in CallRecords /\ c.op = "received" /\ c.rights = h
  <2>1. call[t] \in CallRecords
        BY <1>0 DEF Types
  <2> HIDE DEF h
  <2> QED
        BY <1>3, <2>1 DEF CallRecords, Ops
<1> HIDE DEF h, e, c
<1>5. Types'
  <2>1. call' \in [Threads -> CallRecords] /\ ends' \in [HostFds -> Ends]
        BY <1>0, <1>1, <1>2, <1>3, <1>4 DEF Types
  <2>2. passed' \in [Objects -> [Sides -> Ends]]
        BY <1>0, <1>1, <1>3 DEF Types
  <2> QED
        BY <1>0, <1>1, <2>1, <2>2 DEF Types
<1>6. Sound'
  <2>1. Hosts' = Hosts /\ signal_write_fd' = signal_write_fd
        BY <1>1 DEF Hosts
  <2>2. Rights[t] = NoHost
        BY <1>1 DEF Rights
  <2>3. Rights' = [Rights EXCEPT ![t] = h]
    <3>1. \A u \in Threads : call'[u] = IF u = t THEN c ELSE call[u]
        BY <1>0, <1>2 DEF Types
    <3>2. Rights' = [u \in Threads |-> IF call'[u].op = "received" THEN call'[u].rights ELSE NoHost]
        BY DEF Rights
    <3> QED
        BY <1>4, <3>1, <3>2 DEF Rights
  <2>4. ReceiveIn(ends, Rights, ends', Rights', t, h, e)
        BY <1>1, <1>3, <2>2, <2>3 DEF ReceiveIn
  <2>5. Own(Hosts, ends', Rights') /\ Kept(Hosts, ends', Rights', signal_write_fd)
        BY <1>0, <2>4, HostsTyped, ReceiveKeeps DEF Sound
  <2> QED
        BY <2>1, <2>5 DEF Sound
<1>7. DirsKnown'
  <2>1. made' \in Numbers /\ made <= made'
        BY <1>0, <1>1, SMT DEF Types, Numbers
  <2> QED
        BY <1>0, <1>1, <2>1, DirsSame
<1>8. EventsKnown'
    BY <1>0, <1>1 DEF EventsKnown
<1> QED
    BY <1>0, <1>1, <1>5, <1>6, <1>7, <1>8, PollableSame DEF Inv

LEMMA RecvRegisterStep ==
    ASSUME Inv, Numbered, NEW t \in Threads, RecvRegister(t)
    PROVE  Inv'
<1> DEFINE p == Proc[t]
           fd == AllocateFd(p)
           h == call[t].rights
           r == File(h, FALSE)
<1>0. Types /\ Sound /\ DirsKnown /\ EventsKnown /\ EventIsPollable /\ p \in Procs
    BY DescriptorsAssumption DEF Inv
<1>1. /\ FreeIn(p) # {} /\ call[t].op = "received"
      /\ files' = [files EXCEPT ![p][fd] = r] /\ call' = [call EXCEPT ![t] = Idle]
      /\ UNCHANGED <<ends, bytes, value, signalled, signal_write_fd, made, robbed, passed, scratch>>
    BY DEF RecvRegister, Return, objects
<1>2. fd \in Fds /\ files[p][fd].host = NoHost /\ files[p][fd].scratch = NoObject
    BY <1>0, <1>1, FreeFacts, LowestFree
<1>3. h \in HostFds \cup {NoHost} /\ Rights[t] = h
    BY <1>0, <1>1 DEF Types, CallRecords, Rights
<1>4. r \in Whole /\ r.host = h /\ r.event = NoObject /\ r.scratch = NoObject
  <2> HIDE DEF h, r
  <2>1. \A cx \in BOOLEAN : /\ File(h, cx) \in Whole /\ File(h, cx).host = h
                            /\ File(h, cx).event = NoObject /\ File(h, cx).scratch = NoObject
        BY <1>3, FileFacts
  <2> QED
        BY <2>1 DEF r
<1> HIDE DEF p, fd, h, r
<1>5. /\ files' \in [Procs -> [Fds -> Whole]]
      /\ \A q \in Procs, gd \in Fds :
            files'[q][gd] = IF q = p /\ gd = fd THEN r ELSE files[q][gd]
  <2>1. Sets(p, fd, r)
        BY <1>0, <1>1, <1>2, <1>4 DEF Sets
  <2> QED
        BY <1>0, <2>1, OneSet, SMT
<1>6. Types'
  <2>1. call' \in [Threads -> CallRecords]
        BY <1>0, <1>1, IdleCall DEF Types
  <2> QED
        BY <1>0, <1>1, <1>5, <2>1 DEF Types
<1>7. Sound'
  <2>1. Rights' = [Rights EXCEPT ![t] = NoHost]
    <3>1. \A u \in Threads : call'[u] = IF u = t THEN Idle ELSE call[u]
        BY <1>0, <1>1 DEF Types
    <3>2. Rights' = [u \in Threads |-> IF call'[u].op = "received" THEN call'[u].rights ELSE NoHost]
        BY DEF Rights
    <3> QED
        BY <3>1, <3>2, IdleCall DEF Rights
  <2>2. \A q \in Procs, gd \in Fds : Hosts'[q][gd] = IF q = p /\ gd = fd THEN h ELSE Hosts[q][gd]
        BY <1>0, <1>4, <1>5, <1>6, HostsTyped, NextHostsTyped, SMT
  <2>3. Hosts[p][fd] = NoHost
        BY <1>0, <1>2, HostsTyped
  <2>4. CASE h # NoHost
    <3>1. AdoptIn(Hosts, Rights, Hosts', Rights', t, p, fd)
        BY <1>0, <1>2, <1>3, <1>6, <2>1, <2>2, <2>3, <2>4, HostsTyped, NextHostsTyped DEF AdoptIn
    <3>2. Own(Hosts', ends, Rights') /\ Kept(Hosts', ends, Rights', signal_write_fd)
        BY <1>0, <3>1, HostsTyped, AdoptKeeps DEF Sound
    <3> QED
        BY <1>1, <3>2 DEF Sound
  <2>5. CASE h = NoHost
    <3>1. Rights' = Rights
      <4>1. Rights = [Rights EXCEPT ![t] = Rights[t]]
        BY DEF Rights
      <4> QED
        BY <1>3, <2>1, <2>5, <4>1
    <3>2. Hosts' = Hosts
      <4>1. \A q \in Procs, gd \in Fds : Hosts'[q][gd] = Hosts[q][gd]
        BY <2>2, <2>3, <2>5
      <4>2. Hosts \in Tables /\ Hosts' \in Tables
        BY <1>0, <1>6, HostsTyped, NextHostsTyped
      <4>3. \A q \in Procs : Hosts'[q] = Hosts[q]
        BY <4>1, <4>2, SMT DEF Tables
      <4> QED
        BY <4>2, <4>3, SMT DEF Tables
    <3> QED
        BY <1>0, <1>1, <3>1, <3>2 DEF Sound
  <2> QED
        BY <2>4, <2>5
<1>8. made' \in Numbers /\ made <= made'
    BY <1>0, <1>1, SMT DEF Types, Numbers
<1>9. DirsKnown'
  <2>1. \A q \in Procs, gd \in Fds : files'[q][gd].scratch = files[q][gd].scratch
        BY <1>2, <1>4, <1>5
  <2> QED
        BY <1>0, <1>1, <1>8, <2>1, DirsSame
<1>10. EventsKnown'
  <2>1. \A q \in Procs, gd \in Fds :
            files'[q][gd].event = NoObject \/ files'[q][gd].event = files[q][gd].event
        BY <1>4, <1>5
  <2> QED
        BY <1>0, <1>1, <1>8, <2>1, EventsSame
<1> QED
    BY <1>0, <1>1, <1>6, <1>7, <1>9, <1>10, PollableSame DEF Inv

-----------------------------------------------------------------------------
(* The theorems.                                                            *)

LEMMA InvInit ==
    ASSUME Init
    PROVE  Inv
<1> DEFINE tty == [NoFile EXCEPT !.open = TRUE, !.console = TRUE]
<1>1. tty \in Whole /\ tty.host = NoHost /\ tty.event = NoObject /\ tty.scratch = NoObject
    BY EmptyFile DEF Whole, FileRecords
<1>2. \A p \in Procs, fd \in Fds : files[p][fd] = tty \/ files[p][fd] = NoFile
    BY DEF Init
<1>3. files \in [Procs -> [Fds -> Whole]]
    BY <1>1, EmptyFile DEF Init
<1> HIDE DEF tty
<1>4. made = 0 /\ 0 \in Numbers /\ 1..made = {} /\ dirs = {} /\ left = {} /\ NoEnd \in Ends
    BY DescriptorsAssumption, SMT DEF Init, Numbers, Ends
<1>5. \A p \in Procs, fd \in Fds : /\ files[p][fd].host = NoHost
                                   /\ files[p][fd].event = NoObject
                                   /\ files[p][fd].scratch = NoObject
    BY <1>1, <1>2, EmptyFile
<1>6. Types
    BY <1>3, <1>4, IdleCall DEF Types, Init
<1>7. Sound
  <2>1. \A p \in Procs, fd \in Fds : Hosts[p][fd] = NoHost
        BY <1>5 DEF Hosts
  <2>2. \A t \in Threads : Rights[t] = NoHost
        BY IdleCall DEF Rights, Init
  <2>3. \A h \in HostFds : ends[h] = NoEnd
        BY DEF Init
  <2> QED
        BY <2>1, <2>2, <2>3 DEF Sound, Own, Kept
<1>8. DirsKnown
    BY <1>4, <1>5 DEF DirsKnown
<1>9. EventsKnown
    BY <1>5 DEF EventsKnown, Init
<1>10. EventIsPollable
    BY DEF EventIsPollable, Init
<1> QED
    BY <1>6, <1>7, <1>8, <1>9, <1>10 DEF Inv

LEMMA MakeStep ==
    ASSUME Inv, Numbered, NEW t \in Threads, Make(t)
    PROVE  Inv'
<1>0. Proc[t] \in Procs
    BY DescriptorsAssumption
<1>1. ASSUME NEW cx \in BOOLEAN, Pipe(t, cx) PROVE Inv'
    BY <1>0, <1>1, PairStep DEF Pipe
<1>2. ASSUME NEW cx \in BOOLEAN, Socketpair(t, cx) PROVE Inv'
    BY <1>0, <1>2, PairStep DEF Socketpair
<1>3. ASSUME NEW cx \in BOOLEAN, NEW n \in 0..MaxValue, Eventfd(t, n, cx) PROVE Inv'
  <2>1. n \in Nat
        BY SMT
  <2> QED
        BY <1>3, <2>1, EventfdStep
<1>4. ASSUME NEW cx \in BOOLEAN, EpollCreate(t, cx) PROVE Inv'
    BY <1>4, EpollCreateStep
<1>5. ASSUME NEW cx \in BOOLEAN, Register(t, cx) PROVE Inv'
    BY <1>5, RegisterStep
<1>6. CASE OpenDisplay(t)
    BY <1>6, OpenDisplayStep
<1>7. CASE OpenFds(t)
    BY <1>7, OpenFdsStep
<1> QED
    BY <1>1, <1>2, <1>3, <1>4, <1>5, <1>6, <1>7 DEF Make, OpenAt, Socket, MemfdCreate

LEMMA ChangeStep ==
    ASSUME Inv, Numbered, NEW t \in Threads, Change(t)
    PROVE  Inv'
<1>0. Proc[t] \in Procs
    BY DescriptorsAssumption
<1>1. ASSUME NEW fd \in Fds, Close(t, fd) PROVE Inv'
  <2>1. {fd} \subseteq Fds
        OBVIOUS
  <2> QED
        BY <1>0, <1>1, <2>1, CloseFdsStep DEF Close
<1>2. ASSUME NEW fd \in Fds, Dup(t, fd) PROVE Inv'
    BY <1>2, DupStep
<1>3. ASSUME NEW fd \in Fds, SetCloexec(t, fd) PROVE Inv'
    BY <1>3, SetCloexecStep
<1>4. ASSUME NEW from \in Fds, NEW to \in Fds, Dup2(t, from, to) PROVE Inv'
    BY <1>4, Dup2Step
<1>5. ASSUME NEW child \in Procs, Fork(t, child) PROVE Inv'
    BY <1>5, ForkStep
<1>6. CASE Exec(t)
  <2> DEFINE closing == {fd \in OpenIn(Proc[t]) : files[Proc[t]][fd].cloexec}
  <2>1. closing \subseteq Fds
        BY DEF OpenIn
  <2>2. CloseFds(Proc[t], closing) /\ UNCHANGED <<objects, call, robbed, passed, left>>
        BY <1>6 DEF Exec
  <2> HIDE DEF closing
  <2> QED
        BY <1>0, <2>1, <2>2, CloseFdsStep
<1>7. CASE Exit(t)
    BY <1>7, ExitStep
<1> QED
    BY <1>1, <1>2, <1>3, <1>4, <1>5, <1>6, <1>7 DEF Change

LEMMA UseStep ==
    ASSUME Inv, NEW t \in Threads, Use(t)
    PROVE  Inv'
<1>1. ASSUME NEW fd \in Fds, NEW n \in 1..MaxValue, EventRead(t, fd, n) PROVE Inv'
    BY <1>1, EventReadStep
<1>2. ASSUME NEW fd \in Fds, NEW n \in 1..MaxValue, EventWrite(t, fd, n) PROVE Inv'
  <2>1. n \in Nat
        BY SMT
  <2> QED
        BY <1>2, <2>1, EventWriteStep
<1>3. ASSUME NEW fd \in Fds,
             \/ Find(t, "read", fd) \/ Find(t, "write", fd)
             \/ MessageFind(t, "send", fd) \/ MessageFind(t, "recv", fd)
             \/ \E ef \in Fds : CtlFind(t, ef, fd)
      PROVE  Inv'
    BY <1>3, LookupStep
<1> QED
    BY <1>1, <1>2, <1>3 DEF Use

LEMMA FinishStep ==
    ASSUME Inv, Numbered, NEW t \in Threads, Finish(t)
    PROVE  Inv'
<1>1. ASSUME NEW k \in Objects, ReadByte(t, k) \/ WriteByte(t, k) PROVE Inv'
    BY <1>1, ReadByteStep, WriteByteStep
<1>2. ASSUME NEW fd \in Fds, SendTranslate(t, fd) PROVE Inv'
    BY <1>2, LookupStep
<1>3. ASSUME NEW side \in Sides, NEW k \in Objects,
             SendRights(t, side, k) \/ RecvRights(t, side, k)
      PROVE  Inv'
    BY <1>3, SendRightsStep, RecvRightsStep
<1>4. CASE RecvRegister(t)
    BY <1>4, RecvRegisterStep
<1>5. CASE \/ ReadNothing(t) \/ WriteNothing(t) \/ SendNothing(t) \/ RecvNothing(t)
           \/ CtlAdd(t) \/ CtlDel(t)
    BY <1>5, ReturnStep
<1> QED
    BY <1>1, <1>2, <1>3, <1>4, <1>5 DEF Finish

LEMMA InvStep ==
    ASSUME Inv, Numbered, [Next]_vars
    PROVE  Inv'
<1>1. CASE \E t \in Threads : Make(t) \/ Change(t) \/ Use(t) \/ Finish(t)
    BY <1>1, MakeStep, ChangeStep, UseStep, FinishStep
<1>2. CASE UNCHANGED vars
  <2>1. /\ UNCHANGED <<files, ends, bytes, value, signalled, signal_write_fd, made, call, robbed,
                       passed, scratch>>
        /\ dirs' = dirs /\ left' = left
        BY <1>2 DEF vars, objects, scratch
  <2>2. Types' /\ DirsKnown' /\ EventsKnown' /\ EventIsPollable'
        BY <2>1, SMT DEF Inv, Types, DirsKnown, EventsKnown, EventIsPollable
  <2>3. Sound'
        BY <2>1, SoundSame DEF Inv
  <2> QED
        BY <2>2, <2>3 DEF Inv
<1> QED
    BY <1>1, <1>2 DEF Next

LEMMA InvOwned ==
    ASSUME Inv
    PROVE  HostOwnedOnce
<1>0. Types /\ Own(Hosts, ends, Rights)
    BY DEF Inv, Sound
<1>1. \A p \in Procs, fd \in Fds : Hosts[p][fd] = files[p][fd].host
    BY <1>0, HostsTyped
<1>2. \A t \in Threads : call[t].op = "received" => Rights[t] = call[t].rights
    BY DEF Rights
<1> SUFFICES ASSUME NEW e \in Entries
             PROVE  /\ ends[HostOfEntry(e)] # NoEnd
                    /\ \A f \in Entries : HostOfEntry(f) = HostOfEntry(e) => f = e
                    /\ Received(HostOfEntry(e)) = {}
    BY DEF HostOwnedOnce
<1>3. \A f \in Entries : /\ f[1] \in Procs /\ f[2] \in Fds /\ f = <<f[1], f[2]>>
                         /\ HostOfEntry(f) = Hosts[f[1]][f[2]] /\ HostOfEntry(f) # NoHost
    BY <1>1, SMT DEF Entries, HostOfEntry
<1>4. ends[HostOfEntry(e)] # NoEnd
    BY <1>0, <1>3, SMT DEF Own
<1>5. ASSUME NEW f \in Entries, HostOfEntry(f) = HostOfEntry(e) PROVE f = e
  <2>1. f[1] = e[1] /\ f[2] = e[2]
        BY <1>0, <1>3, <1>5, SMT DEF Own
  <2> QED
        BY <1>3, <2>1
<1>6. Received(HostOfEntry(e)) = {}
  <2> SUFFICES ASSUME NEW t \in Received(HostOfEntry(e)) PROVE FALSE
        OBVIOUS
  <2>1. t \in Threads /\ Rights[t] = HostOfEntry(e)
        BY <1>2 DEF Received
  <2> QED
        BY <1>0, <1>3, <2>1, SMT DEF Own
<1> QED
    BY <1>4, <1>5, <1>6

LEMMA InvHeld ==
    ASSUME Inv
    PROVE  NothingHeldOpen
<1>0. Types /\ Kept(Hosts, ends, Rights, signal_write_fd) /\ DirsKnown
    BY DEF Inv, Sound
<1>1. \A p \in Procs, fd \in Fds : Hosts[p][fd] = files[p][fd].host
    BY <1>0, HostsTyped
<1> DEFINE owned == {HostOfEntry(e) : e \in Entries} \cup {signal_write_fd[k] : k \in Objects}
           kept == {files[e[1]][e[2]].scratch : e \in Entries} \ {NoObject}
<1>2. ASSUME NEW h \in HostFds, ends[h] # NoEnd
      PROVE  h \in owned \/ Received(h) # {}
  <2>0. h # NoHost
        BY NoHostIsNone
  <2>1. CASE \E p \in Procs, fd \in Fds : Hosts[p][fd] = h
    <3>1. PICK p \in Procs, fd \in Fds : Hosts[p][fd] = h
        BY <2>1
    <3>2. <<p, fd>> \in Entries /\ HostOfEntry(<<p, fd>>) = h
        BY <1>1, <2>0, <3>1 DEF Entries, HostOfEntry
    <3> QED
        BY <3>2
  <2>2. CASE \E k \in Objects : signal_write_fd[k] = h
        BY <2>2
  <2>3. CASE \E t \in Threads : Rights[t] = h
        BY <2>0, <2>3 DEF Rights, Received
  <2> QED
        BY <1>0, <1>2, <2>1, <2>2, <2>3 DEF Kept
<1>3. \A k : k \in kept <=> k # NoObject /\ \E p \in Procs, fd \in Fds : files[p][fd].scratch = k
  <2>1. ASSUME NEW k, k \in kept
        PROVE  k # NoObject /\ \E p \in Procs, fd \in Fds : files[p][fd].scratch = k
        BY <2>1 DEF Entries
  <2>2. ASSUME NEW k, k # NoObject, NEW p \in Procs, NEW fd \in Fds, files[p][fd].scratch = k
        PROVE  k \in kept
    <3>1. files[p][fd].host # NoHost
        BY <1>0, <2>2 DEF Types, Whole
    <3>2. <<p, fd>> \in Entries
        BY <3>1 DEF Entries
    <3> QED
        BY <2>2, <3>2, SMT
  <2> QED
        BY <2>1, <2>2
<1> HIDE DEF kept
<1>4. dirs = left \cup kept
  <2>1. \A k \in dirs : k \in left \cup kept
    <3>1. \A k \in 1..made : k # NoObject
        BY <1>0, SMT DEF Types, Numbers, NoObject
    <3> QED
        BY <1>0, <1>3, <3>1 DEF DirsKnown
  <2>2. \A k \in left \cup kept : k \in dirs
        BY <1>0, <1>3, SMT DEF DirsKnown
  <2> QED
        BY <2>1, <2>2
<1> QED
    BY <1>2, <1>4 DEF NothingHeldOpen, kept

-----------------------------------------------------------------------------
(* The members of a set of numbers, in order.                                *)

INSTANCE FiniteSetTheorems
INSTANCE WellFoundedInduction

LEMMA HasLowest ==
    ASSUME NEW S, S \subseteq Nat, S # {}
    PROVE  \E x \in S : \A y \in S : x <= y
<1> DEFINE R == OpToRel(<, Nat)
<1>1. IsWellFoundedOn(R, Nat)
    BY NatLessThanWellFounded
<1>2. \A x, y \in Nat : y < x => <<y, x>> \in R
    BY DEF OpToRel
<1> HIDE DEF R
<1>3. \E x \in S : \A y \in S : ~(<<y, x>> \in R)
    BY <1>1, WFMin
<1>4. \E x \in S : \A y \in S : ~(y < x)
    BY <1>2, <1>3
<1> QED
    BY <1>4, SMT

\* The n-th lowest of a finite set is there while n is below its size.
LEMMA NthExists ==
    ASSUME NEW S, S \subseteq Nat, IsFiniteSet(S), NEW n \in Nat, n < Cardinality(S)
    PROVE  \E x \in S : Cardinality({y \in S : y < x}) = n
<1> DEFINE Under(x) == {y \in S : y < x}
           Bad == {m \in Nat : m < Cardinality(S) /\ ~\E x \in S : Cardinality(Under(x)) = m}
<1>0. Cardinality(S) \in Nat /\ \A x : IsFiniteSet(Under(x))
    BY FS_CardinalityType, FS_Subset
<1> SUFFICES ASSUME n \in Bad PROVE FALSE
    OBVIOUS
<1>1. PICK m \in Bad : \A k \in Bad : m <= k
    BY HasLowest
<1>2. CASE m = 0
  <2>1. S # {}
        BY <1>0, <1>1, <1>2, FS_EmptySet, SMT
  <2>2. PICK x \in S : \A y \in S : x <= y
        BY <2>1, HasLowest
  <2>3. Under(x) = {}
    <3>1. \A y \in S : ~(y < x)
        BY <2>2, SMT
    <3> QED
        BY <3>1
  <2>4. Cardinality(Under(x)) = 0
        BY <2>3, FS_EmptySet
  <2> QED
        BY <1>1, <1>2, <2>4
<1>3. CASE m # 0
  <2>1. m - 1 \in Nat /\ m - 1 < Cardinality(S) /\ m - 1 \notin Bad
        BY <1>0, <1>1, <1>3, SMT
  <2>2. PICK x \in S : Cardinality(Under(x)) = m - 1
        BY <2>1
  <2>3. IsFiniteSet(Under(x) \cup {x}) /\ Cardinality(Under(x) \cup {x}) = m
    <3>1. x \notin Under(x) /\ IsFiniteSet(Under(x))
        BY <1>0, SMT
    <3> HIDE DEF Under
    <3>2. IsFiniteSet(Under(x) \cup {x}) /\ Cardinality(Under(x) \cup {x}) = Cardinality(Under(x)) + 1
        BY <3>1, FS_AddElement
    <3>3. (m - 1) + 1 = m
        BY <1>1, SMT
    <3> QED
        BY <2>2, <3>2, <3>3
  <2> DEFINE Over == S \ (Under(x) \cup {x})
  <2>4. Over # {}
    <3>1. SUFFICES ASSUME Over = {} PROVE FALSE
        OBVIOUS
    <3>2. S = Under(x) \cup {x}
        BY <3>1
    <3>3. m < Cardinality(S) /\ m \in Nat
        BY <1>1
    <3> HIDE DEF Under
    <3>4. Cardinality(S) = m
        BY <2>3, <3>2
    <3> QED
        BY <3>3, <3>4, SMT
  <2>5. PICK z \in Over : \A y \in Over : z <= y
        BY <2>4, HasLowest
  <2>6. Under(z) = Under(x) \cup {x}
    <3>1. z \in Nat /\ x \in Nat /\ x < z
        BY <2>5, SMT
    <3>2. \A y \in S : y < z <=> (y < x \/ y = x)
        BY <2>5, <3>1, SMT
    <3> QED
        BY <3>2
  <2> QED
        BY <1>1, <2>3, <2>5, <2>6
<1> QED
    BY <1>2, <1>3

\* AllocateFd and the host's open choose a member, and another for another n.
LEMMA NthFacts ==
    ASSUME NEW S, S \subseteq Nat, IsFiniteSet(S)
    PROVE  /\ \A n \in Nat : n < Cardinality(S) => Nth(S, n) \in S
           /\ \A m, n \in Nat : m < Cardinality(S) /\ n < Cardinality(S) /\ Nth(S, m) = Nth(S, n)
                                => m = n
           /\ S # {} => Nth(S, 0) \in S
<1>1. ASSUME NEW n \in Nat, n < Cardinality(S)
      PROVE  Nth(S, n) \in S /\ Cardinality({y \in S : y < Nth(S, n)}) = n
  <2>1. \E x \in S : Cardinality({y \in S : y < x}) = n
        BY <1>1, NthExists
  <2> QED
        BY <2>1 DEF Nth
<1>2. S # {} => 0 < Cardinality(S)
    BY FS_EmptySet, FS_CardinalityType, SMT
<1> QED
    BY <1>1, <1>2

\* No two members of a set have as many below them.
LEMMA PlacesDiffer ==
    ASSUME NEW S, S \subseteq Nat, IsFiniteSet(S)
    PROVE  /\ \A a \in S : Cardinality({f \in S : f < a}) \in Nat
           /\ \A a, b \in S : Cardinality({f \in S : f < a}) = Cardinality({f \in S : f < b}) => a = b
<1> DEFINE Under(a) == {f \in S : f < a}
<1>1. \A a : IsFiniteSet(Under(a)) /\ Cardinality(Under(a)) \in Nat
    BY FS_Subset, FS_CardinalityType
<1>2. ASSUME NEW a \in S, NEW b \in S, a < b
      PROVE  Cardinality(Under(a)) # Cardinality(Under(b))
  <2>1. a \notin Under(a) /\ Under(a) \cup {a} \subseteq Under(b)
    <3>1. a \in Nat /\ b \in Nat /\ ~(a < a) /\ \A f \in S : f < a => f < b
        BY <1>2, SMT
    <3> QED
        BY <1>2, <3>1
  <2> HIDE DEF Under
  <2>2. /\ IsFiniteSet(Under(a) \cup {a})
        /\ Cardinality(Under(a) \cup {a}) = Cardinality(Under(a)) + 1
        BY <1>1, <2>1, FS_AddElement
  <2>3. Cardinality(Under(a) \cup {a}) <= Cardinality(Under(b))
        BY <1>1, <2>1, FS_Subset
  <2> QED
        BY <1>1, <2>2, <2>3, SMT
<1>3. \A a, b \in S : a = b \/ a < b \/ b < a
    BY SMT
<1> HIDE DEF Under
<1>4. \A a, b \in S : Cardinality(Under(a)) = Cardinality(Under(b)) => a = b
    BY <1>2, <1>3
<1> QED
    BY <1>1, <1>4 DEF Under

LEMMA InOrder == Numbered
<1> SUFFICES ASSUME NEW n \in Nat, NEW S \in SUBSET (0..n)
             PROVE  /\ Cardinality(S) \in Nat
                    /\ \A i \in Nat : i < Cardinality(S) => Nth(S, i) \in S
                    /\ \A i, j \in Nat : i < Cardinality(S) /\ j < Cardinality(S)
                                        /\ Nth(S, i) = Nth(S, j) => i = j
                    /\ S # {} => Nth(S, 0) \in S
                    /\ \A a \in S : Cardinality({f \in S : f < a}) \in Nat
                    /\ \A a, b \in S : Cardinality({f \in S : f < a})
                                      = Cardinality({f \in S : f < b}) => a = b
    BY DEF Numbered
<1>1. IsFiniteSet(0..n) /\ S \subseteq Nat
    BY FS_Interval, SMT
<1>2. IsFiniteSet(S) /\ Cardinality(S) \in Nat
    BY <1>1, FS_Subset, FS_CardinalityType
<1> QED
    BY <1>1, <1>2, NthFacts, PlacesDiffer

\* The invariant: the tables, the host's descriptors, what threads have
\* received, the directories and the eventfds agree with one another after every
\* call of linux_syscalls.cpp, whatever the threads of whatever processes do.
THEOREM DescriptorsInvariant == Spec => []Inv
<1>1. Init => Inv
    BY InvInit
<1>2. Inv /\ [Next]_vars => Inv'
    BY InvStep, InOrder
<1> QED
    BY <1>1, <1>2, PTL DEF Spec

\* Every host descriptor a table names is open and is no other entry's: the
\* close, dup2, execve and exit of linux_syscalls.cpp close nothing twice and
\* nothing under somebody else, for any number of processes and threads.
THEOREM OwnedOnce == Spec => []HostOwnedOnce
<1>1. Inv => HostOwnedOnce
    BY InvOwned
<1> QED
    BY <1>1, DescriptorsInvariant, PTL

\* The guest's last close of a host object reaches the host, from whichever
\* process it comes, but for the writing ends behind eventfds; and a directory
\* made for /proc/self/fd goes with its descriptor, but for those left behind.
THEOREM NothingStaysOpen == Spec => []NothingHeldOpen
<1>1. Inv => NothingHeldOpen
    BY InvHeld
<1> QED
    BY <1>1, DescriptorsInvariant, PTL

\* The byte in an eventfd's pipe says whether its counter is not zero, through
\* any DoEventfdRead and DoEventfdWrite of any threads, unless a plain read took it.
THEOREM EventsArePollable == Spec => []EventIsPollable
<1>1. Inv => EventIsPollable
    BY DEF Inv
<1> QED
    BY <1>1, DescriptorsInvariant, PTL
=============================================================================
