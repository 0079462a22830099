--------------------------- MODULE AutoloadProofs ---------------------------
(***************************************************************************)
(* Proofs about PluginHandler and Autoload, for every set of plugins and   *)
(* callbacks, any number of readers and of changes of the directory.       *)
(***************************************************************************)
EXTENDS Autoload, SequenceTheorems, WellFoundedInduction, TLAPS

(***************************************************************************)
(* Loads and removals exclude each other; what would not ends the model.   *)
(***************************************************************************)
OneJob == \A t, u \in Threads : job[t] # Idle /\ job[u] # Idle => t = u

JobShape(t) ==
    /\ job[t].do = "nothing" => job[t] = Idle
    /\ job[t].do # "nothing" => job[t].plugin \in Plugins
    /\ job[t].do \in {"register", "index"} => t = Loader

\* A reader removes a plugin between two turns of its loop.
BetweenTurns ==
    \A t \in Readers :
        job[t] # Idle => stack[t] # <<>> /\ stack[t][1].cb = None

(***************************************************************************)
(* What is registered belongs to a plugin that is there.                   *)
(***************************************************************************)
Registering(p) ==
    job[Loader].do \in {"register", "index"} /\ job[Loader].plugin = p

Prefix(p) ==
    /\ Len(registered[p]) <= Len(Registers[p])
    /\ \A i \in 1..Len(registered[p]) : registered[p][i] = Registers[p][i]

Present(p) ==
    registered[p] # <<>> =>
        p \in mapped /\ (Contains(pluginList, p) \/ Registering(p))

JobPlace(t) ==
    /\ job[t].do \in {"register", "index"} =>
          /\ job[t].plugin \in mapped /\ ~Contains(pluginList, job[t].plugin)
          /\ job[t].at = Len(registered[job[t].plugin]) + 1
    /\ job[t].do = "index" => job[t].at <= Len(Registers[job[t].plugin])
    /\ job[t].do \in {"unindex", "freed"} =>
          /\ Contains(pluginList, job[t].plugin)
          /\ job[t].at \in 1..(Len(registered[job[t].plugin]) + 1)
    /\ job[t].do = "freed" => job[t].at <= Len(registered[job[t].plugin])
    /\ job[t].do = "install" =>
          /\ Contains(pluginList, job[t].plugin)
          /\ registered[job[t].plugin] = <<>>
          /\ job[t].list = Without(job[t].plugin, pluginList)

\* A file that is to be loaded is not in the list, or is on its way out.
Pending ==
    /\ IsInjective(todo)
    /\ \A i \in 1..Len(todo) :
          /\ ~Registering(todo[i])
          /\ Contains(pluginList, todo[i]) =>
                /\ job[Loader].do \in {"unindex", "freed", "install"}
                /\ job[Loader].plugin = todo[i]

JobInv == OneJob /\ (\A t \in Threads : JobShape(t)) /\ BetweenTurns
PluginInv ==
    /\ IsInjective(pluginList)
    /\ \A p \in Plugins : Prefix(p) /\ Present(p)
    /\ \A t \in Threads : JobPlace(t)
    /\ Pending

(***************************************************************************)
(* The index.                                                              *)
(***************************************************************************)
Ordered(list) ==
    \A i, j \in 1..Len(list) :
        i < j => list[i] # list[j] /\ Priority[list[i]] <= Priority[list[j]]

\* What is in the index is registered ...
Known(n) ==
    \A i \in 1..Len(index[n]) :
        /\ Event[index[n][i]] = n
        /\ Contains(registered[Owner[index[n][i]]], index[n][i])

\* ... and what is registered is in the index until remove_plugin comes to it.
TakenOut(p, i) == \E t \in Threads : Removes(t, p) /\ i < job[t].at
Listed(p) ==
    \A i \in 1..Len(registered[p]) :
        TakenOut(p, i) <=> ~Contains(index[Event[registered[p][i]]], registered[p][i])

IndexInv ==
    /\ \A n \in Names : Ordered(index[n]) /\ Known(n)
    /\ \A p \in Plugins : Listed(p)

(***************************************************************************)
(* The dispatches, until the first reload.                                 *)
(***************************************************************************)
StartedLate ==
    reloads = 0 =>
        \A t \in Readers : stack[t] # <<>> => todo = <<>> /\ job[Loader] = Idle

\* A callback that was called is behind the place the loop is at.
CalledBehind(f) ==
    \A j \in 1..Len(index[f.name]) :
        index[f.name][j] \in f.called => j < f.i \/ (f.cb # None /\ j = f.i)

Good(f) ==
    /\ f.cb # None => f.i <= f.count
    /\ reloads = 0 => CalledBehind(f)

StackInv ==
    /\ stack \in [Readers -> Seq(Frames)]
    /\ \A t \in Readers : \A k \in 1..Len(stack[t]) : Good(stack[t][k])

(***************************************************************************)
(* The inductive invariant: types, and the parts above.                    *)
(***************************************************************************)
ListTypes ==
    /\ pluginList \in Seq(Plugins)
    /\ registered \in [Plugins -> Seq(Callbacks)]
    /\ indexList \in Seq(Names)
    /\ index \in [Names -> Seq(Callbacks)]
    /\ todo \in Seq(Plugins)

PlainTypes ==
    /\ status \in [Plugins -> {"RUNNING", "PAUSED"}]
    /\ nameOwner \in [Names -> Plugins \cup {None}]
    /\ mapped \in SUBSET Plugins
    /\ job \in [Threads -> Jobs]
    /\ reloads \in 0..MaxReloads
    /\ undefined \in BOOLEAN

Types == ListTypes /\ PlainTypes

IInv == Types /\ JobInv /\ PluginInv /\ IndexInv /\ StartedLate /\ StackInv
-----------------------------------------------------------------------------
(* Lists, as index_callback, remove_index and remove_plugin change them. *)

LEMMA Insertion ==
    ASSUME NEW S, NEW list \in Seq(S), NEW c \in S, NEW k \in 1..(Len(list) + 1)
    PROVE  /\ InsertAt(list, k, c) \in Seq(S)
           /\ Len(InsertAt(list, k, c)) = Len(list) + 1
           /\ \A i \in 1..(Len(list) + 1) :
                 InsertAt(list, k, c)[i] =
                    IF i < k THEN list[i] ELSE IF i = k THEN c ELSE list[i - 1]
<1> DEFINE a == SubSeq(list, 1, k - 1)
           b == SubSeq(list, k, Len(list))
<1>1. a \in Seq(S) /\ Len(a) = k - 1 /\ \A i \in 1..(k - 1) : a[i] = list[i]
  OBVIOUS
<1>2. b \in Seq(S) /\ Len(b) = Len(list) - k + 1
      /\ \A i \in 1..(Len(list) - k + 1) : b[i] = list[k + i - 1]
  OBVIOUS
<1>3. InsertAt(list, k, c) = a \o <<c>> \o b
  BY DEF InsertAt
<1> HIDE DEF a, b
<1> DEFINE d == a \o <<c>>
<1>4. d \in Seq(S) /\ Len(d) = k /\ d[k] = c /\ \A i \in 1..(k - 1) : d[i] = list[i]
  BY <1>1
<1> HIDE DEF d
<1>5. d \o b \in Seq(S) /\ Len(d \o b) = Len(list) + 1
<2>1. d \o b \in Seq(S) /\ Len(d \o b) = Len(d) + Len(b)
  BY <1>2, <1>4, ConcatProperties, Zenon
<2> QED
  BY <1>2, <1>4, <2>1
<1>6. ASSUME NEW i \in 1..(Len(list) + 1), i <= k PROVE (d \o b)[i] = d[i]
  BY <1>2, <1>4, <1>6
<1>7. ASSUME NEW i \in 1..(Len(list) + 1), ~(i <= k) PROVE (d \o b)[i] = list[i - 1]
<2>1. i - k \in 1..(Len(list) - k + 1) /\ k + (i - k) - 1 = i - 1
  BY <1>7
<2>2. (d \o b)[i] = b[i - k]
  BY <1>2, <1>4, <1>7, SMTT(30)
<2> QED
  BY <1>2, <2>1, <2>2
<1>8. InsertAt(list, k, c) = d \o b
  BY <1>3 DEF d
<1> QED
  BY <1>4, <1>5, <1>6, <1>7, <1>8

LEMMA Removed ==
    ASSUME NEW S, NEW list \in Seq(S), NEW k \in 1..Len(list)
    PROVE  /\ RemoveAt(list, k) \in Seq(S)
           /\ Len(RemoveAt(list, k)) = Len(list) - 1
           /\ \A i \in 1..(Len(list) - 1) :
                 RemoveAt(list, k)[i] = IF i < k THEN list[i] ELSE list[i + 1]
<1> DEFINE a == SubSeq(list, 1, k - 1)
           b == SubSeq(list, k + 1, Len(list))
<1>1. a \in Seq(S) /\ Len(a) = k - 1 /\ \A i \in 1..(k - 1) : a[i] = list[i]
  OBVIOUS
<1>2. b \in Seq(S) /\ Len(b) = Len(list) - k
      /\ \A i \in 1..(Len(list) - k) : b[i] = list[k + i]
  OBVIOUS
<1>3. RemoveAt(list, k) = a \o b
  BY DEF RemoveAt
<1> HIDE DEF a, b
<1>4. a \o b \in Seq(S) /\ Len(a \o b) = Len(a) + Len(b)
  BY <1>1, <1>2, ConcatProperties, Zenon
<1>5. ASSUME NEW i \in 1..(Len(list) - 1), i < k PROVE (a \o b)[i] = list[i]
<2>1. i \in 1..Len(a) /\ i \in 1..(Len(a) + Len(b))
  BY <1>1, <1>2, <1>5
<2>2. (a \o b)[i] = a[i]
  BY <1>1, <1>2, <2>1
<2> QED
  BY <1>1, <1>5, <2>2
<1>6. ASSUME NEW i \in 1..(Len(list) - 1), ~(i < k) PROVE (a \o b)[i] = list[i + 1]
<2>1. i \in 1..(Len(a) + Len(b)) /\ ~(i <= Len(a)) /\ i - Len(a) \in 1..(Len(list) - k)
  BY <1>1, <1>2, <1>6
<2>2. (a \o b)[i] = b[i - Len(a)]
  BY <1>1, <1>2, <2>1
<2>3. b[i - Len(a)] = list[k + (i - Len(a))] /\ k + (i - Len(a)) = i + 1
  BY <1>1, <1>2, <1>6, <2>1
<2> QED
  BY <2>2, <2>3
<1> QED
  BY <1>1, <1>2, <1>3, <1>4, <1>5, <1>6

\* What Without leaves: everything else, in the old order, no further back.
LEMMA WithoutOne ==
    ASSUME NEW S, NEW list \in Seq(S), NEW x, IsInjective(list)
    PROVE  /\ Without(x, list) \in Seq(S)
           /\ IsInjective(Without(x, list))
           /\ \A e : Contains(Without(x, list), e) <=> Contains(list, e) /\ e # x
           /\ \A i \in 1..Len(Without(x, list)) : \E k \in 1..Len(list) :
                 i <= k /\ Without(x, list)[i] = list[k]
           /\ \A i, j \in 1..Len(Without(x, list)) : i < j =>
                 \E k, m \in 1..Len(list) :
                    k < m /\ Without(x, list)[i] = list[k] /\ Without(x, list)[j] = list[m]
<1>1. CASE ~Contains(list, x)
<2>1. Without(x, list) = list
  BY <1>1 DEF Without
<2> QED
  BY <1>1, <2>1 DEF Contains
<1>2. CASE Contains(list, x)
<2> DEFINE at == CHOOSE i \in DOMAIN list : list[i] = x
           w == RemoveAt(list, at)
<2>1. DOMAIN list = 1..Len(list) /\ Len(list) \in Nat
  BY LenProperties
<2>2. at \in 1..Len(list) /\ list[at] = x
  BY <1>2, <2>1 DEF Contains
<2>3. Without(x, list) = w
  BY <1>2 DEF Without
<2> HIDE DEF at
<2>4. /\ w \in Seq(S) /\ Len(w) = Len(list) - 1
      /\ \A i \in 1..(Len(list) - 1) : w[i] = IF i < at THEN list[i] ELSE list[i + 1]
  BY <2>2, Removed
<2> HIDE DEF w
<2>5. DOMAIN w = 1..(Len(list) - 1)
  BY <2>4, LenProperties
<2>6. \A i, k \in 1..Len(list) : list[i] = list[k] => i = k
  BY <2>1 DEF IsInjective
<2>7. IsInjective(w)
  BY <2>1, <2>2, <2>4, <2>5, <2>6 DEF IsInjective
<2>8. ASSUME NEW i \in 1..Len(w)
      PROVE  \E k \in 1..Len(list) : i <= k /\ w[i] = list[k]
<3>1. i \in 1..(Len(list) - 1) /\ i \in 1..Len(list) /\ i + 1 \in 1..Len(list)
  BY <2>1, <2>4
<3> QED
  BY <2>4, <3>1
<2>9. ASSUME NEW i \in 1..Len(w), NEW j \in 1..Len(w), i < j
      PROVE  \E k, m \in 1..Len(list) : k < m /\ w[i] = list[k] /\ w[j] = list[m]
<3>1. i \in 1..(Len(list) - 1) /\ j \in 1..(Len(list) - 1)
      /\ i \in 1..Len(list) /\ i + 1 \in 1..Len(list)
      /\ j \in 1..Len(list) /\ j + 1 \in 1..Len(list)
  BY <2>1, <2>4
<3>2. CASE j < at
  BY <2>2, <2>4, <2>9, <3>1, <3>2
<3>3. CASE ~(j < at) /\ i < at
  BY <2>2, <2>4, <2>9, <3>1, <3>3
<3>4. CASE ~(i < at)
  BY <2>2, <2>4, <2>9, <3>1, <3>4
<3> QED
  BY <3>2, <3>3, <3>4
<2>10. ASSUME NEW e PROVE Contains(w, e) <=> Contains(list, e) /\ e # x
<3>1. ASSUME Contains(w, e) PROVE Contains(list, e) /\ e # x
<4>1. PICK i \in 1..(Len(list) - 1) : w[i] = e
  BY <2>4, <3>1 DEF Contains
<4>2. i \in 1..Len(list) /\ i + 1 \in 1..Len(list)
  BY <2>1
<4>3. CASE i < at
  BY <2>2, <2>4, <2>6, <4>1, <4>2, <4>3 DEF Contains
<4>4. CASE ~(i < at)
  BY <2>2, <2>4, <2>6, <4>1, <4>2, <4>4 DEF Contains
<4> QED
  BY <4>3, <4>4
<3>2. ASSUME Contains(list, e), e # x PROVE Contains(w, e)
<4>1. PICK i \in 1..Len(list) : list[i] = e
  BY <3>2 DEF Contains
<4>2. CASE i < at
<5>1. i \in 1..(Len(list) - 1)
  BY <2>1, <2>2, <4>2
<5> QED
  BY <2>4, <4>1, <4>2, <5>1 DEF Contains
<4>3. CASE i > at
<5>1. i - 1 \in 1..(Len(list) - 1) /\ ~(i - 1 < at) /\ (i - 1) + 1 = i
  BY <2>1, <2>2, <4>3
<5>2. w[i - 1] = e
  BY <2>4, <4>1, <5>1
<5> QED
  BY <2>4, <5>1, <5>2 DEF Contains
<4>4. i # at
  BY <2>2, <3>2, <4>1
<4> QED
  BY <2>1, <2>2, <4>2, <4>3, <4>4
<3> QED
  BY <3>1, <3>2
<2> QED
  BY <2>3, <2>4, <2>7, <2>8, <2>9, <2>10
<1> QED
  BY <1>1, <1>2

\* The lowest of some places.
LEMMA FirstPlace ==
    ASSUME NEW n \in Nat, NEW S, S \subseteq 1..n, S # {}
    PROVE  Min(S) \in S /\ \A y \in S : Min(S) <= y
<1>1. IsWellFoundedOn(OpToRel(<, Nat), Nat)
  BY NatLessThanWellFounded
<1>2. S \subseteq Nat
  OBVIOUS
<1>3. PICK x \in S : \A y \in S : ~(<<y, x>> \in OpToRel(<, Nat))
  BY <1>1, <1>2, WFMin, Zenon
<1>4. \A y \in S : ~(y < x)
  BY <1>2, <1>3 DEF OpToRel
<1>5. \A y \in S : x =< y
  BY <1>2, <1>4
<1> QED
  BY <1>5 DEF Min

\* index_callback keeps the order, and puts the callback in once.
LEMMA IndexedOne ==
    ASSUME NEW list \in Seq(Callbacks), NEW c \in Callbacks,
           Ordered(list), ~Contains(list, c)
    PROVE  /\ Indexed(c, list) \in Seq(Callbacks)
           /\ Ordered(Indexed(c, list))
           /\ \A e : Contains(Indexed(c, list), e) <=> Contains(list, e) \/ e = c
<1> DEFINE higher == {i \in DOMAIN list : Priority[list[i]] > Priority[c]}
           k == Min(higher \cup {Len(list) + 1})
           new == InsertAt(list, k, c)
<1>0. Len(list) \in Nat /\ DOMAIN list = 1..Len(list)
  BY LenProperties
<1>1. \A e \in Callbacks : Priority[e] \in Int
  BY CallbacksAssumption
<1>2. \A i \in 1..Len(list) : list[i] \in Callbacks
  BY ElementOfSeq
<1>3. k \in higher \cup {Len(list) + 1} /\ \A y \in higher \cup {Len(list) + 1} : k <= y
<2>1. higher \cup {Len(list) + 1} \subseteq 1..(Len(list) + 1)
  BY <1>0
<2> HIDE DEF higher
<2>2. Len(list) + 1 \in Nat
  BY <1>0
<2> QED
  BY <2>1, <2>2, FirstPlace
<1>4. k \in 1..(Len(list) + 1)
<2>1. higher \subseteq 1..Len(list)
  BY <1>0
<2> HIDE DEF higher, k
<2>2. CASE k \in higher
  BY <1>0, <2>1, <2>2
<2>3. CASE k = Len(list) + 1
  BY <1>0, <2>3
<2> QED
  BY <1>3, <2>2, <2>3
<1>5. \A i \in 1..Len(list) : i < k => Priority[list[i]] <= Priority[c]
<2> SUFFICES ASSUME NEW i \in 1..Len(list), i < k PROVE Priority[list[i]] <= Priority[c]
  OBVIOUS
<2>1. i \notin higher
<3> HIDE DEF higher, k
<3> QED
  BY <1>0, <1>3, <1>4
<2> QED
  BY <1>0, <1>1, <1>2, <2>1
<1>6. \A i \in 1..Len(list) : i >= k => Priority[list[i]] > Priority[c]
<2> SUFFICES ASSUME NEW i \in 1..Len(list), i >= k PROVE Priority[list[i]] > Priority[c]
  OBVIOUS
<2>1. k \in higher
<3> HIDE DEF higher, k
<3>1. k # Len(list) + 1
  BY <1>0, <1>4
<3> QED
  BY <1>3, <3>1
<2>2. k \in 1..Len(list) /\ Priority[list[k]] > Priority[c]
  BY <1>0, <2>1
<2>3. CASE i = k
  BY <2>2, <2>3
<2>4. CASE i > k
<3>1. Priority[list[k]] <= Priority[list[i]]
  BY <2>2, <2>4 DEF Ordered
<3> QED
  BY <1>1, <1>2, <2>2, <3>1
<2> QED
  BY <1>0, <2>2, <2>3, <2>4
<1>7. Indexed(c, list) = new
  BY DEF Indexed
<1> HIDE DEF k
<1>8. /\ new \in Seq(Callbacks) /\ Len(new) = Len(list) + 1
      /\ \A i \in 1..(Len(list) + 1) :
            new[i] = IF i < k THEN list[i] ELSE IF i = k THEN c ELSE list[i - 1]
<2>1. \A m \in 1..(Len(list) + 1) :
         /\ InsertAt(list, m, c) \in Seq(Callbacks)
         /\ Len(InsertAt(list, m, c)) = Len(list) + 1
         /\ \A i \in 1..(Len(list) + 1) :
               InsertAt(list, m, c)[i] =
                  IF i < m THEN list[i] ELSE IF i = m THEN c ELSE list[i - 1]
  BY Insertion
<2> QED
  BY <1>4, <2>1, Zenon
<1> HIDE DEF new
<1>9. \A i \in 1..Len(list) : list[i] # c
  BY DEF Contains
<1>10. Ordered(new)
<2> SUFFICES ASSUME NEW i \in 1..(Len(list) + 1), NEW j \in 1..(Len(list) + 1), i < j
             PROVE  new[i] # new[j] /\ Priority[new[i]] <= Priority[new[j]]
  BY <1>8 DEF Ordered
<2>1. \A m \in 1..Len(list) : m <= Len(list)
  OBVIOUS
<2>2. CASE j < k
<3>1. new[i] = list[i] /\ new[j] = list[j] /\ i \in 1..Len(list) /\ j \in 1..Len(list)
  BY <1>0, <1>4, <1>8, <2>2
<3> QED
  BY <3>1 DEF Ordered
<2>3. CASE j = k
<3>1. new[i] = list[i] /\ new[j] = c /\ i \in 1..Len(list) /\ i < k
  BY <1>0, <1>4, <1>8, <2>3
<3> QED
  BY <1>5, <1>9, <3>1
<2>4. CASE j > k /\ i < k
<3>1. new[i] = list[i] /\ new[j] = list[j - 1] /\ i \in 1..Len(list) /\ j - 1 \in 1..Len(list)
      /\ i < j - 1
  BY <1>0, <1>4, <1>8, <2>4
<3> QED
  BY <3>1 DEF Ordered
<2>5. CASE j > k /\ i = k
<3>1. new[i] = c /\ new[j] = list[j - 1] /\ j - 1 \in 1..Len(list) /\ j - 1 >= k
  BY <1>0, <1>4, <1>8, <2>5
<3>2. Priority[list[j - 1]] > Priority[c]
  BY <1>6, <3>1
<3> QED
  BY <1>1, <1>2, <1>9, <3>1, <3>2
<2>6. CASE i > k
<3>1. new[i] = list[i - 1] /\ new[j] = list[j - 1] /\ i - 1 \in 1..Len(list) /\ j - 1 \in 1..Len(list)
      /\ i - 1 < j - 1
  BY <1>0, <1>4, <1>8, <2>6
<3> QED
  BY <3>1 DEF Ordered
<2> QED
  BY <1>0, <1>4, <2>2, <2>3, <2>4, <2>5, <2>6
<1>11. ASSUME NEW e PROVE Contains(new, e) <=> Contains(list, e) \/ e = c
<2>1. ASSUME Contains(new, e) PROVE Contains(list, e) \/ e = c
<3>1. PICK i \in 1..(Len(list) + 1) : new[i] = e
  BY <1>8, <2>1 DEF Contains
<3>2. CASE i < k
  BY <1>0, <1>4, <1>8, <3>1, <3>2 DEF Contains
<3>3. CASE i > k
<4>1. i - 1 \in 1..Len(list)
  BY <1>0, <1>4, <3>3
<4>2. list[i - 1] = e
  BY <1>0, <1>4, <1>8, <3>1, <3>3
<4> QED
  BY <4>1, <4>2 DEF Contains
<3>4. CASE i = k
  BY <1>8, <3>1, <3>4
<3> QED
  BY <1>0, <1>4, <3>2, <3>3, <3>4
<2>2. ASSUME Contains(list, e) PROVE Contains(new, e)
<3>1. PICK i \in 1..Len(list) : list[i] = e
  BY <2>2 DEF Contains
<3>2. CASE i < k
<4>1. i \in 1..(Len(list) + 1) /\ new[i] = e
  BY <1>0, <1>8, <3>1, <3>2
<4> QED
  BY <1>8, <4>1 DEF Contains
<3>3. CASE ~(i < k)
<4>1. i + 1 \in 1..(Len(list) + 1) /\ ~(i + 1 < k) /\ i + 1 # k /\ (i + 1) - 1 = i
  BY <1>0, <1>4, <3>3
<4>2. new[i + 1] = e
  BY <1>8, <3>1, <4>1
<4> QED
  BY <1>8, <4>1, <4>2 DEF Contains
<3> QED
  BY <3>2, <3>3
<2>3. ASSUME e = c PROVE Contains(new, e)
<3>1. k \in 1..Len(new) /\ new[k] = c
  BY <1>4, <1>8
<3> QED
  BY <2>3, <3>1 DEF Contains
<2> QED
  BY <2>1, <2>2, <2>3
<1> QED
  BY <1>7, <1>8, <1>10, <1>11
-----------------------------------------------------------------------------

\* A plugin appended to a list it is not in.
LEMMA AppendedOne ==
    ASSUME NEW S, NEW list \in Seq(S), NEW x \in S
    PROVE  /\ Append(list, x) \in Seq(S)
           /\ \A e : Contains(Append(list, x), e) <=> Contains(list, e) \/ e = x
           /\ IsInjective(list) /\ ~Contains(list, x) => IsInjective(Append(list, x))
<1> DEFINE new == Append(list, x)
<1>0. Len(list) \in Nat /\ DOMAIN list = 1..Len(list)
  BY LenProperties
<1>1. /\ new \in Seq(S) /\ Len(new) = Len(list) + 1
      /\ \A i \in 1..Len(list) : new[i] = list[i]
      /\ new[Len(list) + 1] = x
  BY AppendProperties
<1>2. DOMAIN new = 1..(Len(list) + 1)
  BY <1>1, LenProperties
<1> HIDE DEF new
<1>3. ASSUME NEW e PROVE Contains(new, e) <=> Contains(list, e) \/ e = x
<2>1. ASSUME Contains(new, e) PROVE Contains(list, e) \/ e = x
<3>1. PICK i \in 1..(Len(list) + 1) : new[i] = e
  BY <1>1, <2>1 DEF Contains
<3>2. CASE i = Len(list) + 1
  BY <1>1, <3>1, <3>2
<3>3. CASE i # Len(list) + 1
<4>1. i \in 1..Len(list)
  BY <1>0, <3>3
<4> QED
  BY <1>1, <3>1, <4>1 DEF Contains
<3> QED
  BY <3>2, <3>3
<2>2. ASSUME Contains(list, e) PROVE Contains(new, e)
<3>1. PICK i \in 1..Len(list) : list[i] = e
  BY <2>2 DEF Contains
<3>2. i \in 1..Len(new)
  BY <1>0, <1>1
<3> QED
  BY <1>1, <3>1, <3>2 DEF Contains
<2>3. ASSUME e = x PROVE Contains(new, e)
<3>1. Len(list) + 1 \in 1..Len(new)
  BY <1>0, <1>1
<3> QED
  BY <1>1, <2>3, <3>1 DEF Contains
<2> QED
  BY <2>1, <2>2, <2>3
<1>4. ASSUME IsInjective(list), ~Contains(list, x) PROVE IsInjective(new)
<2>1. \A i \in 1..Len(list) : new[i] # x
  BY <1>1, <1>4 DEF Contains
<2>2. \A i \in 1..(Len(list) + 1) : i # Len(list) + 1 => i \in 1..Len(list)
  BY <1>0
<2>3. ASSUME NEW i \in 1..(Len(list) + 1), NEW j \in 1..(Len(list) + 1), new[i] = new[j]
      PROVE  i = j
<3>1. CASE i = Len(list) + 1
  BY <1>1, <2>1, <2>2, <2>3, <3>1
<3>2. CASE j = Len(list) + 1
  BY <1>1, <2>1, <2>2, <2>3, <3>2
<3>3. CASE i # Len(list) + 1 /\ j # Len(list) + 1
<4>1. i \in 1..Len(list) /\ j \in 1..Len(list)
  BY <2>2, <3>3
<4> QED
  BY <1>0, <1>1, <1>4, <2>3, <4>1 DEF IsInjective
<3> QED
  BY <3>1, <3>2, <3>3
<2> QED
  BY <1>2, <2>3 DEF IsInjective
<1> QED
  BY <1>1, <1>3, <1>4 DEF new
-----------------------------------------------------------------------------
(* Stacks of dispatches: what a push, a return and a turn leave good. *)

LEMMA EnteredGood ==
    ASSUME Types, NEW n \in Names, NEW s \in Seq(Frames),
           \A k \in 1..Len(s) : Good(s[k]), NEW e \in Entered(n, s)
    PROVE  /\ e \in Seq(Frames)
           /\ \A k \in 1..Len(e) : Good(e[k])
           /\ GetCbIndex(n) => Len(e) = Len(s) + 1 /\ e[1].cb = None
           /\ ~GetCbIndex(n) => e = s
<1>1. CASE ~GetCbIndex(n)
  BY <1>1 DEF Entered
<1>2. CASE GetCbIndex(n)
<2>1. PICK count \in Counts(n) : e = <<Frame(n, count)>> \o s
  BY <1>2 DEF Entered
<2>2. count \in Nat
<3>1. index[n] \in Seq(Callbacks) /\ Len(index[n]) \in Nat
  BY LenProperties DEF Types, ListTypes
<3>2. CASE count = Len(index[n])
  BY <3>1, <3>2
<3>3. CASE count = Len(index[n]) + 1
  BY <3>1, <3>3
<3>4. CASE count = Len(index[n]) - 1 /\ \E c : c \in ToSet(index[n])
<4>1. index[n] # <<>>
  BY <3>4 DEF ToSet
<4>2. Len(index[n]) # 0
  BY <3>1, <4>1, EmptySeq
<4> QED
  BY <3>1, <3>4, <4>2
<3> QED
  BY <2>1, <3>2, <3>3, <3>4 DEF Counts
<2> DEFINE f == Frame(n, count)
           new == <<f>> \o s
<2>3. f \in Frames /\ f.cb = None /\ f.called = {}
  BY <2>2 DEF Frame, Frames
<2>4. Good(f)
  BY <2>3 DEF Good, CalledBehind
<2>5. e = new
  BY <2>1
<2> HIDE DEF f
<2>6. <<f>> \in Seq(Frames) /\ Len(<<f>>) = 1 /\ <<f>>[1] = f
  BY <2>3
<2>7. /\ new \in Seq(Frames) /\ Len(new) = Len(<<f>>) + Len(s)
      /\ \A k \in 1..(Len(<<f>>) + Len(s)) :
            new[k] = IF k <= Len(<<f>>) THEN <<f>>[k] ELSE s[k - Len(<<f>>)]
  BY <2>6, ConcatProperties, Zenon
<2>8. Len(s) \in Nat
  BY LenProperties
<2>9. Len(new) = Len(s) + 1 /\ new[1] = f
  BY <2>6, <2>7, <2>8
<2>10. ASSUME NEW k \in 1..(Len(s) + 1) PROVE Good(new[k])
<3>1. CASE k = 1
  BY <2>4, <2>9, <3>1
<3>2. CASE k # 1
<4>1. k - 1 \in 1..Len(s) /\ new[k] = s[k - 1]
  BY <2>6, <2>7, <2>8, <3>2
<4> QED
  BY <4>1
<3> QED
  BY <3>1, <3>2
<2> QED
  BY <1>2, <2>3, <2>5, <2>7, <2>9, <2>10
<1> QED
  BY <1>1, <1>2

LEMMA TailGood ==
    ASSUME NEW s \in Seq(Frames), s # <<>>, \A k \in 1..Len(s) : Good(s[k])
    PROVE  /\ Tail(s) \in Seq(Frames) /\ Len(Tail(s)) = Len(s) - 1 /\ Len(s) \in Nat \ {0}
           /\ \A k \in 1..Len(Tail(s)) : Good(Tail(s)[k])
           /\ Head(s) = s[1] /\ s[1] \in Frames /\ Good(s[1])
<1>1. Len(s) \in Nat \ {0}
  BY EmptySeq
<1>2. /\ Tail(s) \in Seq(Frames) /\ Len(Tail(s)) = Len(s) - 1
      /\ \A k \in 1..Len(Tail(s)) : Tail(s)[k] = s[k + 1]
  BY HeadTailProperties, Zenon
<1>3. \A k \in 1..Len(Tail(s)) : k + 1 \in 1..Len(s)
  BY <1>1, <1>2
<1>4. \A k \in 1..Len(Tail(s)) : Good(Tail(s)[k])
  BY <1>2, <1>3
<1>5. 1 \in 1..Len(s)
  BY <1>1
<1>6. s[1] \in Frames /\ Good(s[1])
  BY <1>5, ElementOfSeq
<1>7. Head(s) = s[1]
  OBVIOUS
<1> QED
  BY <1>1, <1>2, <1>4, <1>6, <1>7

LEMMA TurnGood ==
    ASSUME NEW s \in Seq(Frames), s # <<>>, \A k \in 1..Len(s) : Good(s[k]),
           NEW f \in Frames, Good(f)
    PROVE  /\ [s EXCEPT ![1] = f] \in Seq(Frames)
           /\ Len([s EXCEPT ![1] = f]) = Len(s)
           /\ [s EXCEPT ![1] = f] # <<>>
           /\ [s EXCEPT ![1] = f][1] = f
           /\ \A k \in 1..Len(s) : Good([s EXCEPT ![1] = f][k])
<1>1. 1 \in 1..Len(s)
  BY TailGood
<1>2. /\ [s EXCEPT ![1] = f] \in Seq(Frames)
      /\ Len([s EXCEPT ![1] = f]) = Len(s)
      /\ \A k \in 1..Len(s) : [s EXCEPT ![1] = f][k] = IF k = 1 THEN f ELSE s[k]
  BY <1>1, ExceptSeq
<1>3. [s EXCEPT ![1] = f] # <<>>
  BY <1>1, <1>2
<1> QED
  BY <1>1, <1>2, <1>3
-----------------------------------------------------------------------------
(* What a step leaves alone. *)

LEMMA JobFrame ==
    ASSUME JobInv, UNCHANGED <<job, stack>> PROVE JobInv'
  BY DEF JobInv, OneJob, JobShape, BetweenTurns

LEMMA PluginFrame ==
    ASSUME PluginInv, UNCHANGED <<pluginList, registered, mapped, job, todo>>
    PROVE  PluginInv'
<1>1. IsInjective(pluginList)' /\ Pending'
  BY DEF PluginInv, Pending, Registering
<1>2. \A p \in Plugins : Prefix(p)' /\ Present(p)'
  BY DEF PluginInv, Prefix, Present, Registering
<1>3. \A t \in Threads : JobPlace(t)'
  BY DEF PluginInv, JobPlace
<1> QED
  BY <1>1, <1>2, <1>3 DEF PluginInv

LEMMA IndexFrame ==
    ASSUME IndexInv, UNCHANGED <<index, registered>>,
           \A p \in Plugins : \A i \in 1..Len(registered[p]) : TakenOut(p, i)' <=> TakenOut(p, i)
    PROVE  IndexInv'
<1>1. \A n \in Names : Ordered(index[n])' /\ Known(n)'
  BY DEF IndexInv, Ordered, Known
<1>2. \A p \in Plugins : Listed(p)'
  BY DEF IndexInv, Listed
<1> QED
  BY <1>1, <1>2 DEF IndexInv

LEMMA StackFrame ==
    ASSUME StackInv, UNCHANGED <<stack, index, reloads>> PROVE StackInv'
  BY DEF StackInv, Good, CalledBehind

LEMMA TypesFrame ==
    ASSUME Types, UNCHANGED <<tables, job, loading>>, undefined' \in BOOLEAN PROVE Types'
  BY DEF Types, ListTypes, PlainTypes, tables, loading

\* One thread's dispatches change.
LEMMA OneStack ==
    ASSUME StackInv, NEW t \in Readers, NEW s \in Seq(Frames),
           \A k \in 1..Len(s) : Good(s[k]),
           stack' = [stack EXCEPT ![t] = s], UNCHANGED <<index, reloads>>
    PROVE  StackInv'
<1>1. stack' \in [Readers -> Seq(Frames)]
  BY DEF StackInv
<1>2. ASSUME NEW u \in Readers, NEW k \in 1..Len(stack'[u]) PROVE Good(stack'[u][k])
<2>1. CASE u = t
  BY <1>2, <2>1 DEF StackInv
<2>2. CASE u # t
  BY <1>2, <2>2 DEF StackInv
<2> QED
  BY <2>1, <2>2
<1>3. ASSUME NEW u \in Readers, NEW k \in 1..Len(stack'[u]) PROVE Good(stack[u][k])'
<2>1. Good(stack'[u][k])
  BY <1>2
<2> QED
  BY <2>1 DEF Good, CalledBehind
<1> QED
  BY <1>1, <1>3 DEF StackInv

LEMMA UndefinedKeeps == ASSUME IInv, Undefined PROVE IInv'
<1>1. Types'
  BY TypesFrame DEF IInv, Undefined
<1>2. UNCHANGED <<pluginList, status, registered, indexList, index, nameOwner, mapped,
                  stack, job, todo, reloads>>
  BY DEF Undefined, tables, loading
<1>3. JobInv'
  BY <1>2, JobFrame DEF IInv
<1>4. PluginInv'
  BY <1>2, PluginFrame DEF IInv
<1>5. IndexInv'
  BY <1>2, IndexFrame DEF IInv, TakenOut, Removes
<1>6. StartedLate'
  BY <1>2 DEF IInv, StartedLate
<1>7. StackInv'
  BY <1>2, StackFrame DEF IInv
<1> QED
  BY <1>1, <1>3, <1>4, <1>5, <1>6, <1>7 DEF IInv
-----------------------------------------------------------------------------
(* execute_callbacks: the dispatches of one reader change, and nothing else *)
(* but the status of a plugin.                                              *)

LEMMA DispatchKeeps ==
    ASSUME IInv, NEW t \in Readers, job[t] = Idle,
           stack[t] # <<>> \/ (reloads = 0 => todo = <<>> /\ job[Loader] = Idle),
           NEW s \in Seq(Frames), \A k \in 1..Len(s) : Good(s[k]),
           stack' = [stack EXCEPT ![t] = s],
           status' \in [Plugins -> {"RUNNING", "PAUSED"}],
           UNCHANGED <<pluginList, registered, indexList, index, nameOwner, mapped,
                       job, loading, undefined>>
    PROVE  IInv'
<1>0. UNCHANGED <<pluginList, registered, indexList, index, nameOwner, mapped,
                  job, todo, reloads, undefined>>
  BY DEF loading
<1>1. Types'
  BY <1>0 DEF IInv, Types, ListTypes, PlainTypes
<1>2. JobInv'
<2>1. OneJob' /\ \A u \in Threads : JobShape(u)'
  BY <1>0 DEF IInv, JobInv, OneJob, JobShape
<2>2. BetweenTurns'
  BY <1>0 DEF IInv, JobInv, BetweenTurns, StackInv
<2> QED
  BY <2>1, <2>2 DEF JobInv
<1>3. PluginInv'
  BY <1>0, PluginFrame DEF IInv
<1>4. IndexInv'
  BY <1>0, IndexFrame DEF IInv, TakenOut, Removes
<1>5. StartedLate'
<2> SUFFICES ASSUME reloads' = 0, NEW u \in Readers, stack'[u] # <<>>
             PROVE  todo' = <<>> /\ job'[Loader] = Idle
  BY DEF StartedLate
<2>1. CASE u = t
  BY <1>0, <2>1 DEF IInv, StartedLate
<2>2. CASE u # t
<3>1. stack[u] # <<>>
  BY <2>2 DEF IInv, StackInv
<3> QED
  BY <1>0, <3>1 DEF IInv, StartedLate
<2> QED
  BY <2>1, <2>2
<1>6. StackInv'
  BY <1>0, OneStack DEF IInv
<1> QED
  BY <1>1, <1>2, <1>3, <1>4, <1>5, <1>6 DEF IInv

\* A reader inside a callback is not removing a plugin.
LEMMA CallbackRuns ==
    ASSUME IInv, NEW t \in Readers, InCallback(t)
    PROVE  job[t] = Idle
<1>1. stack[t] \in Seq(Frames) /\ stack[t] # <<>> /\ Head(stack[t]).cb # None
  BY DEF IInv, StackInv, InCallback
<1>2. stack[t][1].cb # None
  BY <1>1, Zenon, TailGood DEF IInv, StackInv
<1> QED
  BY <1>2 DEF IInv, JobInv, BetweenTurns

\* The innermost dispatch of a reader, and those around it.
LEMMA Innermost ==
    ASSUME IInv, NEW t \in Readers, stack[t] # <<>>
    PROVE  /\ stack[t] \in Seq(Frames) /\ Len(stack[t]) \in Nat \ {0}
           /\ \A k \in 1..Len(stack[t]) : Good(stack[t][k])
           /\ Head(stack[t]) = stack[t][1]
           /\ stack[t][1] \in Frames /\ Good(stack[t][1])
           /\ Tail(stack[t]) \in Seq(Frames) /\ Len(Tail(stack[t])) = Len(stack[t]) - 1
           /\ \A k \in 1..Len(Tail(stack[t])) : Good(Tail(stack[t])[k])
<1>1. stack[t] \in Seq(Frames) /\ \A k \in 1..Len(stack[t]) : Good(stack[t][k])
  BY DEF IInv, StackInv
<1> QED
  BY <1>1, TailGood

LEMMA RaiseRootKeeps ==
    ASSUME IInv, NEW t \in Readers, NEW n \in Names, RaiseRoot(t, n)
    PROVE  IInv'
<1>1. CASE Undefined
  BY <1>1, UndefinedKeeps
<1>2. CASE /\ \E frames \in Entered(n, stack[t]) : stack' = [stack EXCEPT ![t] = frames]
           /\ UNCHANGED <<tables, job, loading, undefined>>
<2>0. PICK s \in Entered(n, stack[t]) : stack' = [stack EXCEPT ![t] = s]
  BY <1>2
<2>1. stack[t] = <<>> /\ Booted
  BY DEF RaiseRoot
<2>2. stack[t] \in Seq(Frames) /\ \A k \in 1..Len(stack[t]) : Good(stack[t][k])
  BY DEF IInv, StackInv
<2>3. s \in Seq(Frames) /\ \A k \in 1..Len(s) : Good(s[k])
  BY <2>2, EnteredGood DEF IInv
<2>4. job[t] = Idle
  BY <2>1 DEF IInv, JobInv, BetweenTurns
<2>5. reloads = 0 => todo = <<>> /\ job[Loader] = Idle
  BY <2>1 DEF Booted
<2>7. /\ status' \in [Plugins -> {"RUNNING", "PAUSED"}]
      /\ UNCHANGED <<pluginList, registered, indexList, index, nameOwner, mapped,
                     job, loading, undefined>>
  BY <1>2 DEF tables, IInv, Types, PlainTypes
<2> QED
  BY <2>0, <2>3, <2>4, <2>5, <2>7, DispatchKeeps
<1> QED
  BY <1>1, <1>2 DEF RaiseRoot

LEMMA RaiseNestedKeeps ==
    ASSUME IInv, NEW t \in Readers, NEW n \in Names, RaiseNested(t, n)
    PROVE  IInv'
<1> DEFINE f == Head(stack[t])
           g == [f EXCEPT !.raised = TRUE]
<1>1. CASE Undefined
  BY <1>1, UndefinedKeeps
<1>2. CASE /\ \E frames \in Entered(n, <<g>> \o Tail(stack[t])) :
                  stack' = [stack EXCEPT ![t] = frames]
           /\ UNCHANGED <<tables, job, loading, undefined>>
<2>1. stack[t] # <<>> /\ job[t] = Idle
  BY CallbackRuns DEF RaiseNested, InCallback
<2>2. /\ f \in Frames /\ Good(f)
      /\ Tail(stack[t]) \in Seq(Frames)
      /\ \A k \in 1..Len(Tail(stack[t])) : Good(Tail(stack[t])[k])
  BY <2>1, Innermost
<2>3. g \in Frames /\ g.cb = f.cb /\ g.i = f.i /\ g.count = f.count
      /\ g.called = f.called /\ g.name = f.name
  BY <2>2 DEF Frames
<2>4. Good(g)
  BY <2>2, <2>3 DEF Good, CalledBehind
<2> HIDE DEF g
<2> DEFINE r == <<g>> \o Tail(stack[t])
<2>5. r \in Seq(Frames) /\ \A k \in 1..Len(r) : Good(r[k])
<3>1. <<g>> \in Seq(Frames) /\ Len(<<g>>) = 1 /\ <<g>>[1] = g
  BY <2>3
<3>2. /\ r \in Seq(Frames) /\ Len(r) = Len(<<g>>) + Len(Tail(stack[t]))
      /\ \A k \in 1..(Len(<<g>>) + Len(Tail(stack[t]))) :
            r[k] = IF k <= Len(<<g>>) THEN <<g>>[k] ELSE Tail(stack[t])[k - Len(<<g>>)]
  BY <2>2, <3>1, ConcatProperties, Zenon
<3>3. Len(Tail(stack[t])) \in Nat
  BY <2>2, LenProperties
<3> HIDE DEF r
<3>4. ASSUME NEW k \in 1..Len(r) PROVE Good(r[k])
<4>1. CASE k = 1
  BY <2>4, <3>1, <3>2, <4>1
<4>2. CASE k # 1
<5>1. k - 1 \in 1..Len(Tail(stack[t])) /\ r[k] = Tail(stack[t])[k - 1]
  BY <3>1, <3>2, <3>3, <4>2
<5> QED
  BY <2>2, <5>1
<4> QED
  BY <4>1, <4>2
<3> QED
  BY <3>2, <3>4
<2>6. PICK s \in Entered(n, r) : stack' = [stack EXCEPT ![t] = s]
  BY <1>2
<2> HIDE DEF r
<2>7. s \in Seq(Frames) /\ \A k \in 1..Len(s) : Good(s[k])
  BY <2>5, <2>6, EnteredGood DEF IInv
<2>8. /\ status' \in [Plugins -> {"RUNNING", "PAUSED"}]
      /\ UNCHANGED <<pluginList, registered, indexList, index, nameOwner, mapped,
                     job, loading, undefined>>
  BY <1>2 DEF tables, IInv, Types, PlainTypes
<2> QED
  BY <2>1, <2>6, <2>7, <2>8, DispatchKeeps
<1> QED
  BY <1>1, <1>2 DEF RaiseNested

\* A turn of the loop, or the end of one, in the innermost dispatch.
LEMMA TurnKeeps ==
    ASSUME IInv, NEW t \in Readers, stack[t] # <<>>, job[t] = Idle,
           NEW g \in Frames, Good(g),
           stack' = [stack EXCEPT ![t] = [stack[t] EXCEPT ![1] = g]],
           status' \in [Plugins -> {"RUNNING", "PAUSED"}],
           UNCHANGED <<pluginList, registered, indexList, index, nameOwner, mapped,
                       job, loading, undefined>>
    PROVE  IInv'
<1> DEFINE s == [stack[t] EXCEPT ![1] = g]
<1>1. stack[t] \in Seq(Frames) /\ \A k \in 1..Len(stack[t]) : Good(stack[t][k])
  BY Innermost
<1>2. s \in Seq(Frames) /\ Len(s) = Len(stack[t]) /\ \A k \in 1..Len(stack[t]) : Good(s[k])
  BY <1>1, TurnGood, Zenon
<1>3. stack' = [stack EXCEPT ![t] = s]
  OBVIOUS
<1> HIDE DEF s
<1> QED
  BY <1>2, <1>3, DispatchKeeps

LEMMA ReadCallbackKeeps ==
    ASSUME IInv, NEW t \in Readers, ReadCallback(t)
    PROVE  IInv'
<1> DEFINE f == Head(stack[t])
           c == index[f.name][f.i]
           g == [f EXCEPT !.cb = c, !.inside = FALSE, !.raised = FALSE, !.called = @ \cup {c}]
<1>1. CASE Undefined
  BY <1>1, UndefinedKeeps
<1>2. CASE ~Undefined
<2>1. /\ stack[t] # <<>> /\ job[t] = Idle /\ f.cb = None
      /\ More(f) /\ f.i <= Len(index[f.name])
      /\ stack' = [stack EXCEPT ![t][1].cb = c,
                                ![t][1].inside = FALSE,
                                ![t][1].raised = FALSE,
                                ![t][1].called = @ \cup {c}]
      /\ UNCHANGED <<tables, job, loading, undefined>>
  BY <1>2 DEF ReadCallback, Readable, Dispatching
<2>2. f = stack[t][1] /\ f \in Frames /\ Good(f) /\ stack[t] \in Seq(Frames)
      /\ 1 \in DOMAIN stack[t]
<3>1. stack[t] \in Seq(Frames) /\ Len(stack[t]) \in Nat \ {0} /\ f = stack[t][1] /\ f \in Frames /\ Good(f)
  BY <2>1, Innermost, Zenon
<3> QED
  BY <3>1
<2>3. index[f.name] \in Seq(Callbacks) /\ f.i \in 1..Len(index[f.name]) /\ f.name \in Names
<3> HIDE DEF f
<3>1. f.i \in Nat \ {0} /\ f.name \in Names
  BY <2>2 DEF Frames
<3>2. index[f.name] \in Seq(Callbacks)
  BY <3>1 DEF IInv, Types, ListTypes
<3>3. Len(index[f.name]) \in Nat
  BY <3>2, LenProperties
<3> QED
  BY <2>1, <3>1, <3>2, <3>3
<2>4. c \in Callbacks /\ c # None
  BY <2>3, ElementOfSeq, PluginsAssumption
<2>5. g \in Frames /\ g.cb = c /\ g.i = f.i /\ g.count = f.count
      /\ g.called = f.called \cup {c} /\ g.name = f.name
  BY <2>2, <2>4 DEF Frames
<2>6. Good(g)
<3>1. f.i <= f.count
  BY <2>1 DEF More
<3>2. ASSUME reloads = 0, NEW j \in 1..Len(index[f.name]), index[f.name][j] \in f.called \cup {c}
      PROVE  j < f.i \/ j = f.i
<4>1. CASE index[f.name][j] \in f.called
  BY <2>1, <2>2, <3>2, <4>1 DEF Good, CalledBehind
<4>2. CASE index[f.name][j] = c
<5>1. Ordered(index[f.name])
  BY <2>3 DEF IInv, IndexInv
<5>2. f.i < j \/ j < f.i \/ j = f.i
  BY <2>3
<5> QED
  BY <2>3, <4>2, <5>1, <5>2 DEF Ordered
<4> QED
  BY <3>2, <4>1, <4>2
<3> HIDE DEF f, g
<3>3. reloads = 0 => CalledBehind(g)
  BY <2>4, <2>5, <3>2 DEF CalledBehind
<3> QED
  BY <2>5, <3>1, <3>3 DEF Good
<2>7. stack' = [stack EXCEPT ![t] = [stack[t] EXCEPT ![1] = g]]
<3>1. stack \in [Readers -> Seq(Frames)]
  BY DEF IInv, StackInv
<3> QED
  BY <2>1, <2>2, <3>1
<2>8. /\ status' \in [Plugins -> {"RUNNING", "PAUSED"}]
      /\ UNCHANGED <<pluginList, registered, indexList, index, nameOwner, mapped,
                     job, loading, undefined>>
  BY <2>1 DEF tables, IInv, Types, PlainTypes
<2> HIDE DEF g
<2> QED
  BY <2>1, <2>5, <2>6, <2>7, <2>8, TurnKeeps
<1> QED
  BY <1>1, <1>2

\* A reader that has read a callback, or is inside one, is not removing a
\* plugin.
LEMMA FetchedRuns ==
    ASSUME IInv, NEW t \in Readers, stack[t] # <<>>, Head(stack[t]).cb # None
    PROVE  job[t] = Idle
<1>1. stack[t] \in Seq(Frames)
  BY DEF IInv, StackInv
<1>2. stack[t][1].cb # None
  BY <1>1, Zenon, TailGood DEF IInv, StackInv
<1> QED
  BY <1>2 DEF IInv, JobInv, BetweenTurns

LEMMA CallCallbackKeeps ==
    ASSUME IInv, NEW t \in Readers, CallCallback(t)
    PROVE  IInv'
<1> DEFINE f == Head(stack[t])
           g == [f EXCEPT !.inside = TRUE]
<1>1. CASE Undefined
  BY <1>1, UndefinedKeeps
<1>2. CASE ~Undefined
<2>1. /\ stack[t] # <<>> /\ f.cb # None
      /\ stack' = [stack EXCEPT ![t][1].inside = TRUE]
      /\ UNCHANGED <<tables, job, loading, undefined>>
  BY <1>2 DEF CallCallback, Fetched
<2>2. job[t] = Idle
  BY <2>1, FetchedRuns
<2>3. f = stack[t][1] /\ f \in Frames /\ Good(f) /\ stack[t] \in Seq(Frames)
      /\ 1 \in DOMAIN stack[t]
<3>1. stack[t] \in Seq(Frames) /\ Len(stack[t]) \in Nat \ {0} /\ f = stack[t][1] /\ f \in Frames /\ Good(f)
  BY <2>1, Innermost, Zenon
<3> QED
  BY <3>1
<2>4. g \in Frames /\ g.cb = f.cb /\ g.i = f.i /\ g.count = f.count
      /\ g.called = f.called /\ g.name = f.name
  BY <2>3 DEF Frames
<2>5. stack' = [stack EXCEPT ![t] = [stack[t] EXCEPT ![1] = g]]
<3>1. stack \in [Readers -> Seq(Frames)]
  BY DEF IInv, StackInv
<3> QED
  BY <2>1, <2>3, <3>1
<2> HIDE DEF g
<2>6. Good(g)
  BY <2>3, <2>4 DEF Good, CalledBehind
<2>7. /\ status' \in [Plugins -> {"RUNNING", "PAUSED"}]
      /\ UNCHANGED <<pluginList, registered, indexList, index, nameOwner, mapped,
                     job, loading, undefined>>
  BY <2>1 DEF tables, IInv, Types, PlainTypes
<2> QED
  BY <2>1, <2>2, <2>4, <2>5, <2>6, <2>7, TurnKeeps
<1> QED
  BY <1>1, <1>2

\* What every return of a callback has in common.
LEMMA Returning ==
    ASSUME IInv, NEW t \in Readers, InCallback(t), Proceed(t)
    PROVE  LET f == Head(stack[t])
               g == [f EXCEPT !.cb = None, !.i = NextAt(f)]
           IN  /\ stack[t] # <<>> /\ job[t] = Idle
               /\ g \in Frames /\ g.cb = None /\ Good(g)
               /\ stack' = [stack EXCEPT ![t] = [stack[t] EXCEPT ![1] = g]]
<1> DEFINE f == Head(stack[t])
           g == [f EXCEPT !.cb = None, !.i = NextAt(f)]
<1>1. stack[t] # <<>> /\ job[t] = Idle /\ f.cb # None
  BY CallbackRuns DEF InCallback
<1>2. stack[t] \in Seq(Frames) /\ Len(stack[t]) \in Nat \ {0} /\ f = stack[t][1] /\ f \in Frames /\ Good(f)
  BY <1>1, Innermost, Zenon
<1>3. f.i \in Nat \ {0} /\ NextAt(f) = f.i + 1
  BY <1>2 DEF Frames, NextAt
<1>4. g \in Frames /\ g.cb = None /\ g.i = f.i + 1 /\ g.called = f.called /\ g.name = f.name
<2>1. NextAt(f) \in Nat \ {0}
  BY <1>3
<2> HIDE DEF f
<2> QED
  BY <1>2, <1>3, <2>1 DEF Frames
<1>5. Good(g)
<2>1. ASSUME reloads = 0, NEW j \in 1..Len(index[f.name]), index[f.name][j] \in f.called
      PROVE  j < f.i + 1
  BY <1>2, <1>3, <2>1 DEF Good, CalledBehind
<2> HIDE DEF f, g
<2> QED
  BY <1>4, <2>1 DEF Good, CalledBehind
<1>6. stack' = [stack EXCEPT ![t] = [stack[t] EXCEPT ![1] = g]]
<2>1. stack \in [Readers -> Seq(Frames)] /\ 1 \in DOMAIN stack[t]
  BY <1>2 DEF IInv, StackInv
<2> QED
  BY <1>2, <2>1 DEF Proceed
<1> QED
  BY <1>1, <1>4, <1>5, <1>6

LEMMA ReturnOkKeeps ==
    ASSUME IInv, NEW t \in Readers, ReturnOk(t)
    PROVE  IInv'
<1> DEFINE g == [Head(stack[t]) EXCEPT !.cb = None, !.i = NextAt(Head(stack[t]))]
<1>1. /\ stack[t] # <<>> /\ job[t] = Idle /\ g \in Frames /\ Good(g)
      /\ stack' = [stack EXCEPT ![t] = [stack[t] EXCEPT ![1] = g]]
  BY Returning DEF ReturnOk, Returns
<1>2. /\ status' \in [Plugins -> {"RUNNING", "PAUSED"}]
      /\ UNCHANGED <<pluginList, registered, indexList, index, nameOwner, mapped,
                     job, loading, undefined>>
  BY DEF ReturnOk, tables, IInv, Types, PlainTypes
<1> HIDE DEF g
<1> QED
  BY <1>1, <1>2, TurnKeeps

LEMMA ReturnStopKeeps ==
    ASSUME IInv, NEW t \in Readers, ReturnStop(t)
    PROVE  IInv'
<1> DEFINE g == [Head(stack[t]) EXCEPT !.cb = None, !.i = NextAt(Head(stack[t]))]
           i == Head(stack[t]).i
<1>1. CASE Undefined
  BY <1>1, UndefinedKeeps
<1>2. CASE ~Undefined
<2>1. /\ i \in DOMAIN pluginList
      /\ status' = [status EXCEPT ![pluginList[i]] = "PAUSED"]
      /\ Proceed(t) /\ InCallback(t)
      /\ UNCHANGED <<pluginList, registered, indexList, index, nameOwner, mapped,
                     job, loading, undefined>>
  BY <1>2 DEF ReturnStop, Returns
<2>2. /\ stack[t] # <<>> /\ job[t] = Idle /\ g \in Frames /\ Good(g)
      /\ stack' = [stack EXCEPT ![t] = [stack[t] EXCEPT ![1] = g]]
  BY <2>1, Returning
<2>3. status' \in [Plugins -> {"RUNNING", "PAUSED"}]
  BY <2>1 DEF IInv, Types, PlainTypes
<2> HIDE DEF g, i
<2> QED
  BY <2>1, <2>2, <2>3, TurnKeeps
<1> QED
  BY <1>1, <1>2

LEMMA ReturnBreakKeeps ==
    ASSUME IInv, NEW t \in Readers, ReturnBreak(t)
    PROVE  IInv'
<1> DEFINE s == Tail(stack[t])
<1>1. /\ stack[t] # <<>> /\ InCallback(t)
      /\ stack' = [stack EXCEPT ![t] = s]
  BY DEF ReturnBreak, Returns, InCallback
<1>2. job[t] = Idle
  BY <1>1, CallbackRuns
<1>3. s \in Seq(Frames) /\ \A k \in 1..Len(s) : Good(s[k])
  BY <1>1, Innermost
<1>4. /\ status' \in [Plugins -> {"RUNNING", "PAUSED"}]
      /\ UNCHANGED <<pluginList, registered, indexList, index, nameOwner, mapped,
                     job, loading, undefined>>
  BY DEF ReturnBreak, tables, IInv, Types, PlainTypes
<1> HIDE DEF s
<1> QED
  BY <1>1, <1>2, <1>3, <1>4, DispatchKeeps

LEMMA FinishDispatchKeeps ==
    ASSUME IInv, NEW t \in Readers, FinishDispatch(t)
    PROVE  IInv'
<1> DEFINE r == Tail(stack[t])
<1>1. CASE Undefined
  BY <1>1, UndefinedKeeps
<1>2. CASE ~Undefined
<2>1. /\ stack[t] # <<>> /\ job[t] = Idle
      /\ \/ \E frames \in Entered(Executed, r) : stack' = [stack EXCEPT ![t] = frames]
         \/ stack' = [stack EXCEPT ![t] = r]
      /\ UNCHANGED <<tables, job, loading, undefined>>
  BY <1>2 DEF FinishDispatch, Dispatching
<2>2. r \in Seq(Frames) /\ \A k \in 1..Len(r) : Good(r[k])
  BY <2>1, Innermost
<2>3. Executed \in Names
  BY CallbacksAssumption
<2> HIDE DEF r
<2>4. \A e \in Entered(Executed, r) :
         e \in Seq(Frames) /\ \A k \in 1..Len(e) : Good(e[k])
  BY <2>2, <2>3, EnteredGood DEF IInv
<2>5. /\ status' \in [Plugins -> {"RUNNING", "PAUSED"}]
      /\ UNCHANGED <<pluginList, registered, indexList, index, nameOwner, mapped,
                     job, loading, undefined>>
  BY <2>1 DEF tables, IInv, Types, PlainTypes
<2>6. CASE stack' = [stack EXCEPT ![t] = r]
  BY <2>1, <2>2, <2>5, <2>6, DispatchKeeps
<2>7. CASE \E frames \in Entered(Executed, r) : stack' = [stack EXCEPT ![t] = frames]
<3>1. PICK e \in Entered(Executed, r) : stack' = [stack EXCEPT ![t] = e]
  BY <2>7
<3> QED
  BY <2>1, <2>4, <2>5, <3>1, DispatchKeeps
<2> QED
  BY <2>1, <2>6, <2>7
<1> QED
  BY <1>1, <1>2
-----------------------------------------------------------------------------
(* A removal begins, for the autoload plugin or after a callback that failed. *)

AllIdle == \A t \in Threads : job[t] = Idle

LEMMA JobFields ==
    /\ Idle \in Jobs /\ Idle.do = "nothing" /\ Idle.plugin = None /\ Idle.at = 0
    /\ \A p \in Plugins :
          /\ RemovalOf(p) \in Jobs /\ RemovalOf(p) # Idle /\ RemovalOf(p).do = "unindex"
          /\ RemovalOf(p).plugin = p /\ RemovalOf(p).at = 1
<1>1. <<>> \in Seq(Plugins)
  OBVIOUS
<1>2. Idle \in Jobs /\ Idle.do = "nothing" /\ Idle.plugin = None /\ Idle.at = 0
  BY <1>1 DEF Idle, Jobs
<1>3. ASSUME NEW p \in Plugins
      PROVE  /\ RemovalOf(p) \in Jobs /\ RemovalOf(p).do = "unindex"
             /\ RemovalOf(p).plugin = p /\ RemovalOf(p).at = 1
  BY <1>2 DEF RemovalOf, Jobs
<1> QED
  BY <1>2, <1>3

\* The thread that is at work is the only one.
LEMMA Others ==
    ASSUME IInv, NEW t \in Threads, job[t].do # "nothing"
    PROVE  \A u \in Threads : u # t => job[u] = Idle /\ job[u].do = "nothing"
  BY JobFields DEF IInv, JobInv, OneJob

LEMMA RemovalBegins ==
    ASSUME IInv, NEW t \in Threads, AllIdle, NEW p \in Plugins, Contains(pluginList, p),
           job' = [job EXCEPT ![t] = RemovalOf(p)],
           UNCHANGED <<pluginList, registered, index, mapped>>,
           (t # Loader /\ todo' = todo) \/ (t = Loader /\ todo' = <<p>>)
    PROVE  /\ job' \in [Threads -> Jobs]
           /\ OneJob' /\ \A u \in Threads : JobShape(u)'
           /\ PluginInv' /\ IndexInv'
<1>1. job \in [Threads -> Jobs] /\ Loader \in Threads
  BY DEF IInv, Types, PlainTypes, Threads
<1>2. /\ job' \in [Threads -> Jobs]
      /\ \A u \in Threads : job'[u] = IF u = t THEN RemovalOf(p) ELSE Idle
  BY <1>1, JobFields DEF AllIdle
<1>3. OneJob'
  BY <1>2 DEF OneJob
<1>4. ASSUME NEW u \in Threads PROVE JobShape(u)'
  BY <1>2, JobFields DEF JobShape
<1>5. \A u \in Threads : job[u].do = "nothing"
  BY JobFields DEF AllIdle
<1>6. PluginInv'
<2>1. IsInjective(pluginList)' /\ \A q \in Plugins : Prefix(q)'
  BY DEF IInv, PluginInv, Prefix
<2>2. \A q \in Plugins : Present(q)'
  BY <1>1, <1>5 DEF IInv, PluginInv, Present, Registering
<2>3. ASSUME NEW u \in Threads PROVE JobPlace(u)'
<3>1. CASE u = t
<4>1. Len(registered[p]) \in Nat
  BY LenProperties DEF IInv, Types, ListTypes
<4>2. /\ job'[u].do = "unindex" /\ job'[u].plugin = p /\ job'[u].at = 1
  BY <1>2, <3>1, JobFields
<4> QED
  BY <4>1, <4>2 DEF JobPlace
<3>2. CASE u # t
  BY <1>2, <3>2, JobFields DEF JobPlace
<3> QED
  BY <3>1, <3>2
<2>4. Pending'
<3>1. CASE t = Loader /\ todo' = <<p>>
<4>1. Len(todo') = 1 /\ todo'[1] = p /\ DOMAIN todo' = 1..1
  BY <3>1
<4>2. IsInjective(todo')
  BY <4>1 DEF IsInjective
<4>3. job'[Loader].do = "unindex" /\ job'[Loader].plugin = p
  BY <1>1, <1>2, <3>1, JobFields
<4> QED
  BY <4>1, <4>2, <4>3 DEF Pending, Registering
<3>2. CASE t # Loader /\ todo' = todo
<4>1. job'[Loader] = job[Loader]
  BY <1>1, <3>2
<4> QED
  BY <3>2, <4>1 DEF IInv, PluginInv, Pending, Registering
<3> QED
  BY <3>1, <3>2
<2> QED
  BY <2>1, <2>2, <2>3, <2>4 DEF PluginInv
<1>7. IndexInv'
<2>1. ASSUME NEW q \in Plugins, NEW i \in 1..Len(registered[q])
      PROVE  ~TakenOut(q, i) /\ ~TakenOut(q, i)'
<3>1. Len(registered[q]) \in Nat
  BY LenProperties DEF IInv, Types, ListTypes
<3>2. i \in Nat \ {0}
  BY <3>1
<3>3. \A u \in Threads : job'[u].do \in {"unindex", "freed"} => job'[u].at = 1
  BY <1>2, JobFields
<3> QED
  BY <1>5, <3>2, <3>3 DEF TakenOut, Removes
<2> QED
  BY <2>1, IndexFrame DEF IInv
<1> QED
  BY <1>2, <1>3, <1>4, <1>6, <1>7

LEMMA ReturnFailKeeps ==
    ASSUME IInv, NEW t \in Readers, ReturnFail(t)
    PROVE  IInv'
<1> DEFINE g == [Head(stack[t]) EXCEPT !.cb = None, !.i = NextAt(Head(stack[t]))]
           i == Head(stack[t]).i
<1>1. CASE Undefined
  BY <1>1, UndefinedKeeps
<1>2. CASE ~Undefined
<2>1. /\ Alone(t) /\ Proceed(t) /\ InCallback(t)
      /\ job' = IF i \in DOMAIN pluginList
                THEN [job EXCEPT ![t] = RemovalOf(pluginList[i])] ELSE job
      /\ UNCHANGED <<tables, loading, undefined>>
  BY <1>2 DEF ReturnFail, Returns
<2>2. /\ stack[t] # <<>> /\ job[t] = Idle /\ g \in Frames /\ Good(g) /\ g.cb = None
      /\ stack' = [stack EXCEPT ![t] = [stack[t] EXCEPT ![1] = g]]
  BY <2>1, Returning
<2>3. /\ status' \in [Plugins -> {"RUNNING", "PAUSED"}]
      /\ UNCHANGED <<pluginList, registered, indexList, index, nameOwner, mapped,
                     todo, reloads, loading, undefined>>
  BY <2>1 DEF tables, loading, IInv, Types, PlainTypes
<2> HIDE DEF g, i
<2>4. CASE i \notin DOMAIN pluginList
  BY <2>1, <2>2, <2>3, <2>4, TurnKeeps
<2>5. CASE i \in DOMAIN pluginList
<3> DEFINE p == pluginList[i]
<3>1. p \in Plugins /\ Contains(pluginList, p)
<4>1. pluginList \in Seq(Plugins) /\ i \in 1..Len(pluginList)
  BY <2>5, LenProperties DEF IInv, Types, ListTypes
<4> QED
  BY <4>1, ElementOfSeq DEF Contains
<3>2. AllIdle
  BY <2>1, <2>2 DEF AllIdle, Alone
<3>3. t \in Threads /\ t # Loader
  BY ThreadsAssumption DEF Threads
<3>4. job' = [job EXCEPT ![t] = RemovalOf(p)]
  BY <2>1, <2>5
<3> HIDE DEF p
<3>5. /\ job' \in [Threads -> Jobs]
      /\ OneJob' /\ \A u \in Threads : JobShape(u)'
      /\ PluginInv' /\ IndexInv'
  BY <2>3, <3>1, <3>2, <3>3, <3>4, RemovalBegins
<3>6. Types'
  BY <2>3, <3>5 DEF IInv, Types, ListTypes, PlainTypes
<3> DEFINE s == [stack[t] EXCEPT ![1] = g]
<3>7. stack[t] \in Seq(Frames) /\ \A k \in 1..Len(stack[t]) : Good(stack[t][k])
  BY <2>2, Innermost
<3>8. /\ s \in Seq(Frames) /\ Len(s) = Len(stack[t]) /\ s # <<>> /\ s[1] = g
      /\ \A k \in 1..Len(stack[t]) : Good(s[k])
  BY <2>2, <3>7, TurnGood, Zenon
<3>9. stack' = [stack EXCEPT ![t] = s]
  BY <2>2
<3> HIDE DEF s
<3>10. StackInv'
  BY <2>3, <3>8, <3>9, OneStack DEF IInv
<3>11. stack \in [Readers -> Seq(Frames)] /\ job \in [Threads -> Jobs]
       /\ Readers \subseteq Threads /\ Loader \in Threads
  BY DEF IInv, StackInv, Types, PlainTypes, Threads
<3>12. BetweenTurns'
<4> SUFFICES ASSUME NEW u \in Readers, job'[u] # Idle
             PROVE  stack'[u] # <<>> /\ stack'[u][1].cb = None
  BY DEF BetweenTurns
<4>1. u = t
  BY <3>2, <3>4, <3>11 DEF AllIdle
<4> QED
  BY <2>2, <3>8, <3>9, <3>11, <4>1
<3>13. StartedLate'
<4> SUFFICES ASSUME reloads' = 0, NEW u \in Readers, stack'[u] # <<>>
             PROVE  todo' = <<>> /\ job'[Loader] = Idle
  BY DEF StartedLate
<4>1. stack[u] # <<>>
  BY <2>2, <3>9, <3>11
<4>2. job'[Loader] = job[Loader]
  BY <3>3, <3>4, <3>11
<4> QED
  BY <2>3, <4>1, <4>2 DEF IInv, StartedLate
<3> QED
  BY <3>5, <3>6, <3>10, <3>12, <3>13 DEF IInv, JobInv
<2> QED
  BY <2>4, <2>5
<1> QED
  BY <1>1, <1>2

LEMMA LoadNewPluginKeeps ==
    ASSUME IInv, NEW p \in Plugins, LoadNewPlugin(p)
    PROVE  IInv'
<1>1. CASE Undefined
  BY <1>1, UndefinedKeeps
<1>2. CASE ~Undefined
<2>1. /\ job[Loader] = Idle /\ todo = <<>> /\ reloads < MaxReloads /\ Alone(Loader)
      /\ reloads' = reloads + 1 /\ todo' = <<p>>
      /\ job' = IF Contains(pluginList, p) THEN [job EXCEPT ![Loader] = RemovalOf(p)] ELSE job
      /\ UNCHANGED <<pluginList, status, registered, indexList, index, nameOwner, mapped,
                     stack, undefined>>
  BY <1>2 DEF LoadNewPlugin, tables
<2>2. AllIdle /\ Loader \in Threads /\ Readers \subseteq Threads
  BY <2>1 DEF AllIdle, Alone, Threads
<2>3. reloads' \in 0..MaxReloads /\ reloads' # 0
  BY <2>1, ThreadsAssumption DEF IInv, Types, PlainTypes
<2>4. StartedLate'
  BY <2>3 DEF StartedLate
<2>5. StackInv'
  BY <2>1, <2>3 DEF IInv, StackInv, Good
<2>6. todo' \in Seq(Plugins)
  BY <2>1
<2>7. CASE Contains(pluginList, p)
<3>1. job' = [job EXCEPT ![Loader] = RemovalOf(p)]
  BY <2>1, <2>7
<3>2. /\ job' \in [Threads -> Jobs]
      /\ OneJob' /\ \A u \in Threads : JobShape(u)'
      /\ PluginInv' /\ IndexInv'
  BY <2>1, <2>2, <2>7, <3>1, RemovalBegins
<3>3. Types'
  BY <2>1, <2>3, <2>6, <3>2 DEF IInv, Types, ListTypes, PlainTypes
<3>4. BetweenTurns'
<4>1. \A u \in Readers : job'[u] = Idle
  BY <2>2, <3>1, ThreadsAssumption DEF AllIdle, IInv, Types, PlainTypes
<4> QED
  BY <4>1 DEF BetweenTurns
<3> QED
  BY <2>4, <2>5, <3>2, <3>3, <3>4 DEF IInv, JobInv
<2>8. CASE ~Contains(pluginList, p)
<3>1. job' = job
  BY <2>1, <2>8
<3>2. Types'
  BY <2>1, <2>3, <2>6, <3>1 DEF IInv, Types, ListTypes, PlainTypes
<3>3. JobInv'
  BY <2>1, <3>1, JobFrame DEF IInv
<3>4. IndexInv'
  BY <2>1, <3>1, IndexFrame DEF IInv, TakenOut, Removes
<3>5. Pending'
<4>1. Len(todo') = 1 /\ todo'[1] = p /\ DOMAIN todo' = 1..1
  BY <2>1
<4>2. IsInjective(todo')
  BY <4>1 DEF IsInjective
<4>3. job'[Loader].do = "nothing" /\ ~Contains(pluginList', p)
  BY <2>1, <2>8, <3>1, JobFields
<4> QED
  BY <4>1, <4>2, <4>3 DEF Pending, Registering
<3>6. /\ IsInjective(pluginList)'
      /\ \A q \in Plugins : Prefix(q)' /\ Present(q)'
      /\ \A u \in Threads : JobPlace(u)'
  BY <2>1, <3>1 DEF IInv, PluginInv, Prefix, Present, Registering, JobPlace
<3> QED
  BY <2>4, <2>5, <3>2, <3>3, <3>4, <3>5, <3>6 DEF IInv, PluginInv
<2> QED
  BY <2>7, <2>8
<1> QED
  BY <1>1, <1>2
-----------------------------------------------------------------------------
(* load_plugin. *)

LEMMA LoadPluginKeeps == ASSUME IInv, LoadPlugin PROVE IInv'
<1> DEFINE p == Head(todo)
           new == [Idle EXCEPT !.do = "register", !.plugin = p, !.at = 1]
<1>1. /\ job[Loader] = Idle /\ todo # <<>> /\ Alone(Loader)
      /\ todo' = Tail(todo) /\ mapped' \in {mapped, mapped \cup {p}}
      /\ \/ /\ mapped' = mapped \cup {p}
            /\ job' = [job EXCEPT ![Loader] = new]
            /\ status' = [status EXCEPT ![p] = "RUNNING"]
            /\ registered' = [registered EXCEPT ![p] = <<>>]
         \/ UNCHANGED <<job, status, registered>>
      /\ UNCHANGED <<pluginList, indexList, index, nameOwner, stack, reloads, undefined>>
  BY DEF LoadPlugin
<1>2. AllIdle /\ Loader \in Threads /\ Readers \subseteq Threads
  BY <1>1 DEF AllIdle, Alone, Threads
<1>3. todo \in Seq(Plugins) /\ job \in [Threads -> Jobs]
      /\ registered \in [Plugins -> Seq(Callbacks)]
  BY DEF IInv, Types, ListTypes, PlainTypes
<1>4. /\ p \in Plugins /\ p = todo[1] /\ Len(todo) \in Nat \ {0}
      /\ todo' \in Seq(Plugins) /\ Len(todo') = Len(todo) - 1
      /\ \A i \in 1..Len(todo') : todo'[i] = todo[i + 1]
  BY <1>1, <1>3
<1>5. DOMAIN todo = 1..Len(todo) /\ DOMAIN todo' = 1..(Len(todo) - 1)
  BY <1>3, <1>4, LenProperties
<1>6. \A i \in 1..Len(todo) : ~Contains(pluginList, todo[i])
  BY <1>1, JobFields DEF IInv, PluginInv, Pending
<1>7. ~Contains(pluginList, p)
  BY <1>4, <1>6
<1>8. registered[p] = <<>> /\ registered' = registered
<2>1. registered[p] = <<>>
  BY <1>1, <1>4, <1>7, JobFields DEF IInv, PluginInv, Present, Registering
<2> HIDE DEF p
<2> QED
  BY <1>1, <1>3, <2>1
<1> HIDE DEF p
<1>9. new \in Jobs /\ new.do = "register" /\ new.plugin = p /\ new.at = 1 /\ new # Idle
  BY <1>4, JobFields DEF Jobs
<1> HIDE DEF new
<1>10. /\ job' \in [Threads -> Jobs]
       /\ \A u \in Threads : u # Loader => job'[u] = Idle
       /\ job'[Loader] = Idle \/ (job'[Loader] = new /\ p \in mapped')
  BY <1>1, <1>2, <1>3, <1>9 DEF AllIdle
<1>11. Types'
<2>1. status' \in [Plugins -> {"RUNNING", "PAUSED"}] /\ mapped' \in SUBSET Plugins
  BY <1>1, <1>4 DEF IInv, Types, PlainTypes
<2> QED
  BY <1>1, <1>4, <1>8, <1>10, <2>1 DEF IInv, Types, ListTypes, PlainTypes
<1>12. JobInv'
<2>1. OneJob'
  BY <1>10 DEF OneJob
<2>2. ASSUME NEW u \in Threads PROVE JobShape(u)'
  BY <1>4, <1>9, <1>10, JobFields DEF JobShape
<2>3. BetweenTurns'
  BY <1>2, <1>10, ThreadsAssumption DEF BetweenTurns
<2> QED
  BY <2>1, <2>2, <2>3 DEF JobInv
<1>13. PluginInv'
<2>1. IsInjective(pluginList)' /\ \A q \in Plugins : Prefix(q)'
  BY <1>1, <1>8 DEF IInv, PluginInv, Prefix
<2>2. \A q \in Plugins : Present(q)'
  BY <1>1, <1>8, JobFields DEF IInv, PluginInv, Present, Registering
<2>3. ASSUME NEW u \in Threads PROVE JobPlace(u)'
<3>1. CASE u = Loader /\ job'[Loader] = new /\ p \in mapped'
<4>1. Len(registered'[p]) = 0
  BY <1>8
<4> QED
  BY <1>1, <1>7, <1>9, <3>1, <4>1 DEF JobPlace
<3>2. CASE job'[u] = Idle
  BY <3>2, JobFields DEF JobPlace
<3> QED
  BY <1>10, <3>1, <3>2
<2>4. Pending'
<3>1. \A i \in 1..Len(todo') : i + 1 \in 1..Len(todo) /\ i + 1 # 1
  BY <1>4
<3>2. IsInjective(todo)
  BY DEF IInv, PluginInv, Pending
<3>3. IsInjective(todo')
<4> SUFFICES ASSUME NEW i \in 1..Len(todo'), NEW j \in 1..Len(todo'), todo'[i] = todo'[j]
             PROVE  i = j
  BY <1>4, <1>5 DEF IsInjective
<4>1. i + 1 = j + 1
  BY <1>4, <1>5, <3>1, <3>2 DEF IsInjective
<4> QED
  BY <1>4, <4>1
<3>4. \A i \in 1..Len(todo') : todo'[i] # p
<4> SUFFICES ASSUME NEW i \in 1..Len(todo'), todo'[i] = p PROVE FALSE
  OBVIOUS
<4>1. todo[i + 1] = todo[1] /\ i + 1 \in DOMAIN todo /\ 1 \in DOMAIN todo
  BY <1>4, <1>5, <3>1
<4> QED
  BY <3>1, <3>2, <4>1 DEF IsInjective
<3>5. \A i \in 1..Len(todo') : ~Contains(pluginList', todo'[i])
  BY <1>1, <1>4, <1>6, <3>1
<3>6. ASSUME NEW i \in 1..Len(todo')
      PROVE  ~(job'[Loader].do \in {"register", "index"} /\ job'[Loader].plugin = todo'[i])
<4>1. CASE job'[Loader] = Idle
  BY <4>1, JobFields
<4>2. CASE job'[Loader] = new
  BY <1>9, <3>4, <4>2
<4> QED
  BY <1>10, <4>1, <4>2
<3> QED
  BY <3>3, <3>5, <3>6 DEF Pending, Registering
<2> QED
  BY <2>1, <2>2, <2>3, <2>4 DEF PluginInv
<1>14. IndexInv'
<2>1. \A u \in Threads : job[u].do \notin {"unindex", "freed"}
                         /\ job'[u].do \notin {"unindex", "freed"}
  BY <1>2, <1>9, <1>10, JobFields DEF AllIdle
<2> QED
  BY <1>1, <1>8, <2>1, IndexFrame DEF IInv, TakenOut, Removes
<1>15. StartedLate'
  BY <1>1 DEF IInv, StartedLate
<1>16. StackInv'
  BY <1>1, StackFrame DEF IInv
<1> QED
  BY <1>11, <1>12, <1>13, <1>14, <1>15, <1>16 DEF IInv

LEMMA AppendPluginKeeps == ASSUME IInv, AppendPlugin PROVE IInv'
<1> DEFINE p == job[Loader].plugin
<1>1. /\ job[Loader].do = "register"
      /\ pluginList' = Append(pluginList, p)
      /\ job' = [job EXCEPT ![Loader] = Idle]
      /\ UNCHANGED <<status, registered, indexList, index, nameOwner, mapped, stack,
                     todo, reloads, undefined>>
  BY DEF AppendPlugin, loading
<1>2. Loader \in Threads /\ Readers \subseteq Threads /\ job \in [Threads -> Jobs]
      /\ pluginList \in Seq(Plugins)
  BY DEF Threads, IInv, Types, ListTypes, PlainTypes
<1>3. p \in Plugins /\ job[Loader] # Idle
      /\ p \in mapped /\ ~Contains(pluginList, p)
  BY <1>1, <1>2, JobFields DEF IInv, JobInv, JobShape, PluginInv, JobPlace
<1>4. \A u \in Threads : job'[u] = Idle
  BY <1>1, <1>2, Others
<1>5. /\ pluginList' \in Seq(Plugins) /\ IsInjective(pluginList')
      /\ \A q : Contains(pluginList', q) <=> Contains(pluginList, q) \/ q = p
<2>1. IsInjective(pluginList)
  BY DEF IInv, PluginInv
<2> HIDE DEF p
<2> QED
  BY <1>1, <1>2, <1>3, <2>1, AppendedOne, Zenon
<1> HIDE DEF p
<1>6. Types'
<2>1. job' \in [Threads -> Jobs]
  BY <1>1, <1>2, JobFields
<2> QED
  BY <1>1, <1>5, <2>1 DEF IInv, Types, ListTypes, PlainTypes
<1>7. JobInv'
<2>1. OneJob' /\ BetweenTurns' /\ \A u \in Threads : JobShape(u)'
  BY <1>2, <1>4, JobFields DEF OneJob, BetweenTurns, JobShape
<2> QED
  BY <2>1 DEF JobInv
<1>8. PluginInv'
<2>1. \A q \in Plugins : Prefix(q)'
  BY <1>1 DEF IInv, PluginInv, Prefix
<2>2. ASSUME NEW q \in Plugins PROVE Present(q)'
<3>1. Registering(q) => q = p
  BY DEF Registering, p
<3> QED
  BY <1>1, <1>5, <3>1 DEF IInv, PluginInv, Present
<2>3. \A u \in Threads : JobPlace(u)'
  BY <1>4, JobFields DEF JobPlace
<2>4. Pending'
<3>1. ASSUME NEW i \in 1..Len(todo)
      PROVE  ~Contains(pluginList', todo[i])
<4>1. ~Registering(todo[i]) /\ ~Contains(pluginList, todo[i])
  BY <1>1 DEF IInv, PluginInv, Pending
<4>2. todo[i] # p
  BY <1>1, <4>1 DEF Registering, p
<4> QED
  BY <1>5, <4>1, <4>2
<3>2. \A q : ~Registering(q)'
  BY <1>2, <1>4, JobFields DEF Registering
<3>3. IsInjective(todo)'
  BY <1>1 DEF IInv, PluginInv, Pending
<3> QED
  BY <1>1, <3>1, <3>2, <3>3 DEF Pending
<2> QED
  BY <1>5, <2>1, <2>2, <2>3, <2>4 DEF PluginInv
<1>9. IndexInv'
<2>1. \A u \in Threads : job[u].do \notin {"unindex", "freed"}
                         /\ job'[u].do \notin {"unindex", "freed"}
<3>1. \A u \in Threads : u # Loader => job[u].do = "nothing"
  BY <1>1, <1>2, Others
<3> QED
  BY <1>1, <1>4, <3>1, JobFields
<2> QED
  BY <1>1, <2>1, IndexFrame DEF IInv, TakenOut, Removes
<1>10. StartedLate'
  BY <1>1, <1>3 DEF IInv, StartedLate
<1>11. StackInv'
  BY <1>1, StackFrame DEF IInv
<1> QED
  BY <1>6, <1>7, <1>8, <1>9, <1>10, <1>11 DEF IInv

\* The loops of load_plugin and remove_plugin begin with a callback: only
\* where they stand changes.
Begins(t, step) ==
    \/ /\ job[t].do = "register" /\ step = "index"
       /\ job[t].at <= Len(Registers[job[t].plugin])
    \/ /\ job[t].do = "unindex" /\ step = "freed"
       /\ job[t].at <= Len(registered[job[t].plugin])

LEMMA BeginKeeps ==
    ASSUME IInv, NEW t \in Threads, NEW step, Begins(t, step),
           job' = [job EXCEPT ![t].do = step],
           UNCHANGED <<tables, stack, loading, undefined>>
    PROVE  IInv'
<1> DEFINE j == job[t]
           new == [j EXCEPT !.do = step]
<1>0. UNCHANGED <<pluginList, status, registered, indexList, index, nameOwner, mapped,
                  stack, todo, reloads, undefined>>
  BY DEF tables, loading
<1>1. /\ job \in [Threads -> Jobs] /\ j \in Jobs /\ Loader \in Threads
      /\ Readers \subseteq Threads
  BY DEF IInv, Types, PlainTypes, Threads
<1>2. job' = [job EXCEPT ![t] = new]
  BY <1>1
<1>3. j.do # "nothing" /\ step \in {"index", "freed"}
  BY DEF Begins
<1> HIDE DEF j
<1>4. /\ new \in Jobs /\ new.do = step /\ new.plugin = j.plugin
      /\ new.list = j.list /\ new.at = j.at
  BY ONLY <1>1, <1>3 DEF Jobs
<1> HIDE DEF new
<1>5. /\ job' \in [Threads -> Jobs] /\ job'[t] = new
      /\ \A u \in Threads : u # t => job'[u] = job[u]
  BY <1>1, <1>2, <1>4
<1>6. job[t] = j /\ job[t] # Idle
  BY <1>3, JobFields DEF j
<1>7. \A u \in Threads : u # t => job[u] = Idle /\ job[u].do = "nothing"
  BY <1>3, <1>6, Others
<1>8. Types'
  BY <1>0, <1>5 DEF IInv, Types, ListTypes, PlainTypes
<1>9. JobInv'
<2>1. OneJob'
  BY <1>5, <1>7 DEF OneJob
<2>2. ASSUME NEW u \in Threads PROVE JobShape(u)'
<3>1. JobShape(u)
  BY DEF IInv, JobInv
<3>2. CASE u = t
  BY <1>3, <1>4, <1>5, <1>6, <3>1, <3>2 DEF JobShape, Begins
<3>3. CASE u # t
  BY <1>5, <3>1, <3>3 DEF JobShape
<3> QED
  BY <3>2, <3>3
<2>3. BetweenTurns'
<3>1. \A u \in Readers : job'[u] # Idle => job[u] # Idle
  BY <1>1, <1>5, <1>6
<3> QED
  BY <1>0, <3>1 DEF IInv, JobInv, BetweenTurns
<2> QED
  BY <2>1, <2>2, <2>3 DEF JobInv
<1>10. /\ job'[Loader].plugin = job[Loader].plugin
       /\ job[Loader].do \in {"register", "index"}
             <=> job'[Loader].do \in {"register", "index"}
       /\ job[Loader].do \in {"unindex", "freed", "install"}
             => job'[Loader].do \in {"unindex", "freed", "install"}
<2>1. CASE t = Loader
  BY <1>4, <1>5, <1>6, <2>1 DEF Begins
<2>2. CASE t # Loader
  BY <1>1, <1>5, <2>2
<2> QED
  BY <2>1, <2>2
<1>11. PluginInv'
<2>1. IsInjective(pluginList)' /\ \A q \in Plugins : Prefix(q)'
  BY <1>0 DEF IInv, PluginInv, Prefix
<2>2. \A q \in Plugins : Present(q)'
  BY <1>0, <1>10 DEF IInv, PluginInv, Present, Registering
<2>3. ASSUME NEW u \in Threads PROVE JobPlace(u)'
<3>1. JobPlace(u)
  BY DEF IInv, PluginInv
<3>2. CASE u = t
  BY <1>0, <1>4, <1>5, <1>6, <3>1, <3>2 DEF JobPlace, Begins
<3>3. CASE u # t
  BY <1>0, <1>5, <3>1, <3>3 DEF JobPlace
<3> QED
  BY <3>2, <3>3
<2>4. Pending'
  BY <1>0, <1>10 DEF IInv, PluginInv, Pending, Registering
<2> QED
  BY <2>1, <2>2, <2>3, <2>4 DEF PluginInv
<1>12. IndexInv'
<2>1. ASSUME NEW u \in Threads, NEW p
      PROVE  (Removes(u, p) <=> Removes(u, p)') /\ job'[u].at = job[u].at
<3>1. CASE u = t
  BY <1>4, <1>5, <1>6, <3>1 DEF Removes, Begins
<3>2. CASE u # t
  BY <1>5, <3>2 DEF Removes
<3> QED
  BY <3>1, <3>2
<2>2. \A p \in Plugins : \A i \in 1..Len(registered[p]) : TakenOut(p, i)' <=> TakenOut(p, i)
  BY <2>1 DEF TakenOut
<2> QED
  BY <1>0, <2>2, IndexFrame DEF IInv
<1>13. StartedLate'
<2>1. job[Loader] = Idle => job'[Loader] = Idle
  BY <1>1, <1>5, <1>6
<2> QED
  BY <1>0, <2>1 DEF IInv, StartedLate
<1>14. StackInv'
  BY <1>0, StackFrame DEF IInv
<1> QED
  BY <1>8, <1>9, <1>11, <1>12, <1>13, <1>14 DEF IInv

LEMMA RegisterCallbackKeeps == ASSUME IInv, RegisterCallback PROVE IInv'
<1>1. CASE Undefined
  BY <1>1, UndefinedKeeps
<1>2. CASE ~Undefined
<2>1. /\ job[Loader].do = "register"
      /\ job[Loader].at <= Len(Registers[job[Loader].plugin])
      /\ job' = [job EXCEPT ![Loader].do = "index"]
      /\ UNCHANGED <<tables, stack, loading, undefined>>
  BY <1>2 DEF RegisterCallback
<2>2. Loader \in Threads /\ Begins(Loader, "index")
  BY <2>1 DEF Threads, Begins
<2> QED
  BY <2>1, <2>2, BeginKeeps
<1> QED
  BY <1>1, <1>2

LEMMA FreeRecordKeeps ==
    ASSUME IInv, NEW t \in Threads, FreeRecord(t) PROVE IInv'
<1>1. /\ Begins(t, "freed")
      /\ job' = [job EXCEPT ![t].do = "freed"]
      /\ UNCHANGED <<tables, stack, loading, undefined>>
  BY DEF FreeRecord, Begins
<1> QED
  BY <1>1, BeginKeeps

\* They go on to their next callback.
GoesOn(t, step) ==
    \/ job[t].do = "index" /\ step = "register"
    \/ job[t].do = "freed" /\ step = "unindex"

LEMMA NextPlace ==
    ASSUME IInv, NEW t \in Threads, NEW step, GoesOn(t, step),
           job' = [job EXCEPT ![t].do = step, ![t].at = @ + 1]
    PROVE  /\ job' \in [Threads -> Jobs] /\ job[t].at \in Nat
           /\ job'[t].do = step /\ job'[t].plugin = job[t].plugin
           /\ job'[t].list = job[t].list /\ job'[t].at = job[t].at + 1
           /\ \A u \in Threads : u # t => job'[u] = job[u] /\ job[u] = Idle
                                          /\ job[u].do = "nothing"
           /\ OneJob' /\ \A u \in Threads : JobShape(u)'
           /\ stack' = stack => JobInv'
<1> DEFINE j == job[t]
           new == [j EXCEPT !.do = step, !.at = @ + 1]
<1>0. job[t].do # "nothing" /\ step \in {"register", "unindex"}
  BY DEF GoesOn
<1>1. job \in [Threads -> Jobs] /\ j \in Jobs
  BY DEF IInv, Types, PlainTypes
<1>2. job' = [job EXCEPT ![t] = new]
  BY <1>1
<1> HIDE DEF j
<1>3. /\ new \in Jobs /\ new.do = step /\ new.plugin = j.plugin
      /\ new.list = j.list /\ new.at = j.at + 1 /\ j.at \in Nat
<2>1. j \in Jobs /\ j.at \in Nat
  BY <1>1 DEF Jobs
<2>2. j.at + 1 \in Nat
  BY <2>1
<2> QED
  BY ONLY <1>0, <2>1, <2>2 DEF Jobs
<1> HIDE DEF new
<1>4. /\ job' \in [Threads -> Jobs] /\ job'[t] = new
      /\ \A u \in Threads : u # t => job'[u] = job[u]
  BY <1>1, <1>2, <1>3
<1>5. \A u \in Threads : u # t => job[u] = Idle /\ job[u].do = "nothing"
  BY <1>0, Others
<1>6. OneJob'
  BY <1>4, <1>5 DEF OneJob
<1>7. job[t] = j
  BY DEF j
<1>8. ASSUME NEW u \in Threads PROVE JobShape(u)'
<2>1. JobShape(u)
  BY DEF IInv, JobInv
<2>2. CASE u = t
  BY <1>0, <1>3, <1>4, <1>7, <2>1, <2>2 DEF JobShape, GoesOn
<2>3. CASE u # t
  BY <1>4, <2>1, <2>3 DEF JobShape
<2> QED
  BY <2>2, <2>3
<1>9. ASSUME stack' = stack PROVE BetweenTurns'
<2>1. \A u \in Readers : u \in Threads /\ (job'[u] # Idle => job[u] # Idle)
  BY <1>0, <1>4, JobFields DEF Threads
<2> QED
  BY <1>9, <2>1 DEF IInv, JobInv, BetweenTurns
<1> QED
  BY <1>3, <1>4, <1>5, <1>6, <1>7, <1>8, <1>9 DEF JobInv

LEMMA IndexCallbackKeeps == ASSUME IInv, IndexCallback PROVE IInv'
<1> DEFINE p == job[Loader].plugin
           a == job[Loader].at
           c == Registers[p][a]
           n == Event[c]
<1>1. /\ job[Loader].do = "index"
      /\ registered' = [registered EXCEPT ![p] = Append(@, c)]
      /\ index' = [index EXCEPT ![n] = Indexed(c, @)]
      /\ indexList' = IF GetCbIndex(n) THEN indexList ELSE Append(indexList, n)
      /\ nameOwner' = IF GetCbIndex(n) THEN nameOwner ELSE [nameOwner EXCEPT ![n] = p]
      /\ job' = [job EXCEPT ![Loader].do = "register", ![Loader].at = @ + 1]
      /\ UNCHANGED <<pluginList, status, mapped, stack, todo, reloads, undefined>>
  BY DEF IndexCallback, loading
<1>2. /\ Loader \in Threads /\ Readers \subseteq Threads
      /\ registered \in [Plugins -> Seq(Callbacks)] /\ index \in [Names -> Seq(Callbacks)]
  BY DEF Threads, IInv, Types, ListTypes
<1>3. /\ p \in Plugins /\ p \in mapped /\ ~Contains(pluginList, p)
      /\ a = Len(registered[p]) + 1 /\ a <= Len(Registers[p]) /\ Prefix(p)
  BY <1>1, <1>2 DEF IInv, JobInv, JobShape, PluginInv, JobPlace
<1>4. /\ job' \in [Threads -> Jobs] /\ JobInv'
      /\ job'[Loader].do = "register" /\ job'[Loader].plugin = p /\ job'[Loader].at = a + 1
      /\ \A u \in Threads : u # Loader => job[u].do = "nothing" /\ job'[u].do = "nothing"
  BY <1>1, <1>2, NextPlace DEF GoesOn
<1> HIDE DEF p, a
<1>5. /\ registered[p] \in Seq(Callbacks) /\ Len(registered[p]) \in Nat
      /\ Registers[p] \in Seq(Callbacks) /\ a \in 1..Len(Registers[p])
      /\ DOMAIN Registers[p] = 1..Len(Registers[p]) /\ IsInjective(Registers[p])
<2>1. registered[p] \in Seq(Callbacks) /\ Registers[p] \in Seq(Callbacks)
      /\ IsInjective(Registers[p])
  BY <1>2, <1>3, PluginsAssumption
<2>2. Len(registered[p]) \in Nat /\ Len(Registers[p]) \in Nat
      /\ DOMAIN Registers[p] = 1..Len(Registers[p])
  BY <2>1, LenProperties
<2> QED
  BY <1>1, <1>3, <2>1, <2>2
<1>6. c \in Callbacks /\ Owner[c] = p
  BY <1>3, <1>5, ElementOfSeq, PluginsAssumption
<1>7. n \in Names
  BY <1>6, CallbacksAssumption
<1>8. \A i \in 1..Len(registered[p]) : registered[p][i] = Registers[p][i] /\ registered[p][i] # c
<2> SUFFICES ASSUME NEW i \in 1..Len(registered[p])
             PROVE registered[p][i] = Registers[p][i] /\ registered[p][i] # c
  OBVIOUS
<2>1. registered[p][i] = Registers[p][i]
  BY <1>3 DEF Prefix
<2>2. i \in 1..Len(Registers[p]) /\ i # a
  BY <1>3, <1>5
<2>3. Registers[p][i] # Registers[p][a]
  BY <1>5, <2>2 DEF IsInjective
<2> QED
  BY <2>1, <2>3
<1> HIDE DEF c
<1>9. ~Contains(registered[p], c)
  BY <1>8 DEF Contains
<1>10. Ordered(index[n]) /\ Known(n) /\ index[n] \in Seq(Callbacks)
  BY <1>2, <1>7 DEF IInv, IndexInv
<1>11. ~Contains(index[n], c)
<2>1. \A i \in 1..Len(index[n]) : index[n][i] # c
  BY <1>6, <1>9, <1>10 DEF Known
<2> QED
  BY <2>1 DEF Contains
<1> HIDE DEF n
<1>12. /\ Indexed(c, index[n]) \in Seq(Callbacks) /\ Ordered(Indexed(c, index[n]))
       /\ \A e : Contains(Indexed(c, index[n]), e) <=> Contains(index[n], e) \/ e = c
  BY <1>6, <1>10, <1>11, IndexedOne
<1> DEFINE r == Append(registered[p], c)
           x == Indexed(c, index[n])
<1>13. /\ r \in Seq(Callbacks) /\ Len(r) = Len(registered[p]) + 1
       /\ \A i \in 1..Len(registered[p]) : r[i] = registered[p][i]
       /\ r[Len(registered[p]) + 1] = c
       /\ \A e : Contains(r, e) <=> Contains(registered[p], e) \/ e = c
  BY <1>5, <1>6, AppendedOne, AppendProperties
<1> HIDE DEF r, x
<1>14. registered' = [registered EXCEPT ![p] = r] /\ index' = [index EXCEPT ![n] = x]
  BY <1>1 DEF r, x
<1>15. /\ registered' \in [Plugins -> Seq(Callbacks)] /\ index' \in [Names -> Seq(Callbacks)]
       /\ registered'[p] = r /\ \A q \in Plugins : q # p => registered'[q] = registered[q]
       /\ index'[n] = x /\ \A m \in Names : m # n => index'[m] = index[m]
  BY <1>2, <1>3, <1>7, <1>12, <1>13, <1>14 DEF x
<1>16. Types'
<2>1. indexList' \in Seq(Names)
  BY <1>1, <1>7 DEF IInv, Types, ListTypes
<2>2. nameOwner' \in [Names -> Plugins \cup {None}]
  BY <1>1, <1>3 DEF IInv, Types, PlainTypes
<2>3. ListTypes'
  BY <1>1, <1>15, <2>1 DEF IInv, Types, ListTypes
<2>4. PlainTypes'
  BY <1>1, <1>4, <2>2 DEF IInv, Types, PlainTypes
<2> QED
  BY <2>3, <2>4 DEF Types
<1>17. PluginInv'
<2>1. ASSUME NEW q \in Plugins PROVE Prefix(q)'
<3>1. CASE q = p
<4>1. Len(r) <= Len(Registers[p])
  BY <1>3, <1>5, <1>13
<4>2. ASSUME NEW i \in 1..Len(r) PROVE r[i] = Registers[p][i]
<5>1. CASE i = Len(registered[p]) + 1
  BY <1>3, <1>13, <5>1 DEF c
<5>2. CASE i # Len(registered[p]) + 1
<6>1. i \in 1..Len(registered[p])
  BY <1>5, <1>13, <5>2
<6> QED
  BY <1>8, <1>13, <6>1
<5> QED
  BY <5>1, <5>2
<4> QED
  BY <1>15, <3>1, <4>1, <4>2 DEF Prefix
<3>2. CASE q # p
  BY <1>15, <3>2 DEF IInv, PluginInv, Prefix
<3> QED
  BY <3>1, <3>2
<2>2. ASSUME NEW q \in Plugins PROVE Present(q)'
<3>1. CASE q = p
  BY <1>1, <1>3, <1>4, <3>1 DEF Present, Registering
<3>2. CASE q # p
<4>1. Registering(q) <=> Registering(q)'
  BY <1>1, <1>4 DEF Registering, p
<4> QED
  BY <1>1, <1>15, <3>2, <4>1 DEF IInv, PluginInv, Present
<3> QED
  BY <3>1, <3>2
<2>3. ASSUME NEW u \in Threads PROVE JobPlace(u)'
<3>1. CASE u = Loader
<4>1. a + 1 = Len(r) + 1
  BY <1>3, <1>13
<4> QED
  BY <1>1, <1>3, <1>4, <1>15, <3>1, <4>1 DEF JobPlace
<3>2. CASE u # Loader
  BY <1>4, <3>2 DEF JobPlace
<3> QED
  BY <3>1, <3>2
<2>4. Pending'
  BY <1>1, <1>4 DEF IInv, PluginInv, Pending, Registering, p
<2>5. IsInjective(pluginList)'
  BY <1>1 DEF IInv, PluginInv
<2> QED
  BY <2>1, <2>2, <2>3, <2>4, <2>5 DEF PluginInv
<1>18. IndexInv'
<2>0. \A q \in Plugins : \A e : Contains(registered[q], e) => Contains(registered'[q], e)
  BY <1>13, <1>15
<2>1. ASSUME NEW m \in Names PROVE Ordered(index[m])' /\ Known(m)'
<3>0. Ordered(index[m]) /\ Known(m)
  BY DEF IInv, IndexInv
<3>1. Ordered(index'[m])
  BY <1>12, <1>15, <3>0 DEF x
<3>2. ASSUME NEW i \in 1..Len(index'[m])
      PROVE  Event[index'[m][i]] = m
             /\ Contains(registered'[Owner[index'[m][i]]], index'[m][i])
<4>1. CASE m = n /\ ~Contains(index[n], index'[m][i])
<5>1. index'[m][i] = c
<6>1. Contains(x, index'[m][i])
  BY <1>15, <3>2, <4>1 DEF Contains
<6> QED
  BY <1>12, <4>1, <6>1 DEF x
<5> QED
  BY <1>6, <1>13, <1>15, <4>1, <5>1 DEF n
<4>2. CASE m # n \/ Contains(index[n], index'[m][i])
<5>1. PICK k \in 1..Len(index[m]) : index[m][k] = index'[m][i]
  BY <1>15, <3>2, <4>2 DEF Contains
<5>2. Event[index[m][k]] = m /\ Contains(registered[Owner[index[m][k]]], index[m][k])
  BY <3>0 DEF Known
<5>3. Owner[index[m][k]] \in Plugins
  BY <1>2, ElementOfSeq, CallbacksAssumption
<5> QED
  BY <2>0, <5>1, <5>2, <5>3
<4> QED
  BY <4>1, <4>2
<3> QED
  BY <3>1, <3>2 DEF Ordered, Known
<2>2. \A u \in Threads : job[u].do \notin {"unindex", "freed"}
                         /\ job'[u].do \notin {"unindex", "freed"}
  BY <1>1, <1>4
<2>3. \A m \in Names : \A e : Contains(index[m], e) => Contains(index'[m], e)
  BY <1>12, <1>15 DEF x
<2>4. ASSUME NEW q \in Plugins, NEW i \in 1..Len(registered'[q])
      PROVE  Contains(index'[Event[registered'[q][i]]], registered'[q][i])
<3>1. CASE q = p /\ i = Len(registered[p]) + 1
<4>1. registered'[q][i] = c
  BY <1>13, <1>15, <3>1
<4> QED
  BY <1>12, <1>15, <4>1 DEF n, x
<3>2. CASE q # p \/ i # Len(registered[p]) + 1
<4>1. i \in 1..Len(registered[q]) /\ registered'[q][i] = registered[q][i]
  BY <1>5, <1>13, <1>15, <3>2
<4>2. Contains(index[Event[registered[q][i]]], registered[q][i])
  BY <2>2, <4>1 DEF IInv, IndexInv, Listed, TakenOut, Removes
<4>3. Event[registered[q][i]] \in Names
  BY <1>2, <4>1, ElementOfSeq, CallbacksAssumption
<4> QED
  BY <2>3, <4>1, <4>2, <4>3
<3> QED
  BY <3>1, <3>2
<2>5. \A q \in Plugins : Listed(q)'
  BY <2>2, <2>4 DEF Listed, TakenOut, Removes
<2> QED
  BY <2>1, <2>5 DEF IndexInv
<1>19. StartedLate' /\ StackInv'
<2>1. job[Loader] # Idle
  BY <1>1, JobFields
<2>2. reloads = 0 => \A t \in Readers : stack[t] = <<>>
  BY <2>1 DEF IInv, StartedLate
<2>3. StartedLate'
  BY <1>1, <2>2 DEF StartedLate
<2>4. CASE reloads = 0
<3>1. \A t \in Readers : Len(stack[t]) = 0
  BY <2>2, <2>4
<3> QED
  BY <1>1, <2>3, <3>1 DEF IInv, StackInv
<2>5. CASE reloads # 0
  BY <1>1, <2>3, <2>5 DEF IInv, StackInv, Good
<2> QED
  BY <2>4, <2>5
<1> QED
  BY <1>4, <1>16, <1>17, <1>18, <1>19 DEF IInv
-----------------------------------------------------------------------------
(* remove_plugin. *)

LEMMA OrderedInjective ==
    ASSUME NEW list \in Seq(Callbacks), Ordered(list) PROVE IsInjective(list)
<1>1. DOMAIN list = 1..Len(list) /\ Len(list) \in Nat
  BY LenProperties
<1> SUFFICES ASSUME NEW i \in 1..Len(list), NEW j \in 1..Len(list), list[i] = list[j]
             PROVE  i = j
  BY <1>1 DEF IsInjective
<1>2. i < j \/ j < i \/ i = j
  BY <1>1
<1> QED
  BY <1>2 DEF Ordered

\* The registered callbacks of a plugin are its own, each there once.
LEMMA RegisteredOwn ==
    ASSUME IInv, NEW p \in Plugins
    PROVE  /\ registered[p] \in Seq(Callbacks) /\ Len(registered[p]) \in Nat
           /\ \A i \in 1..Len(registered[p]) :
                 registered[p][i] \in Callbacks /\ Owner[registered[p][i]] = p
                 /\ Event[registered[p][i]] \in Names
           /\ \A i, j \in 1..Len(registered[p]) :
                 registered[p][i] = registered[p][j] => i = j
<1>1. registered[p] \in Seq(Callbacks) /\ Len(registered[p]) \in Nat
  BY LenProperties DEF IInv, Types, ListTypes
<1>2. /\ Registers[p] \in Seq(Callbacks) /\ Len(Registers[p]) \in Nat
      /\ DOMAIN Registers[p] = 1..Len(Registers[p]) /\ IsInjective(Registers[p])
  BY LenProperties, PluginsAssumption
<1>3. Prefix(p)
  BY DEF IInv, PluginInv
<1>4. \A i \in 1..Len(registered[p]) :
         i \in DOMAIN Registers[p] /\ registered[p][i] = Registers[p][i]
  BY <1>1, <1>2, <1>3 DEF Prefix
<1>5. \A i \in 1..Len(registered[p]) : Owner[registered[p][i]] = p
  BY <1>4, PluginsAssumption
<1>6. \A i \in 1..Len(registered[p]) :
         registered[p][i] \in Callbacks /\ Event[registered[p][i]] \in Names
  BY <1>1, ElementOfSeq, CallbacksAssumption
<1>7. \A i, j \in 1..Len(registered[p]) : registered[p][i] = registered[p][j] => i = j
  BY <1>2, <1>4 DEF IsInjective
<1> QED
  BY <1>1, <1>5, <1>6, <1>7

LEMMA RemoveIndexKeeps ==
    ASSUME IInv, NEW t \in Threads, RemoveIndex(t) PROVE IInv'
<1> DEFINE p == job[t].plugin
           a == job[t].at
           c == registered[p][a]
<1>1. /\ job[t].do = "freed"
      /\ index' = [n \in Names |-> Without(c, index[n])]
      /\ job' = [job EXCEPT ![t].do = "unindex", ![t].at = @ + 1]
      /\ UNCHANGED <<pluginList, status, registered, indexList, nameOwner, mapped,
                     stack, todo, reloads, undefined>>
  BY DEF RemoveIndex, Unindexed, loading
<1>2. /\ p \in Plugins /\ Contains(pluginList, p) /\ a \in 1..(Len(registered[p]) + 1)
      /\ a <= Len(registered[p])
  BY <1>1 DEF IInv, JobInv, JobShape, PluginInv, JobPlace
<1>3. /\ job' \in [Threads -> Jobs] /\ JobInv'
      /\ job'[t].do = "unindex" /\ job'[t].plugin = p /\ job'[t].at = a + 1
      /\ \A u \in Threads : u # t => job'[u] = job[u]
                                     /\ job[u].do = "nothing" /\ job'[u].do = "nothing"
  BY <1>1, NextPlace DEF GoesOn
<1>4. /\ Loader \in Threads
      /\ registered \in [Plugins -> Seq(Callbacks)] /\ index \in [Names -> Seq(Callbacks)]
  BY DEF Threads, IInv, Types, ListTypes
<1>5. job[t].plugin = p /\ job[t].at = a
  OBVIOUS
<1> HIDE DEF p, a
<1>6. a \in 1..Len(registered[p]) /\ Len(registered[p]) \in Nat /\ c \in Callbacks /\ Owner[c] = p
  BY <1>1, <1>2, RegisteredOwn
<1> HIDE DEF c
<1>7. ASSUME NEW n \in Names
      PROVE  /\ index[n] \in Seq(Callbacks) /\ index'[n] \in Seq(Callbacks)
             /\ \A e : Contains(index'[n], e) <=> Contains(index[n], e) /\ e # c
             /\ \A i \in 1..Len(index'[n]) : \E k \in 1..Len(index[n]) :
                   i <= k /\ index'[n][i] = index[n][k]
             /\ \A i, j \in 1..Len(index'[n]) : i < j =>
                   \E k, m \in 1..Len(index[n]) :
                      k < m /\ index'[n][i] = index[n][k] /\ index'[n][j] = index[n][m]
<2>1. index[n] \in Seq(Callbacks) /\ Ordered(index[n])
  BY <1>4 DEF IInv, IndexInv
<2>2. IsInjective(index[n])
  BY <2>1, OrderedInjective
<2> DEFINE l == index[n]
           w == Without(c, l)
<2>3. index'[n] = w
  BY <1>1
<2> HIDE DEF l
<2>4. l \in Seq(Callbacks) /\ IsInjective(l)
  BY <2>1, <2>2 DEF l
<2>5. /\ w \in Seq(Callbacks)
      /\ \A e : Contains(w, e) <=> Contains(l, e) /\ e # c
      /\ \A i \in 1..Len(w) : \E k \in 1..Len(l) : i <= k /\ w[i] = l[k]
      /\ \A i, j \in 1..Len(w) : i < j =>
            \E k, m \in 1..Len(l) : k < m /\ w[i] = l[k] /\ w[j] = l[m]
  BY ONLY <2>4, WithoutOne
<2> HIDE DEF w
<2> QED
  BY <2>3, <2>4, <2>5 DEF l
<1>8. Types'
<2>1. index' \in [Names -> Seq(Callbacks)]
  BY <1>1, <1>7
<2> QED
  BY <1>1, <1>3, <2>1 DEF IInv, Types, ListTypes, PlainTypes
<1>9. PluginInv'
<2>1. IsInjective(pluginList)' /\ \A q \in Plugins : Prefix(q)'
  BY <1>1 DEF IInv, PluginInv, Prefix
<2>2. \A q : Registering(q) <=> Registering(q)'
  BY <1>1, <1>3, <1>4 DEF Registering
<2>3. \A q \in Plugins : Present(q)'
  BY <1>1, <2>2 DEF IInv, PluginInv, Present
<2>4. ASSUME NEW u \in Threads PROVE JobPlace(u)'
<3>1. CASE u = t
  BY <1>1, <1>2, <1>3, <1>6, <3>1 DEF JobPlace
<3>2. CASE u # t
  BY <1>3, <3>2 DEF JobPlace
<3> QED
  BY <3>1, <3>2
<2>5. Pending'
<3>1. /\ job'[Loader].plugin = job[Loader].plugin
      /\ job[Loader].do \in {"unindex", "freed", "install"}
            => job'[Loader].do \in {"unindex", "freed", "install"}
      /\ job'[Loader].do \in {"register", "index"} => job[Loader].do \in {"register", "index"}
  BY <1>1, <1>3, <1>4, <1>5
<3> QED
  BY <1>1, <3>1 DEF IInv, PluginInv, Pending, Registering
<2> QED
  BY <2>1, <2>3, <2>4, <2>5 DEF PluginInv
<1>10. IndexInv'
<2>1. ASSUME NEW n \in Names PROVE Ordered(index[n])' /\ Known(n)'
<3>1. Ordered(index[n]) /\ Known(n)
  BY DEF IInv, IndexInv
<3>2. Ordered(index'[n])
<4> SUFFICES ASSUME NEW i \in 1..Len(index'[n]), NEW j \in 1..Len(index'[n]), i < j
             PROVE  index'[n][i] # index'[n][j]
                    /\ Priority[index'[n][i]] <= Priority[index'[n][j]]
  BY DEF Ordered
<4>1. PICK k, m \in 1..Len(index[n]) :
         k < m /\ index'[n][i] = index[n][k] /\ index'[n][j] = index[n][m]
  BY <1>7
<4> QED
  BY <3>1, <4>1 DEF Ordered
<3>3. ASSUME NEW i \in 1..Len(index'[n])
      PROVE  Event[index'[n][i]] = n
             /\ Contains(registered[Owner[index'[n][i]]], index'[n][i])
<4>1. PICK k \in 1..Len(index[n]) : index'[n][i] = index[n][k]
  BY <1>7
<4> QED
  BY <3>1, <4>1 DEF Known
<3> QED
  BY <1>1, <3>2, <3>3 DEF Ordered, Known
<2>2. ASSUME NEW q \in Plugins, NEW i \in 1..Len(registered[q])
      PROVE  TakenOut(q, i)' <=> ~Contains(index'[Event[registered[q][i]]], registered[q][i])
<3> DEFINE d == registered[q][i]
<3>1. TakenOut(q, i) <=> ~Contains(index[Event[d]], d)
  BY DEF IInv, IndexInv, Listed
<3>2. d \in Callbacks /\ Owner[d] = q /\ Event[d] \in Names /\ i \in Nat
  BY RegisteredOwn
<3>3. Contains(index'[Event[d]], d) <=> Contains(index[Event[d]], d) /\ d # c
  BY <1>7, <3>2
<3>4. TakenOut(q, i) <=> q = p /\ i < a
  BY <1>1, <1>3, <1>5 DEF TakenOut, Removes
<3>5. TakenOut(q, i)' <=> q = p /\ i < a + 1
  BY <1>3 DEF TakenOut, Removes
<3>6. d = c <=> q = p /\ i = a
<4>1. CASE q = p
  BY <1>6, <4>1, RegisteredOwn DEF c
<4>2. CASE q # p
  BY <1>6, <3>2, <4>2
<4> QED
  BY <4>1, <4>2
<3> HIDE DEF d
<3>7. i < a + 1 <=> i < a \/ i = a
  BY <1>6, <3>2
<3>8. TakenOut(q, i)' <=> ~Contains(index'[Event[d]], d)
  BY <3>1, <3>3, <3>4, <3>5, <3>6, <3>7
<3> QED
  BY <3>8 DEF d
<2>3. \A q \in Plugins : Listed(q)'
  BY <1>1, <2>2 DEF Listed
<2> QED
  BY <2>1, <2>3 DEF IndexInv
<1>11. StartedLate'
  BY <1>1, <1>3, <1>4, JobFields DEF IInv, StartedLate
<1>12. StackInv'
<2>1. ASSUME NEW u \in Readers, NEW k \in 1..Len(stack[u]) PROVE Good(stack[u][k])'
<3> DEFINE f == stack[u][k]
<3>1. f \in Frames /\ Good(f)
  BY ElementOfSeq DEF IInv, StackInv
<3> HIDE DEF f
<3>2. f.name \in Names /\ f.i \in Nat
  BY <3>1 DEF Frames
<3>3. ASSUME reloads = 0, NEW j \in 1..Len(index'[f.name]), index'[f.name][j] \in f.called
      PROVE  j < f.i \/ (f.cb # None /\ j = f.i)
<4>1. PICK m \in 1..Len(index[f.name]) : j <= m /\ index'[f.name][j] = index[f.name][m]
  BY <1>7, <3>2
<4>2. m < f.i \/ (f.cb # None /\ m = f.i)
  BY <3>1, <3>3, <4>1 DEF Good, CalledBehind
<4>3. j \in Int /\ m \in Int
  OBVIOUS
<4> QED
  BY <3>2, <4>1, <4>2, <4>3
<3>4. f.cb # None => f.i <= f.count
  BY <3>1 DEF Good
<3>5. f' = f
  BY <1>1 DEF f
<3> QED
  BY <1>1, <3>3, <3>4, <3>5 DEF Good, CalledBehind, f
<2> QED
  BY <1>1, <2>1 DEF IInv, StackInv
<1> QED
  BY <1>3, <1>8, <1>9, <1>10, <1>11, <1>12 DEF IInv

\* Losing the code marks the dispatches that are in it, and changes nothing else.
Marked(p, s) ==
    [k \in DOMAIN s |->
        [s[k] EXCEPT !.gone = @ \/ (s[k].cb # None /\ Owner[s[k].cb] = p)]]

LEMMA MarkedGood ==
    ASSUME NEW p, NEW s \in Seq(Frames), \A k \in 1..Len(s) : Good(s[k])
    PROVE  /\ Marked(p, s) \in Seq(Frames) /\ Len(Marked(p, s)) = Len(s)
           /\ \A k \in 1..Len(s) : Good(Marked(p, s)[k]) /\ Marked(p, s)[k].cb = s[k].cb
<1> DEFINE m == Marked(p, s)
<1>1. DOMAIN s = 1..Len(s) /\ Len(s) \in Nat
  BY LenProperties
<1>2. ASSUME NEW k \in 1..Len(s)
      PROVE  m[k] \in Frames /\ Good(m[k]) /\ m[k].cb = s[k].cb
<2>1. s[k] \in Frames /\ Good(s[k])
  BY <1>1, ElementOfSeq
<2> DEFINE g == [s[k] EXCEPT !.gone = @ \/ (s[k].cb # None /\ Owner[s[k].cb] = p)]
<2>2. m[k] = g
  BY <1>1 DEF Marked
<2>3. g \in Frames /\ g.cb = s[k].cb /\ g.i = s[k].i /\ g.count = s[k].count
      /\ g.called = s[k].called /\ g.name = s[k].name
  BY ONLY <2>1 DEF Frames
<2> HIDE DEF g, m
<2>4. Good(g)
  BY <2>1, <2>3 DEF Good, CalledBehind
<2> QED
  BY <2>2, <2>3, <2>4
<1>3. m \in [1..Len(s) -> Frames]
<2>1. DOMAIN m = 1..Len(s) /\ m = [k \in 1..Len(s) |-> m[k]]
  BY <1>1 DEF Marked
<2> HIDE DEF m
<2> QED
  BY <1>2, <2>1
<1> HIDE DEF m
<1>4. m \in Seq(Frames)
  BY <1>1, <1>3
<1>5. Len(m) = Len(s)
  BY <1>1, <1>3, <1>4, LenProperties
<1> QED
  BY <1>2, <1>4, <1>5 DEF m

LEMMA UnloadKeeps ==
    ASSUME IInv, NEW t \in Threads, Unload(t) PROVE IInv'
<1> DEFINE p == job[t].plugin
           list == Without(p, pluginList)
           new == [job[t] EXCEPT !.do = "install", !.list = list]
<1>1. /\ job[t].do = "unindex" /\ job[t].at > Len(registered[p])
      /\ mapped' = mapped \ {p}
      /\ registered' = [registered EXCEPT ![p] = <<>>]
      /\ job' = [job EXCEPT ![t].do = "install", ![t].list = list]
      /\ stack' = [u \in Readers |->
                     [k \in DOMAIN stack[u] |->
                         [stack[u][k] EXCEPT !.gone =
                             @ \/ (stack[u][k].cb # None /\ Owner[stack[u][k].cb] = p)]]]
      /\ UNCHANGED <<pluginList, status, indexList, index, nameOwner, todo, reloads, undefined>>
  BY DEF Unload, loading
<1>2. /\ p \in Plugins /\ Contains(pluginList, p)
      /\ job[t].at \in 1..(Len(registered[p]) + 1)
  BY <1>1 DEF IInv, JobInv, JobShape, PluginInv, JobPlace
<1>3. /\ Loader \in Threads /\ Readers \subseteq Threads
      /\ registered \in [Plugins -> Seq(Callbacks)] /\ index \in [Names -> Seq(Callbacks)]
      /\ pluginList \in Seq(Plugins) /\ job \in [Threads -> Jobs] /\ IsInjective(pluginList)
  BY DEF Threads, IInv, Types, ListTypes, PlainTypes, PluginInv
<1>4. list \in Seq(Plugins)
<2> HIDE DEF p
<2> QED
  BY ONLY <1>3, WithoutOne
<1>5. job[t] \in Jobs /\ job[t].plugin = p
  BY <1>3
<1> HIDE DEF p, list
<1>6. new \in Jobs /\ new.do = "install" /\ new.plugin = p /\ new.list = list
  BY ONLY <1>4, <1>5 DEF Jobs
<1>7. job' = [job EXCEPT ![t] = new]
  BY <1>1, <1>3
<1> HIDE DEF new
<1>8. /\ job' \in [Threads -> Jobs] /\ job'[t] = new
      /\ \A u \in Threads : u # t => job'[u] = Idle /\ job[u] = Idle /\ job[u].do = "nothing"
  BY <1>1, <1>3, <1>6, <1>7, Others
<1>9. \A i \in 1..Len(registered[p]) : i < job[t].at
  BY <1>1, <1>2, <1>3, LenProperties
<1>10. registered' \in [Plugins -> Seq(Callbacks)] /\ registered'[p] = <<>>
       /\ \A q \in Plugins : q # p => registered'[q] = registered[q]
  BY <1>1, <1>2, <1>3
<1>11. Types'
<2>1. mapped' \in SUBSET Plugins
  BY <1>1 DEF IInv, Types, PlainTypes
<2>2. ListTypes'
  BY <1>1, <1>10 DEF IInv, Types, ListTypes
<2>3. PlainTypes'
  BY <1>1, <1>8, <2>1 DEF IInv, Types, PlainTypes
<2> QED
  BY <2>2, <2>3 DEF Types
<1>12. ASSUME NEW u \in Readers
       PROVE  /\ stack'[u] \in Seq(Frames) /\ Len(stack'[u]) = Len(stack[u])
              /\ \A k \in 1..Len(stack[u]) : Good(stack'[u][k]) /\ stack'[u][k].cb = stack[u][k].cb
<2> DEFINE s == stack[u]
           m == Marked(p, s)
<2>1. s \in Seq(Frames) /\ \A k \in 1..Len(s) : Good(s[k])
  BY DEF IInv, StackInv
<2>2. stack'[u] = m
  BY <1>1 DEF Marked
<2> HIDE DEF s
<2>3. m \in Seq(Frames) /\ Len(m) = Len(s) /\ \A k \in 1..Len(s) : Good(m[k]) /\ m[k].cb = s[k].cb
  BY <2>1, MarkedGood
<2> HIDE DEF m
<2>4. s = stack[u]
  BY DEF s
<2> QED
  BY <2>2, <2>3, <2>4
<1>13. \A u \in Readers : stack'[u] # <<>> <=> stack[u] # <<>>
<2> SUFFICES ASSUME NEW u \in Readers PROVE stack'[u] # <<>> <=> stack[u] # <<>>
  OBVIOUS
<2>1. stack[u] \in Seq(Frames)
  BY DEF IInv, StackInv
<2> QED
  BY <1>12, <2>1, EmptySeq
<1>14. StackInv'
<2>1. stack' = [u \in Readers |-> stack'[u]]
  BY <1>1
<2>2. stack' \in [Readers -> Seq(Frames)]
  BY <1>12, <2>1
<2>3. ASSUME NEW u \in Readers, NEW k \in 1..Len(stack'[u]) PROVE Good(stack[u][k])'
<3>1. Good(stack'[u][k])
  BY <1>12
<3> QED
  BY <1>1, <3>1 DEF Good, CalledBehind
<2> QED
  BY <2>2, <2>3 DEF StackInv
<1>15. StartedLate'
  BY <1>1, <1>3, <1>8, <1>13, JobFields DEF IInv, StartedLate
<1>16. JobInv'
<2>1. OneJob'
  BY <1>8 DEF OneJob
<2>2. ASSUME NEW u \in Threads PROVE JobShape(u)'
<3>1. CASE u = t
  BY <1>2, <1>6, <1>8, <3>1 DEF JobShape
<3>2. CASE u # t
  BY <1>8, <3>2, JobFields DEF JobShape
<3> QED
  BY <3>1, <3>2
<2>3. BetweenTurns'
<3> SUFFICES ASSUME NEW u \in Readers, job'[u] # Idle
             PROVE  stack'[u] # <<>> /\ stack'[u][1].cb = None
  BY DEF BetweenTurns
<3>1. u = t /\ job[u] # Idle
  BY <1>1, <1>3, <1>8, JobFields
<3>2. stack[u] # <<>> /\ stack[u][1].cb = None
  BY <3>1 DEF IInv, JobInv, BetweenTurns
<3>3. 1 \in 1..Len(stack[u])
  BY <3>2, EmptySeq DEF IInv, StackInv
<3> QED
  BY <1>12, <1>13, <3>2, <3>3
<2> QED
  BY <2>1, <2>2, <2>3 DEF JobInv
<1>17. PluginInv'
<2>1. IsInjective(pluginList)'
  BY <1>1, <1>3
<2>2. ASSUME NEW q \in Plugins PROVE Prefix(q)' /\ Present(q)'
<3>1. CASE q = p
<4>1. Len(registered'[q]) = 0 /\ Len(Registers[q]) \in Nat
  BY <1>10, <3>1, LenProperties, PluginsAssumption
<4> QED
  BY <1>10, <3>1, <4>1 DEF Prefix, Present
<3>2. CASE q # p
<4>1. Registering(q) => t # Loader
  BY <1>1 DEF Registering
<4>2. ~Registering(q)
  BY <1>3, <1>8, <4>1, JobFields DEF Registering
<4> QED
  BY <1>1, <1>10, <3>2, <4>2 DEF IInv, PluginInv, Prefix, Present
<3> QED
  BY <3>1, <3>2
<2>3. ASSUME NEW u \in Threads PROVE JobPlace(u)'
<3>1. CASE u = t
  BY <1>1, <1>2, <1>6, <1>8, <1>10, <3>1 DEF JobPlace, list
<3>2. CASE u # t
  BY <1>8, <3>2, JobFields DEF JobPlace
<3> QED
  BY <3>1, <3>2
<2>4. Pending'
<3>1. ASSUME NEW i \in 1..Len(todo), Contains(pluginList, todo[i])
      PROVE  job'[Loader].do \in {"unindex", "freed", "install"} /\ job'[Loader].plugin = todo[i]
<4>1. job[Loader].do \in {"unindex", "freed", "install"} /\ job[Loader].plugin = todo[i]
  BY <3>1 DEF IInv, PluginInv, Pending
<4>2. t = Loader
  BY <1>3, <1>8, <4>1
<4> QED
  BY <1>5, <1>6, <1>8, <4>1, <4>2
<3>2. \A q : ~Registering(q)'
  BY <1>3, <1>6, <1>8, JobFields DEF Registering
<3>3. IsInjective(todo)'
  BY <1>1 DEF IInv, PluginInv, Pending
<3> QED
  BY <1>1, <3>1, <3>2, <3>3 DEF Pending
<2> QED
  BY <2>1, <2>2, <2>3, <2>4 DEF PluginInv
<1>18. IndexInv'
<2>0. ASSUME NEW i \in 1..Len(registered[p])
      PROVE  ~Contains(index[Event[registered[p][i]]], registered[p][i])
<3>1. TakenOut(p, i)
  BY <1>1, <1>5, <1>9 DEF TakenOut, Removes
<3> QED
  BY <1>2, <3>1 DEF IInv, IndexInv, Listed
<2>1. ASSUME NEW n \in Names PROVE Ordered(index[n])' /\ Known(n)'
<3>1. Ordered(index[n]) /\ Known(n)
  BY DEF IInv, IndexInv
<3>2. ASSUME NEW i \in 1..Len(index[n])
      PROVE  Contains(registered'[Owner[index[n][i]]], index[n][i])
<4> DEFINE c == index[n][i]
<4>1. Event[c] = n /\ Contains(registered[Owner[c]], c) /\ Owner[c] \in Plugins
<5>1. c \in Callbacks
  BY <1>3, ElementOfSeq
<5> QED
  BY <3>1, <5>1, CallbacksAssumption DEF Known
<4>2. Contains(index[n], c)
  BY DEF Contains
<4> HIDE DEF c
<4>3. Owner[c] # p
<5> SUFFICES ASSUME Owner[c] = p PROVE FALSE
  OBVIOUS
<5>1. PICK k \in 1..Len(registered[p]) : registered[p][k] = c
  BY <4>1 DEF Contains
<5> QED
  BY <2>0, <4>1, <4>2, <5>1
<4> QED
  BY <1>10, <4>1, <4>3 DEF c
<3> QED
  BY <1>1, <3>1, <3>2 DEF Ordered, Known
<2>2. ASSUME NEW q \in Plugins PROVE Listed(q)'
<3>1. CASE q = p
<4>1. Len(registered'[q]) = 0
  BY <1>10, <3>1
<4> QED
  BY <4>1 DEF Listed
<3>2. CASE q # p
<4>1. \A i \in 1..Len(registered[q]) : ~TakenOut(q, i)
  BY <1>5, <1>8, <3>2 DEF TakenOut, Removes
<4>2. \A i \in 1..Len(registered[q]) : ~TakenOut(q, i)'
  BY <1>6, <1>8, JobFields DEF TakenOut, Removes
<4>3. Listed(q) /\ registered'[q] = registered[q]
  BY <1>10, <3>2 DEF IInv, IndexInv
<4> QED
  BY <1>1, <4>1, <4>2, <4>3 DEF Listed
<3> QED
  BY <3>1, <3>2
<2> QED
  BY <2>1, <2>2 DEF IndexInv
<1> QED
  BY <1>11, <1>14, <1>15, <1>16, <1>17, <1>18 DEF IInv

LEMMA InstallListKeeps ==
    ASSUME IInv, NEW t \in Threads, InstallList(t) PROVE IInv'
<1> DEFINE p == job[t].plugin
<1>1. /\ job[t].do = "install" /\ pluginList' = job[t].list
      /\ job' = [job EXCEPT ![t] = Idle]
      /\ UNCHANGED <<status, registered, indexList, index, nameOwner, mapped, stack,
                     todo, reloads, undefined>>
  BY DEF InstallList, loading
<1>2. /\ Loader \in Threads /\ Readers \subseteq Threads
      /\ pluginList \in Seq(Plugins) /\ job \in [Threads -> Jobs] /\ IsInjective(pluginList)
  BY DEF Threads, IInv, Types, ListTypes, PlainTypes, PluginInv
<1>3. p \in Plugins /\ registered[p] = <<>> /\ job[t].list = Without(p, pluginList)
  BY <1>1 DEF IInv, JobInv, JobShape, PluginInv, JobPlace
<1>4. job' \in [Threads -> Jobs] /\ \A u \in Threads : job'[u] = Idle
      /\ (u # t => job[u] = Idle /\ job[u].do = "nothing")
  BY <1>1, <1>2, Others, JobFields
<1>5. job[t].plugin = p
  OBVIOUS
<1> HIDE DEF p
<1>6. pluginList' = Without(p, pluginList)
  BY <1>1, <1>3
<1>7. /\ pluginList' \in Seq(Plugins) /\ IsInjective(pluginList')
      /\ \A q : Contains(pluginList', q) <=> Contains(pluginList, q) /\ q # p
<2>1. /\ Without(p, pluginList) \in Seq(Plugins) /\ IsInjective(Without(p, pluginList))
      /\ \A q : Contains(Without(p, pluginList), q) <=> Contains(pluginList, q) /\ q # p
  BY ONLY <1>2, WithoutOne
<2> QED
  BY <1>6, <2>1
<1>8. Types'
  BY <1>1, <1>4, <1>7 DEF IInv, Types, ListTypes, PlainTypes
<1>9. JobInv'
<2>1. OneJob' /\ BetweenTurns' /\ \A u \in Threads : JobShape(u)'
  BY <1>2, <1>4, JobFields DEF OneJob, BetweenTurns, JobShape
<2> QED
  BY <2>1 DEF JobInv
<1>10. PluginInv'
<2>1. ASSUME NEW q \in Plugins PROVE Prefix(q)' /\ Present(q)'
<3>1. ~Registering(q)
  BY <1>1, <1>2, <1>4 DEF Registering
<3> QED
  BY <1>1, <1>3, <1>7, <3>1 DEF IInv, PluginInv, Prefix, Present
<2>2. \A u \in Threads : JobPlace(u)'
  BY <1>4, JobFields DEF JobPlace
<2>3. Pending'
<3>1. ASSUME NEW i \in 1..Len(todo) PROVE ~Contains(pluginList', todo[i])
<4> SUFFICES ASSUME Contains(pluginList, todo[i]), todo[i] # p PROVE FALSE
  BY <1>7
<4>1. job[Loader].do \in {"unindex", "freed", "install"} /\ job[Loader].plugin = todo[i]
  BY DEF IInv, PluginInv, Pending
<4>2. t = Loader
  BY <1>2, <1>4, <4>1
<4> QED
  BY <1>5, <4>1, <4>2
<3>2. \A q : ~Registering(q)'
  BY <1>2, <1>4, JobFields DEF Registering
<3>3. IsInjective(todo)'
  BY <1>1 DEF IInv, PluginInv, Pending
<3> QED
  BY <1>1, <3>1, <3>2, <3>3 DEF Pending
<2> QED
  BY <1>7, <2>1, <2>2, <2>3 DEF PluginInv
<1>11. IndexInv'
<2>1. \A u \in Threads : job[u].do \notin {"unindex", "freed"}
                         /\ job'[u].do \notin {"unindex", "freed"}
  BY <1>1, <1>4, JobFields
<2> QED
  BY <1>1, <2>1, IndexFrame DEF IInv, TakenOut, Removes
<1>12. StartedLate'
  BY <1>1, <1>2, <1>4 DEF IInv, StartedLate
<1>13. StackInv'
  BY <1>1, StackFrame DEF IInv
<1> QED
  BY <1>8, <1>9, <1>10, <1>11, <1>12, <1>13 DEF IInv
-----------------------------------------------------------------------------
(* All steps, from the start. *)

LEMMA InitIInv == ASSUME Init PROVE IInv
<1>0. Loader \in Threads /\ Readers \subseteq Threads
  BY DEF Threads
<1>1. Types
<2>1. <<>> \in Seq(Plugins) /\ <<>> \in Seq(Callbacks) /\ <<>> \in Seq(Names)
  OBVIOUS
<2>2. ListTypes
  BY <2>1, PluginsAssumption DEF Init, ListTypes
<2>3. PlainTypes
<3>1. job \in [Threads -> Jobs]
  BY JobFields DEF Init
<3>2. reloads \in 0..MaxReloads
  BY ThreadsAssumption DEF Init
<3> QED
  BY <3>1, <3>2 DEF Init, PlainTypes
<2> QED
  BY <2>2, <2>3 DEF Types
<1>2. \A t \in Threads : job[t] = Idle
  BY DEF Init
<1>3. JobInv
  BY <1>0, <1>2, JobFields DEF JobInv, OneJob, JobShape, BetweenTurns
<1>4. Len(pluginList) = 0 /\ \A p \in Plugins : registered[p] = <<>> /\ Len(registered[p]) = 0
  BY DEF Init
<1>5. PluginInv
<2>1. DOMAIN pluginList = {}
  BY DEF Init
<2>2. IsInjective(pluginList)
  BY <2>1 DEF IsInjective
<2>3. \A p \in Plugins : Prefix(p) /\ Present(p)
  BY <1>4, LenProperties, PluginsAssumption DEF Prefix, Present
<2>4. \A t \in Threads : JobPlace(t)
  BY <1>2, JobFields DEF JobPlace
<2>5. \A q : ~Contains(pluginList, q) /\ ~Registering(q)
  BY <1>0, <1>2, <1>4, JobFields DEF Contains, Registering
<2>6. Pending
  BY <2>5, PluginsAssumption DEF Pending, Init
<2> QED
  BY <2>2, <2>3, <2>4, <2>6 DEF PluginInv
<1>6. IndexInv
<2>1. \A n \in Names : Len(index[n]) = 0
  BY DEF Init
<2> QED
  BY <1>4, <2>1 DEF IndexInv, Ordered, Known, Listed
<1>7. StartedLate
  BY DEF Init, StartedLate
<1>8. StackInv
<2>1. \A t \in Readers : Len(stack[t]) = 0
  BY DEF Init
<2> QED
  BY <2>1 DEF Init, StackInv
<1> QED
  BY <1>1, <1>3, <1>5, <1>6, <1>7, <1>8 DEF IInv

LEMMA LoaderStepKeeps == ASSUME IInv, LoaderStep PROVE IInv'
  BY LoadPluginKeeps, RegisterCallbackKeeps, IndexCallbackKeeps,
     AppendPluginKeeps, UndefinedKeeps DEF LoaderStep, LoaderClashes, UnloadItself

LEMMA RemoveStepKeeps == ASSUME IInv, NEW t \in Threads, RemoveStep(t) PROVE IInv'
  BY FreeRecordKeeps, RemoveIndexKeeps, UnloadKeeps, InstallListKeeps DEF RemoveStep

LEMMA DispatchStepKeeps == ASSUME IInv, NEW t \in Readers, DispatchStep(t) PROVE IInv'
  BY RaiseNestedKeeps, ReadCallbackKeeps, CallCallbackKeeps, ReturnOkKeeps,
     ReturnBreakKeeps, ReturnStopKeeps, ReturnFailKeeps, FinishDispatchKeeps, UndefinedKeeps
     DEF DispatchStep, ReturnToNowhere

LEMMA StutterKeeps == ASSUME IInv, UNCHANGED vars PROVE IInv'
<1>1. UNCHANGED <<pluginList, status, registered, indexList, index, nameOwner, mapped,
                  stack, job, todo, reloads, undefined>>
      /\ UNCHANGED <<tables, job, loading>>
  BY DEF vars, tables, loading
<1>2. Types'
<2>1. undefined' \in BOOLEAN
  BY <1>1 DEF IInv, Types, PlainTypes
<2> QED
  BY <1>1, <2>1, TypesFrame DEF IInv
<1>3. JobInv'
  BY <1>1, JobFrame DEF IInv
<1>4. PluginInv'
  BY <1>1, PluginFrame DEF IInv
<1>5. IndexInv'
  BY <1>1, IndexFrame DEF IInv, TakenOut, Removes
<1>6. StartedLate'
  BY <1>1 DEF IInv, StartedLate
<1>7. StackInv'
  BY <1>1, StackFrame DEF IInv
<1> QED
  BY <1>2, <1>3, <1>4, <1>5, <1>6, <1>7 DEF IInv

LEMMA NextKeeps == ASSUME IInv, [Next \/ Undefined]_vars PROVE IInv'
<1>1. ASSUME NEW p \in Plugins, LoadNewPlugin(p) PROVE IInv'
  BY <1>1, LoadNewPluginKeeps
<1>2. ASSUME NEW t \in Threads, RemoveStep(t) PROVE IInv'
  BY <1>2, RemoveStepKeeps
<1>3. ASSUME NEW t \in Readers, DispatchStep(t) PROVE IInv'
  BY <1>3, DispatchStepKeeps
<1>4. ASSUME NEW t \in Readers, NEW n \in Names, RaiseRoot(t, n) PROVE IInv'
  BY <1>4, RaiseRootKeeps
<1> QED
  BY <1>1, <1>2, <1>3, <1>4, LoaderStepKeeps, UndefinedKeeps, StutterKeeps DEF Next

LEMMA TypesImply == ASSUME IInv PROVE TypeOK
<1>1. \A t \in Readers : stack[t] \in Seq(Frames) /\ DOMAIN stack[t] = 1..Len(stack[t])
  BY LenProperties DEF IInv, StackInv
<1>2. \A t \in Readers : \A k \in DOMAIN stack[t] :
         stack[t][k].cb # None => stack[t][k].i <= stack[t][k].count
  BY <1>1 DEF IInv, StackInv, Good
<1>3. stack \in [Readers -> Seq(Frames)]
  BY DEF IInv, StackInv
<1> QED
  BY <1>2, <1>3 DEF IInv, Types, ListTypes, PlainTypes, TypeOK

LEMMA IndexImplies == ASSUME IInv PROVE IndexExact
<1> SUFFICES ASSUME NEW n \in Names
    PROVE  /\ \A i, j \in DOMAIN index[n] :
                 i < j => /\ index[n][i] # index[n][j]
                          /\ Priority[index[n][i]] <= Priority[index[n][j]]
           /\ \A p \in Plugins :
                 LET here  == {c \in ToSet(index[n]) : Owner[c] = p}
                     there == {c \in ToSet(registered[p]) : Event[c] = n}
                 IN  here \subseteq there /\ (Removing(p) \/ here = there)
  BY DEF IndexExact
<1>1. /\ index[n] \in Seq(Callbacks) /\ DOMAIN index[n] = 1..Len(index[n])
      /\ Ordered(index[n]) /\ Known(n)
  BY LenProperties DEF IInv, Types, ListTypes, IndexInv
<1>2. \A c : c \in ToSet(index[n]) <=> Contains(index[n], c)
  BY <1>1 DEF ToSet, Contains
<1>3. ASSUME NEW p \in Plugins PROVE \A c : c \in ToSet(registered[p]) <=> Contains(registered[p], c)
<2>1. DOMAIN registered[p] = 1..Len(registered[p])
  BY LenProperties DEF IInv, Types, ListTypes
<2> QED
  BY <2>1 DEF ToSet, Contains
<1>4. ASSUME NEW p \in Plugins, NEW c, Contains(index[n], c), Owner[c] = p
      PROVE  Contains(registered[p], c) /\ Event[c] = n
  BY <1>1, <1>4 DEF Contains, Known
<1>5. ASSUME NEW p \in Plugins, ~Removing(p), NEW c, Contains(registered[p], c), Event[c] = n
      PROVE  Contains(index[n], c) /\ Owner[c] = p
<2>1. PICK i \in 1..Len(registered[p]) : registered[p][i] = c
  BY <1>5 DEF Contains
<2>2. ~TakenOut(p, i)
  BY <1>5 DEF TakenOut, Removing
<2>3. Contains(index[n], c)
  BY <1>5, <2>1, <2>2 DEF IInv, IndexInv, Listed
<2> QED
  BY <2>1, <2>3, RegisteredOwn
<1>6. ASSUME NEW p \in Plugins
      PROVE  LET here  == {c \in ToSet(index[n]) : Owner[c] = p}
                 there == {c \in ToSet(registered[p]) : Event[c] = n}
             IN  here \subseteq there /\ (Removing(p) \/ here = there)
  BY <1>2, <1>3, <1>4, <1>5
<1> QED
  BY <1>1, <1>6 DEF Ordered

\* PluginHandler alone, whichever files are found replaced.
THEOREM Invariance == Spec => []IInv
<1>1. Init => IInv
  BY InitIInv
<1>2. IInv /\ [Next]_vars => IInv'
  BY NextKeeps
<1> QED
  BY <1>1, <1>2, PTL DEF Spec
-----------------------------------------------------------------------------
(* Autoload, over PluginHandler. *)

HookInv ==
    /\ hook \in {"init", "read", "load"}
    /\ events \in Seq(Written \cup Directories)
    /\ events # <<>> => Watching
    /\ behind \subseteq Written
    /\ changes \in 0..MaxReloads

AInv == IInv /\ HookInv

\* To the plugin table, every step of the whole is one of its own, or the end.
LEMMA TableSteps ==
    ASSUME AInv, [NextAutoload]_allVars PROVE [Next \/ Undefined]_vars
<1>1. ASSUME ReadEvents PROVE [Next \/ Undefined]_vars
<2>1. CASE Taken \in Directories
  BY <1>1, <2>1 DEF ReadEvents
<2>2. CASE Taken \notin Directories
<3>1. events \in Seq(Written \cup Directories) /\ events # <<>>
  BY <1>1 DEF ReadEvents, AInv, HookInv
<3>2. Taken \in Plugins
  BY <2>2, <3>1, WrittenAssumption DEF Taken
<3> QED
  BY <1>1, <2>2, <3>2 DEF ReadEvents, Next
<2> QED
  BY <2>1, <2>2
<1>2. ASSUME Load PROVE Next
  BY <1>2 DEF Load, Next
<1>3. ASSUME HookStep PROVE [Next \/ Undefined]_vars
  BY <1>1, <1>3 DEF HookStep, AddWatch, DropWatch, RunsNowhere
<1>4. ASSUME NEW t \in Threads, Removal(t) PROVE Next
  BY <1>4 DEF Removal, Next
<1>5. ASSUME NEW t \in Readers, Dispatch(t) \/ \E n \in Names : Raise(t, n) PROVE Next
  BY <1>5 DEF Dispatch, Raise, Next
<1>6. ASSUME NEW p \in Written, FileWritten(p) PROVE UNCHANGED vars
  BY <1>6 DEF FileWritten
<1>7. ASSUME NEW d \in Directories, DirectoryMoved(d) PROVE UNCHANGED vars
  BY <1>7 DEF DirectoryMoved
<1>8. ASSUME UNCHANGED allVars PROVE UNCHANGED vars
  BY <1>8 DEF allVars
<1> QED
  BY <1>2, <1>3, <1>4, <1>5, <1>6, <1>7, <1>8 DEF NextAutoload

LEMMA HookKeeps ==
    ASSUME AInv, [NextAutoload]_allVars PROVE HookInv'
<1>0. HookInv
  BY DEF AInv
<1>1. ASSUME Load PROVE HookInv'
  BY <1>0, <1>1 DEF HookInv, Load, Watching
<1>2. ASSUME HookStep PROVE HookInv'
<2>1. <<>> \in Seq(Written \cup Directories)
  OBVIOUS
<2>2. CASE AddWatch
  BY <1>0, <2>2 DEF HookInv, AddWatch, Watching
<2>3. CASE ReadEvents
  BY <1>0, <2>1, <2>3 DEF HookInv, ReadEvents, Watching
<2>4. CASE DropWatch
  BY <1>0, <2>1, <2>4 DEF HookInv, DropWatch, Watching
<2>5. CASE RunsNowhere
  BY <1>0, <2>5 DEF HookInv, RunsNowhere, hookVars, Watching
<2> QED
  BY <1>2, <2>2, <2>3, <2>4, <2>5 DEF HookStep
<1>3. ASSUME NEW t \in Threads, Removal(t) PROVE HookInv'
  BY <1>0, <1>3 DEF HookInv, Removal, hookVars, Watching
<1>4. ASSUME NEW t \in Readers, Dispatch(t) \/ \E n \in Names : Raise(t, n) PROVE HookInv'
  BY <1>0, <1>4 DEF HookInv, Dispatch, Raise, hookVars, Watching
<1>5. changes < MaxReloads => changes + 1 \in 0..MaxReloads
  BY <1>0, ThreadsAssumption DEF HookInv
<1>6. ASSUME NEW p \in Written, FileWritten(p) PROVE HookInv'
<2>1. Append(events, p) \in Seq(Written \cup Directories)
  BY <1>0 DEF HookInv
<2>2. /\ changes < MaxReloads /\ changes' = changes + 1 /\ behind' = behind \cup {p}
      /\ events' = IF Watching THEN Append(events, p) ELSE events
      /\ hook' = hook
  BY <1>6 DEF FileWritten
<2>3. events' \in Seq(Written \cup Directories) /\ (events' # <<>> => Watching')
  BY <1>0, <2>1, <2>2 DEF HookInv, Watching
<2> QED
  BY <1>0, <1>5, <2>2, <2>3 DEF HookInv
<1>7. ASSUME NEW d \in Directories, DirectoryMoved(d) PROVE HookInv'
<2>1. Append(events, d) \in Seq(Written \cup Directories)
  BY <1>0 DEF HookInv
<2>2. /\ changes < MaxReloads /\ changes' = changes + 1 /\ Watching
      /\ events' = Append(events, d) /\ hook' = hook /\ behind' = behind
  BY <1>7 DEF DirectoryMoved
<2> QED
  BY <1>0, <1>5, <2>1, <2>2 DEF HookInv, Watching
<1>8. ASSUME UNCHANGED allVars PROVE HookInv'
  BY <1>0, <1>8 DEF HookInv, allVars, hookVars, Watching
<1> QED
  BY <1>1, <1>2, <1>3, <1>4, <1>6, <1>7, <1>8 DEF NextAutoload

\* The inductive invariant holds, however the files are written, the events
\* raised, and the loads and removals of all threads interleave.
THEOREM AutoloadInvariance == SpecAutoload => []AInv
<1>1. InitAutoload => AInv
<2> SUFFICES ASSUME InitAutoload PROVE AInv
  OBVIOUS
<2>1. IInv
  BY InitIInv DEF InitAutoload
<2>2. HookInv
  BY ThreadsAssumption DEF InitAutoload, HookInv
<2> QED
  BY <2>1, <2>2 DEF AInv
<1>2. AInv /\ [NextAutoload]_allVars => AInv'
<2> SUFFICES ASSUME AInv, [NextAutoload]_allVars PROVE AInv'
  OBVIOUS
<2>1. IInv'
  BY TableSteps, NextKeeps DEF AInv
<2> QED
  BY <2>1, HookKeeps DEF AInv
<1> QED
  BY <1>1, <1>2, PTL DEF SpecAutoload

\* Every variable of the plugin table and of the watching thread holds a
\* value of its range, and events are queued only while there is a watch.
THEOREM HookTyped == SpecAutoload => []HookTypeOK
<1>1. AInv => HookTypeOK
  BY TypesImply DEF AInv, HookInv, HookTypeOK
<1> QED
  BY <1>1, AutoloadInvariance, PTL

\* The index is exact however loads and removals interleave: in order of
\* priority, nothing twice, and for every plugin nobody is removing just the
\* callbacks it registered (register_callback, remove_index).
THEOREM IndexAlwaysExact == SpecAutoload => []IndexExact
<1>1. AInv => IndexExact
  BY IndexImplies DEF AInv
<1> QED
  BY <1>1, AutoloadInvariance, PTL
-----------------------------------------------------------------------------
(* What is read for a call. *)

\* What is read is what the index has at the place the innermost loop is at.
LEMMA ReadsFromIndex ==
    ASSUME IInv, [Next \/ Undefined]_vars, NEW t \in Readers, Reads(t)
    PROVE  LET f == stack[t][1]
           IN  /\ Head(stack[t]) = f /\ f \in Frames /\ Good(f) /\ f.cb = None
               /\ f.name \in Names /\ f.i \in 1..Len(index[f.name])
               /\ Head(stack'[t]).cb = index[f.name][f.i]
<1> DEFINE f == stack[t][1]
<1>1. /\ stack[t] # <<>> /\ Len(stack'[t]) = Len(stack[t])
      /\ Head(stack[t]).cb = None /\ Head(stack'[t]).cb # None
  BY DEF Reads
<1>2. /\ stack[t] \in Seq(Frames) /\ Len(stack[t]) \in Nat \ {0}
      /\ Head(stack[t]) = f /\ f \in Frames /\ Good(f)
      /\ Tail(stack[t]) \in Seq(Frames) /\ Len(Tail(stack[t])) = Len(stack[t]) - 1
      /\ \A k \in 1..Len(Tail(stack[t])) : Good(Tail(stack[t])[k])
  BY <1>1, Innermost, Zenon
<1>3. stack \in [Readers -> Seq(Frames)]
  BY DEF IInv, StackInv
<1>4. stack'[t] # stack[t]
  BY <1>1
<1>5. f.name \in Names /\ f.i \in Nat \ {0}
  BY <1>2 DEF Frames
<1>6. CASE ReadCallback(t) /\ ~Undefined
<2>1. /\ f.i <= Len(index[f.name])
      /\ stack' = [stack EXCEPT ![t][1].cb = index[f.name][f.i],
                                ![t][1].inside = FALSE,
                                ![t][1].raised = FALSE,
                                ![t][1].called = @ \cup {index[f.name][f.i]}]
  BY <1>2, <1>6 DEF ReadCallback, Readable
<2>2. 1 \in DOMAIN stack[t] /\ DOMAIN stack[t] = 1..Len(stack[t])
  BY <1>2
<2>3. stack'[t][1].cb = index[f.name][f.i]
  BY <1>2, <1>3, <2>1, <2>2 DEF Frames
<2>4. stack'[t] # <<>>
  BY <1>1, <1>2
<2>5. Head(stack'[t]) = stack'[t][1]
<3>1. stack' \in [Readers -> Seq(Frames)]
  BY NextKeeps DEF IInv, StackInv
<3> QED
  BY <2>4, <3>1
<2>6. Len(index[f.name]) \in Nat
  BY <1>5, LenProperties DEF IInv, Types, ListTypes
<2>7. f.i \in 1..Len(index[f.name])
<3> HIDE DEF f
<3> QED
  BY <1>5, <2>1, <2>6
<2> QED
  BY <1>1, <1>2, <1>5, <2>3, <2>5, <2>7
<1>7. CASE ~(ReadCallback(t) /\ ~Undefined)
<2>1. ~Undefined
  BY <1>4 DEF Undefined
<2>2. stack' # stack
  BY <1>4
<2>3. ~LoaderStep /\ ~(UNCHANGED vars) /\ \A p \in Plugins : ~LoadNewPlugin(p)
  BY <2>1, <2>2 DEF LoaderStep, LoadPlugin, LoaderClashes, RegisterCallback, IndexCallback,
                    AppendPlugin, UnloadItself, vars, LoadNewPlugin
<2>4. ASSUME NEW u \in Threads, RemoveStep(u) PROVE FALSE
<3>1. Unload(u)
  BY <2>2, <2>4 DEF RemoveStep, FreeRecord, RemoveIndex, InstallList
<3> DEFINE p == job[u].plugin
           m == Marked(p, stack[t])
<3>2. stack'[t] = m
  BY <3>1 DEF Unload, Marked
<3>3. \A k \in 1..Len(stack[t]) : Good(stack[t][k])
  BY DEF IInv, StackInv
<3>4. m \in Seq(Frames) /\ Len(m) = Len(stack[t]) /\ m[1].cb = f.cb
<4>1. 1 \in 1..Len(stack[t])
  BY <1>2
<4> HIDE DEF p
<4> QED
  BY <1>2, <3>3, <4>1, MarkedGood
<3> HIDE DEF m
<3>5. Head(m) = m[1]
  BY <1>2, <3>4
<3> QED
  BY <1>1, <1>2, <3>2, <3>4, <3>5
<2>5. ASSUME NEW u \in Readers, NEW n \in Names, RaiseRoot(u, n) PROVE FALSE
  BY <1>1, <1>3, <1>4, <2>1, <2>5 DEF RaiseRoot
<2>6. ASSUME NEW u \in Readers, DispatchStep(u) PROVE FALSE
<3>1. ASSUME NEW n \in Names, RaiseNested(u, n) PROVE FALSE
  BY <1>1, <1>3, <1>4, <2>1, <3>1 DEF RaiseNested, InCallback
<3>2. ASSUME InCallback(u), Proceed(u) PROVE FALSE
  BY <1>1, <1>3, <1>4, <3>2 DEF InCallback, Proceed
<3>3. ASSUME ReturnBreak(u) PROVE FALSE
  BY <1>1, <1>3, <1>4, <3>3 DEF ReturnBreak, Returns, InCallback
<3>4. ASSUME ReadCallback(u) PROVE FALSE
<4>1. u # t
  BY <1>7, <2>1, <3>4
<4> QED
  BY <1>3, <1>4, <2>1, <3>4, <4>1 DEF ReadCallback
<3>6. ASSUME CallCallback(u) PROVE FALSE
  BY <1>1, <1>3, <1>4, <2>1, <3>6 DEF CallCallback, Fetched
<3>5. ASSUME FinishDispatch(u) PROVE FALSE
<4> DEFINE r == Tail(stack[t])
<4>1. u = t /\ (stack'[t] \in Entered(Executed, r) \/ stack'[t] = r)
  BY <1>3, <1>4, <2>1, <3>5 DEF FinishDispatch
<4>2. Executed \in Names
  BY CallbacksAssumption
<4> HIDE DEF r
<4>3. r \in Seq(Frames) /\ Len(r) = Len(stack[t]) - 1 /\ \A k \in 1..Len(r) : Good(r[k])
  BY <1>2 DEF r
<4>4. \A e \in Entered(Executed, r) :
         /\ e \in Seq(Frames)
         /\ GetCbIndex(Executed) => Len(e) = Len(r) + 1 /\ e[1].cb = None
         /\ ~GetCbIndex(Executed) => e = r
  BY <4>2, <4>3, EnteredGood DEF IInv
<4>5. Len(r) # Len(stack[t])
  BY <1>2, <4>3
<4>6. PICK e \in Entered(Executed, r) : stack'[t] = e
  BY <1>1, <4>1, <4>5
<4>7. e \in Seq(Frames) /\ e # <<>> /\ e[1].cb = None
  BY <1>1, <1>2, <4>4, <4>5, <4>6
<4>8. Head(e).cb = None
  BY <4>7
<4> QED
  BY <1>1, <4>6, <4>8
<3> QED
  BY <2>1, <2>6, <3>1, <3>2, <3>3, <3>4, <3>5, <3>6
     DEF DispatchStep, ReturnToNowhere, ReturnOk, ReturnStop, ReturnFail, Returns
<2> QED
  BY <2>1, <2>3, <2>4, <2>5, <2>6 DEF Next
<1> QED
  BY <1>6, <1>7

LEMMA Loaded ==
    ASSUME IInv, [Next \/ Undefined]_vars, NEW t \in Readers, Reads(t)
    PROVE  Owner[Head(stack'[t]).cb] \in mapped
<1> DEFINE f == stack[t][1]
           c == index[f.name][f.i]
<1>1. f.name \in Names /\ f.i \in 1..Len(index[f.name]) /\ Head(stack'[t]).cb = c
  BY ReadsFromIndex
<1> HIDE DEF f
<1>2. c \in Callbacks /\ Known(f.name)
  BY <1>1, ElementOfSeq DEF IInv, Types, ListTypes, IndexInv
<1>3. Contains(registered[Owner[c]], c) /\ Owner[c] \in Plugins
  BY <1>1, <1>2, CallbacksAssumption DEF Known
<1> HIDE DEF c
<1>4. registered[Owner[c]] # <<>>
<2>1. registered[Owner[c]] \in Seq(Callbacks)
  BY <1>3, RegisteredOwn
<2>2. \E i \in 1..Len(registered[Owner[c]]) : registered[Owner[c]][i] = c
  BY <1>3 DEF Contains
<2> QED
  BY <2>1, <2>2
<1>5. Present(Owner[c])
  BY <1>3 DEF IInv, PluginInv
<1> QED
  BY <1>1, <1>4, <1>5 DEF Present

LEMMA NotAgain ==
    ASSUME IInv, [Next \/ Undefined]_vars, NEW t \in Readers, Reads(t), reloads = 0
    PROVE  Head(stack'[t]).cb \notin Head(stack[t]).called
<1> DEFINE f == stack[t][1]
<1>1. /\ Head(stack[t]) = f /\ f \in Frames /\ Good(f) /\ f.cb = None
      /\ f.name \in Names /\ f.i \in 1..Len(index[f.name])
      /\ Head(stack'[t]).cb = index[f.name][f.i]
  BY ReadsFromIndex
<1> HIDE DEF f
<1>2. ~(f.i < f.i)
  BY <1>1 DEF Frames
<1>3. index[f.name][f.i] \notin f.called
  BY <1>1, <1>2 DEF Good, CalledBehind
<1> QED
  BY <1>1, <1>3

\* Only the dlclose of another thread takes away the code of a callback that
\* was read and not called yet.
LEMMA TakenByOthers ==
    ASSUME IInv, [Next \/ Undefined]_vars, NEW t \in Readers, Fetched(t),
           NEW p \in mapped \ mapped'
    PROVE  \E u \in Threads \ {t} : Removes(u, p)
<1>1. job[t] = Idle
  BY FetchedRuns DEF Fetched
<1>2. mapped' # mapped /\ p \in mapped /\ p \notin mapped'
  OBVIOUS
<1>3. ~Undefined /\ ~(UNCHANGED vars)
  BY <1>2 DEF Undefined, vars, tables
<1>4. ~LoaderStep /\ \A q \in Plugins : ~LoadNewPlugin(q)
<2>1. ~LoadPlugin
  BY <1>2 DEF LoadPlugin
<2> QED
  BY <1>2, <1>3, <2>1 DEF LoaderStep, LoaderClashes, RegisterCallback, IndexCallback,
                          AppendPlugin, UnloadItself, LoadNewPlugin, tables
<1>5. ASSUME NEW u \in Readers, DispatchStep(u) \/ \E n \in Names : RaiseRoot(u, n)
      PROVE  FALSE
  BY <1>2, <1>3, <1>5 DEF RaiseRoot, DispatchStep, RaiseNested, ReadCallback, CallCallback,
       ReturnToNowhere, ReturnOk, ReturnBreak, ReturnStop, ReturnFail, FinishDispatch, tables
<1>6. PICK u \in Threads : RemoveStep(u)
  BY <1>3, <1>4, <1>5 DEF Next
<1>7. Unload(u)
  BY <1>2, <1>6 DEF RemoveStep, FreeRecord, RemoveIndex, InstallList, tables
<1>8. Removes(u, p) /\ job[u] # Idle
  BY <1>2, <1>7, JobFields DEF Unload, Removes
<1> QED
  BY <1>1, <1>8

\* What execute_callbacks reads for a call is code in memory, whatever the
\* other threads load and remove; between the read and the jump only the
\* dlclose of another thread can take it away, which nothing prevents.
THEOREM ReadsOnlyLoadedCode == SpecAutoload => ReadsLoadedCode
<1>1. AInv /\ [NextAutoload]_allVars
         => [\A t \in Readers :
                /\ Reads(t) => Owner[Head(stack'[t]).cb] \in mapped
                /\ Fetched(t) /\ Owner[Head(stack[t]).cb] \in mapped \ mapped'
                      => \E u \in Threads \ {t} :
                            Removes(u, Owner[Head(stack[t]).cb])]_vars
<2> SUFFICES ASSUME AInv, [NextAutoload]_allVars, NEW t \in Readers
             PROVE  /\ Reads(t) => Owner[Head(stack'[t]).cb] \in mapped
                    /\ Fetched(t) /\ Owner[Head(stack[t]).cb] \in mapped \ mapped'
                          => \E u \in Threads \ {t} :
                                Removes(u, Owner[Head(stack[t]).cb])
  OBVIOUS
<2>1. IInv /\ [Next \/ Undefined]_vars
  BY TableSteps DEF AInv
<2>2. ASSUME Reads(t) PROVE Owner[Head(stack'[t]).cb] \in mapped
  BY <2>1, <2>2, Loaded
<2>3. ASSUME Fetched(t), NEW p \in mapped \ mapped'
      PROVE  \E u \in Threads \ {t} : Removes(u, p)
  BY <2>1, <2>3, TakenByOthers
<2> QED
  BY <2>2, <2>3
<1> QED
  BY <1>1, AutoloadInvariance, PTL DEF SpecAutoload, ReadsLoadedCode

\* Until a plugin is reloaded no dispatch reads a callback for a call twice, although
\* remove_plugin takes callbacks out of the array it walks through.
THEOREM CallsOnce == SpecAutoload => NoCallTwice
<1>1. AInv /\ [NextAutoload]_allVars
         => [\A t \in Readers :
                Reads(t) /\ reloads = 0
                    => Head(stack'[t]).cb \notin Head(stack[t]).called]_vars
<2> SUFFICES ASSUME AInv, [NextAutoload]_allVars, NEW t \in Readers, Reads(t), reloads = 0
             PROVE  Head(stack'[t]).cb \notin Head(stack[t]).called
  OBVIOUS
<2> QED
  BY TableSteps, NotAgain DEF AInv
<1> QED
  BY <1>1, AutoloadInvariance, PTL DEF SpecAutoload, NoCallTwice
=============================================================================
