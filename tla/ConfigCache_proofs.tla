------------------------- MODULE ConfigCache_proofs -------------------------
(***************************************************************************)
(* Theorems about ConfigCache, for every number of goroutines, every set   *)
(* of files and of contents.                                               *)
(***************************************************************************)
EXTENDS ConfigCache, SequenceTheorems, FiniteSetTheorems, TLAPS

Element == [once : {"new", "running", "done"}, answer : Answer]

(* What may be answered for a place.                                       *)
Good(s, answer) ==
  /\ answer.conf = None => answer.err
  /\ s # Bytes => (answer.conf = None <=> answer.err)

Has(s) == ElementOf(s) # NotCached
Done(s) == Has(s) /\ elements[ElementOf(s)].once = "done"

InMutex(c) == pc[c] \in {"lookup", "create", "unlock"}
InOnce(c) == pc[c] \in {"read", "parse", "finish"}

(* The mutex: who is inside holds it, and what Lookup has seen of the      *)
(* cache stays true until Create and Unlock use it.                        *)
MutexInv ==
  /\ \A c \in Caller : InMutex(c) <=> mu = c
  /\ \A c \in Caller : InMutex(c) \/ At(c, "lock") => place[c] \in File
  /\ \A c \in Caller : At(c, "create") => cache[place[c]] = NotCached
  /\ \A c \in Caller : At(c, "unlock") => cache[place[c]] # NotCached

(* The map: no two files share an element, and a caller that has left the  *)
(* mutex, or never went there, holds the element of its place.             *)
MapInv ==
  /\ \A f, g \in File : cache[f] = cache[g] /\ cache[f] # NotCached => f = g
  /\ \A c \in Caller : InOnce(c) \/ At(c, "once") =>
       element[c] = ElementOf(place[c]) /\ Has(place[c])

(* The once of an element: the one caller that is inside its function has  *)
(* it running.                                                             *)
OnceInv ==
  /\ \A c \in Caller : InOnce(c) => elements[element[c]].once = "running"
  /\ \A c, d \in Caller : InOnce(c) /\ InOnce(d) /\ place[c] = place[d] => c = d

(* The answers: what a file or the bytes have been parsed to before the    *)
(* once is done, and what has been returned after it.                      *)
AnswerInv ==
  /\ \A c \in Caller : ~At(c, "idle") /\ place[c] = Bytes => configBytes # None
  /\ \A c \in Caller : At(c, "parse") /\ place[c] = Bytes => contents[c] \in Content
  /\ \A c \in Caller : At(c, "finish") => Good(place[c], elements[element[c]].answer)
  /\ \A s \in Place : Done(s) => Good(s, elements[ElementOf(s)].answer)
  /\ \A r \in returned : Done(r[1]) /\ r[2] = elements[ElementOf(r[1])].answer

IInv == TypeOK /\ BytesElement \in DOMAIN elements /\ MutexInv /\ MapInv /\ OnceInv /\ AnswerInv

-----------------------------------------------------------------------------
(* The sequence of elements after one of them is changed, and after one is *)
(* added.                                                                  *)
LEMMA ChangeElement ==
  ASSUME NEW els \in Seq(Element), NEW i \in DOMAIN els, NEW e \in Element
  PROVE  LET new == [els EXCEPT ![i] = e]
         IN  /\ new \in Seq(Element)
             /\ Len(new) = Len(els) /\ DOMAIN new = DOMAIN els
             /\ new[i] = e
             /\ \A j \in DOMAIN els : j # i => new[j] = els[j]
<1>1. DOMAIN els = 1 .. Len(els)
  OBVIOUS
<1> QED
  BY <1>1, ExceptSeq

LEMMA AddElement ==
  ASSUME NEW els \in Seq(Element)
  PROVE  LET new == Append(els, NewElement)
         IN  /\ new \in Seq(Element)
             /\ Len(els) \in Nat /\ Len(new) = Len(els) + 1
             /\ DOMAIN els = 1 .. Len(els) /\ DOMAIN new = 1 .. Len(new)
             /\ new[Len(els) + 1] = NewElement
             /\ \A j \in DOMAIN els : new[j] = els[j]
<1>1. NewElement \in Element
  BY DEF NewElement, Element, NoAnswer, Answer
<1>2. DOMAIN els = 1 .. Len(els) /\ Len(els) \in Nat
  OBVIOUS
<1>3. Append(els, NewElement) \in Seq(Element)
  BY <1>1, AppendProperties
<1>4. DOMAIN Append(els, NewElement) = 1 .. Len(Append(els, NewElement))
  BY <1>3
<1> QED
  BY <1>1, <1>2, <1>3, <1>4, AppendProperties

(* Parsing gives a good answer, of the right type.                         *)
LEMMA ParsedIsGood ==
  /\ \A f \in File, c \in Content \cup {Missing} :
       FileAnswer(c) \in Answer /\ Good(f, FileAnswer(c))
  /\ \A c \in Content : BytesAnswer(c) \in Answer /\ Good(Bytes, BytesAnswer(c))
BY ConfigAssumption DEF FileAnswer, BytesAnswer, Answer, Good

(* No good answer is the answer of an element that has not been parsed.    *)
LEMMA GoodIsSet == \A s, a : Good(s, a) => a # NoAnswer
BY DEF Good, NoAnswer

(* The invariant holds at first.                                           *)
LEMMA InitIInv == Init => IInv
<1> SUFFICES ASSUME Init
             PROVE  IInv
  OBVIOUS
<1>1. NewElement \in Element
  BY DEF NewElement, Element, NoAnswer, Answer
<1>2. /\ elements \in Seq(Element) /\ Len(elements) = 1 /\ DOMAIN elements = {1}
      /\ elements[1] = NewElement
  BY <1>1 DEF Init
<1>3. TypeOK
  <2>1. cache \in [File -> {NotCached} \cup 2..Len(elements)]
    BY <1>2 DEF Init
  <2> QED
    BY <1>2, <2>1 DEF Init, TypeOK, Labels, Place, Element
<1>4. MutexInv
  BY ConfigAssumption DEF Init, MutexInv, InMutex, At
<1>5. MapInv /\ OnceInv
  BY DEF Init, MapInv, OnceInv, InOnce, At
<1>6. AnswerInv
  <2>1. \A s \in Place : ~Done(s)
    BY <1>2 DEF Init, Done, Has, ElementOf, Place, BytesElement, NewElement
  <2> QED
    BY <2>1 DEF Init, AnswerInv, At
<1> QED
  BY <1>2, <1>3, <1>4, <1>5, <1>6 DEF IInv, BytesElement

-----------------------------------------------------------------------------
(* The environment changes nothing that a running call relies on but the   *)
(* file, and SetBytes runs when no call does.                              *)
LEMMA EnvironmentIInv ==
  ASSUME IInv, Environment
  PROVE  IInv'
<1>1. /\ UNCHANGED <<mu, cache, elements, callVars, returned>>
      /\ disk' \in [File -> Content \cup {Missing}]
      /\ configFile' \in File
      /\ configBytes' \in Content \cup {None}
      /\ Quiet \/ configBytes' = configBytes
  <2>1. ASSUME NEW f \in File, NEW content \in Content \cup {Missing}, EditFile(f, content)
        PROVE  disk' \in [File -> Content \cup {Missing}]
    BY <2>1 DEF EditFile, IInv, TypeOK
  <2> QED
    BY <2>1 DEF Environment, EditFile, SetFlag, SetBytes, IInv, TypeOK
<1>2. TypeOK'
  BY <1>1 DEF IInv, TypeOK, callVars
<1>3. MutexInv' /\ MapInv' /\ OnceInv'
  BY <1>1 DEF IInv, MutexInv, MapInv, OnceInv, InMutex, InOnce, At, Has, ElementOf, callVars
<1>4. AnswerInv'
  <2>1. \A c \in Caller : (~At(c, "idle") /\ place[c] = Bytes => configBytes # None)'
    BY <1>1 DEF IInv, AnswerInv, At, Quiet, callVars
  <2> QED
    BY <1>1, <2>1 DEF IInv, AnswerInv, At, Done, Has, ElementOf, callVars
<1> QED
  BY <1>1, <1>2, <1>3, <1>4 DEF IInv

(* The steps that leave the cache, the elements and the answers alone: a   *)
(* call begins, takes the mutex, looks its file up or reads it.            *)
LEMMA ReadConfigIInv ==
  ASSUME IInv, NEW c \in Caller, ReadConfig(c)
  PROVE  IInv'
<1>1. /\ pc[c] = "idle"
      /\ UNCHANGED <<sharedVars, contents, returned>>
      /\ \/ /\ configBytes # None
            /\ place' = [place EXCEPT ![c] = Bytes]
            /\ element' = [element EXCEPT ![c] = BytesElement]
            /\ pc' = [pc EXCEPT ![c] = "once"]
         \/ /\ place' = [place EXCEPT ![c] = configFile]
            /\ element' = element
            /\ pc' = [pc EXCEPT ![c] = "lock"]
  BY DEF ReadConfig, At, Goto
<1>2. configFile \in File /\ Bytes \notin File
  BY ConfigAssumption DEF IInv, TypeOK
<1>3. TypeOK'
  BY <1>1, <1>2 DEF IInv, TypeOK, Labels, Place, sharedVars
<1>4. MutexInv'
  BY <1>1, <1>2, SMTT(30) DEF IInv, MutexInv, TypeOK, InMutex, At, sharedVars
<1>5. MapInv'
  <2>1. UNCHANGED <<cache, elements>> /\ IInv
    BY <1>1 DEF sharedVars
  <2>2. ASSUME NEW d \in Caller, (InOnce(d) \/ At(d, "once"))'
        PROVE  (element[d] = ElementOf(place[d]) /\ Has(place[d]))'
    <3>1. CASE d = c
      BY <1>1, <2>1, <2>2, <3>1
         DEF IInv, TypeOK, InOnce, At, Has, ElementOf, NotCached, BytesElement
    <3>2. CASE d # c
      BY <1>1, <2>1, <2>2, <3>2 DEF IInv, TypeOK, MapInv, InOnce, At, Has, ElementOf
    <3> QED
      BY <3>1, <3>2
  <2> QED
    BY <2>1, <2>2 DEF IInv, MapInv
<1>6. OnceInv'
  BY <1>1, <1>2 DEF IInv, OnceInv, TypeOK, InOnce, sharedVars
<1>7. AnswerInv'
  BY <1>1, <1>2 DEF IInv, AnswerInv, TypeOK, At, Done, Has, ElementOf, sharedVars
<1> QED
  BY <1>1, <1>3, <1>4, <1>5, <1>6, <1>7 DEF IInv, sharedVars

LEMMA LockIInv ==
  ASSUME IInv, NEW c \in Caller, Lock(c)
  PROVE  IInv'
<1>1. /\ pc[c] = "lock" /\ mu = None /\ mu' = c
      /\ pc' = [pc EXCEPT ![c] = "lookup"]
      /\ UNCHANGED <<disk, configFile, configBytes, cache, elements, place, element, contents, returned>>
  BY DEF Lock, At, Goto
<1>2. TypeOK'
  BY <1>1 DEF IInv, TypeOK, Labels
<1>3. MutexInv'
  BY <1>1, ConfigAssumption DEF IInv, MutexInv, TypeOK, InMutex, At
<1>4. MapInv' /\ OnceInv'
  BY <1>1 DEF IInv, MapInv, OnceInv, TypeOK, InOnce, At, Has, ElementOf
<1>5. AnswerInv'
  BY <1>1 DEF IInv, AnswerInv, TypeOK, At, Done, Has, ElementOf
<1> QED
  BY <1>1, <1>2, <1>3, <1>4, <1>5 DEF IInv

LEMMA LookupIInv ==
  ASSUME IInv, NEW c \in Caller, Lookup(c)
  PROVE  IInv'
<1>1. /\ pc[c] = "lookup"
      /\ pc' = [pc EXCEPT ![c] = IF cache[place[c]] = NotCached THEN "create" ELSE "unlock"]
      /\ UNCHANGED <<sharedVars, place, element, contents, returned>>
  BY DEF Lookup, At, Goto
<1>2. TypeOK'
  BY <1>1 DEF IInv, TypeOK, Labels, sharedVars
<1>3. MutexInv'
  BY <1>1 DEF IInv, MutexInv, TypeOK, InMutex, At, sharedVars
<1>4. MapInv' /\ OnceInv'
  BY <1>1 DEF IInv, MapInv, OnceInv, TypeOK, InOnce, At, Has, ElementOf, sharedVars
<1>5. AnswerInv'
  BY <1>1 DEF IInv, AnswerInv, TypeOK, At, Done, Has, ElementOf, sharedVars
<1> QED
  BY <1>1, <1>2, <1>3, <1>4, <1>5 DEF IInv, sharedVars

LEMMA ReadContentsIInv ==
  ASSUME IInv, NEW c \in Caller, ReadContents(c)
  PROVE  IInv'
<1>1. /\ pc[c] = "read"
      /\ pc' = [pc EXCEPT ![c] = "parse"]
      /\ contents' = [contents EXCEPT ![c] = IF place[c] = Bytes THEN configBytes ELSE disk[place[c]]]
      /\ UNCHANGED <<sharedVars, place, element, returned>>
  BY DEF ReadContents, At, Goto
<1>2. (IF place[c] = Bytes THEN configBytes ELSE disk[place[c]]) \in Content \cup {Missing}
  BY <1>1 DEF IInv, TypeOK, AnswerInv, At, Place
<1>3. TypeOK'
  BY <1>1, <1>2 DEF IInv, TypeOK, Labels, sharedVars
<1>4. MutexInv'
  BY <1>1 DEF IInv, MutexInv, TypeOK, InMutex, At, sharedVars
<1>5. MapInv' /\ OnceInv'
  BY <1>1 DEF IInv, MapInv, OnceInv, TypeOK, InOnce, At, Has, ElementOf, sharedVars
<1>6. AnswerInv'
  BY <1>1 DEF IInv, AnswerInv, TypeOK, At, Done, Has, ElementOf, sharedVars
<1> QED
  BY <1>1, <1>3, <1>4, <1>5, <1>6 DEF IInv, sharedVars

-----------------------------------------------------------------------------
(* Create adds an element and puts it in the map under a file that had     *)
(* none: the mutex has kept all others away since Lookup.                  *)
LEMMA CreateIInv ==
  ASSUME IInv, NEW c \in Caller, Create(c)
  PROVE  IInv'
<1> DEFINE f == place[c]
           n == Len(elements) + 1
<1>1. /\ pc[c] = "create"
      /\ elements' = Append(elements, NewElement)
      /\ cache' = [cache EXCEPT ![f] = n]
      /\ pc' = [pc EXCEPT ![c] = "unlock"]
      /\ UNCHANGED <<disk, configFile, configBytes, mu, place, element, contents, returned>>
  BY DEF Create, At, Goto
<1>2. f \in File /\ f # Bytes /\ cache[f] = NotCached
  BY <1>1, ConfigAssumption DEF IInv, MutexInv, InMutex, At
<1>3. /\ elements \in Seq(Element) /\ elements' \in Seq(Element)
      /\ Len(elements) \in Nat /\ Len(elements') = n
      /\ DOMAIN elements = 1 .. Len(elements) /\ DOMAIN elements' = 1 .. n
      /\ elements'[n] = NewElement
      /\ \A j \in DOMAIN elements : elements'[j] = elements[j]
      /\ BytesElement \in DOMAIN elements /\ BytesElement \in DOMAIN elements'
      /\ n # NotCached
      /\ 1 <= Len(elements)
  <2>1. elements \in Seq(Element) /\ BytesElement \in DOMAIN elements
    BY DEF IInv, TypeOK, Element
  <2>2. LET new == Append(elements, NewElement)
        IN  /\ new \in Seq(Element)
            /\ Len(elements) \in Nat /\ Len(new) = Len(elements) + 1
            /\ DOMAIN elements = 1 .. Len(elements) /\ DOMAIN new = 1 .. Len(new)
            /\ new[Len(elements) + 1] = NewElement
            /\ \A j \in DOMAIN elements : new[j] = elements[j]
    BY <2>1, AddElement
  <2> QED
    BY <1>1, <2>1, <2>2 DEF BytesElement, NotCached
<1>4. /\ cache \in [File -> {NotCached} \cup 2 .. Len(elements)]
      /\ cache' \in [File -> {NotCached} \cup 2 .. Len(elements')]
      /\ cache'[f] = n
      /\ \A g \in File : g # f => cache'[g] = cache[g]
      /\ \A g \in File : cache[g] # n
  BY <1>1, <1>2, <1>3 DEF IInv, TypeOK, NotCached
<1> HIDE DEF f, n
<1>5. TypeOK'
  <2>1. pc' \in [Caller -> Labels]
    BY <1>1 DEF IInv, TypeOK, Labels
  <2>2. element' \in [Caller -> {NotCached} \cup DOMAIN elements']
    BY <1>1, <1>3 DEF IInv, TypeOK
  <2> QED
    BY <1>1, <1>3, <1>4, <2>1, <2>2 DEF IInv, TypeOK, Element
<1>6. MutexInv'
  <2>1. pc \in [Caller -> Labels] /\ MutexInv
    BY DEF IInv, TypeOK
  <2>2. ASSUME NEW d \in Caller, d # c
        PROVE  ~InMutex(d)
    BY <1>1, <2>1, <2>2 DEF MutexInv, InMutex, At
  <2>3. cache'[place[c]] # NotCached
    BY <1>3, <1>4 DEF f
  <2> QED
    BY <1>1, <2>1, <2>2, <2>3 DEF MutexInv, InMutex, At
<1>7. \A s \in Place : Has(s) => ElementOf(s)' = ElementOf(s) /\ Has(s)'
                                /\ elements'[ElementOf(s)] = elements[ElementOf(s)]
                                /\ ElementOf(s) \in DOMAIN elements
  BY <1>2, <1>3, <1>4 DEF Place, Has, ElementOf
<1>8. MapInv'
  <2>1. \A d \in Caller : (InOnce(d) \/ At(d, "once"))' => InOnce(d) \/ At(d, "once")
    BY <1>1 DEF IInv, TypeOK, InOnce, At
  <2>2. \A g, h \in File : cache'[g] = cache'[h] /\ cache'[g] # NotCached => g = h
    BY <1>2, <1>4 DEF IInv, MapInv
  <2>3. \A d \in Caller : place[d] \in Place
    BY DEF IInv, TypeOK
  <2> QED
    BY <1>1, <1>7, <2>1, <2>2, <2>3 DEF IInv, MapInv
<1>9. OnceInv'
  <2>1. \A d \in Caller : InOnce(d)' => InOnce(d)
    BY <1>1 DEF IInv, TypeOK, InOnce
  <2>2. \A d \in Caller : InOnce(d) => elements'[element[d]] = elements[element[d]]
    BY <1>7 DEF IInv, TypeOK, MapInv
  <2> QED
    BY <1>1, <2>1, <2>2 DEF IInv, OnceInv
<1>10. AnswerInv'
  <2>1. /\ \A d \in Caller : (~At(d, "idle"))' => ~At(d, "idle")
        /\ \A d \in Caller : At(d, "parse")' => At(d, "parse")
        /\ \A d \in Caller : At(d, "finish")' => At(d, "finish") /\ InOnce(d)
    BY <1>1 DEF IInv, TypeOK, At, InOnce
  <2>2. \A d \in Caller : InOnce(d) => elements'[element[d]] = elements[element[d]]
    BY <1>7 DEF IInv, TypeOK, MapInv
  <2>3. \A s \in Place : Done(s)' => Done(s)
    <3> SUFFICES ASSUME NEW s \in Place, Done(s)', ~Has(s)
                 PROVE  FALSE
      BY <1>7 DEF Done
    <3>1. s = f
      BY <1>4 DEF Done, Has, ElementOf, Place, BytesElement, NotCached
    <3>2. ElementOf(s)' = n
      BY <1>2, <1>4, <3>1 DEF ElementOf
    <3> QED
      BY <1>3, <3>2 DEF Done, NewElement
  <2>4. \A s \in Place : Done(s) => Done(s)' /\ elements'[ElementOf(s)'] = elements[ElementOf(s)]
    BY <1>7 DEF Done
  <2>5. \A r \in returned : r[1] \in Place
    BY DEF IInv, TypeOK
  <2> QED
    BY <1>1, <2>1, <2>2, <2>3, <2>4, <2>5 DEF IInv, AnswerInv
<1> QED
  BY <1>3, <1>5, <1>6, <1>8, <1>9, <1>10 DEF IInv

(* Unlock takes the element that is in the map.                            *)
LEMMA UnlockIInv ==
  ASSUME IInv, NEW c \in Caller, Unlock(c)
  PROVE  IInv'
<1>1. /\ pc[c] = "unlock"
      /\ element' = [element EXCEPT ![c] = cache[place[c]]]
      /\ mu' = None
      /\ pc' = [pc EXCEPT ![c] = "once"]
      /\ UNCHANGED <<disk, configFile, configBytes, cache, elements, place, contents, returned>>
  BY DEF Unlock, At, Goto
<1>2. /\ place[c] \in File /\ place[c] # Bytes
      /\ cache[place[c]] # NotCached /\ cache[place[c]] \in DOMAIN elements
  <2>1. place[c] \in File /\ cache[place[c]] # NotCached
    BY <1>1 DEF IInv, MutexInv, InMutex, At
  <2>2. cache[place[c]] \in 2 .. Len(elements)
    BY <2>1 DEF IInv, TypeOK
  <2>3. DOMAIN elements = 1 .. Len(elements) /\ Len(elements) \in Nat
    BY DEF IInv, TypeOK
  <2> QED
    BY <2>1, <2>2, <2>3, ConfigAssumption
<1>3. TypeOK'
  BY <1>1, <1>2 DEF IInv, TypeOK, Labels
<1>4. MutexInv'
  BY <1>1, ConfigAssumption DEF IInv, MutexInv, TypeOK, InMutex, At
<1>5. MapInv'
  BY <1>1, <1>2 DEF IInv, MapInv, TypeOK, InOnce, At, Has, ElementOf
<1>6. OnceInv'
  BY <1>1 DEF IInv, OnceInv, TypeOK, InOnce
<1>7. AnswerInv'
  BY <1>1 DEF IInv, AnswerInv, TypeOK, At, Done, Has, ElementOf
<1> QED
  BY <1>1, <1>3, <1>4, <1>5, <1>6, <1>7 DEF IInv

-----------------------------------------------------------------------------
(* No two places have one element.                                         *)
LEMMA ElementsApart ==
  ASSUME IInv
  PROVE  /\ \A s \in Place : Has(s) => ElementOf(s) \in DOMAIN elements
         /\ \A s, t \in Place : Has(s) /\ ElementOf(s) = ElementOf(t) => s = t
<1>1. /\ cache \in [File -> {NotCached} \cup 2 .. Len(elements)]
      /\ DOMAIN elements = 1 .. Len(elements) /\ Len(elements) \in Nat
      /\ BytesElement \in DOMAIN elements
  BY DEF IInv, TypeOK
<1>2. \A f \in File : Has(f) => ElementOf(f) \in 2 .. Len(elements)
  BY <1>1, ConfigAssumption DEF Has, ElementOf
<1>3. Has(Bytes) /\ ElementOf(Bytes) = 1
  BY DEF Has, ElementOf, BytesElement, NotCached
<1>4. \A f, g \in File : Has(f) /\ ElementOf(f) = ElementOf(g) => f = g
  BY ConfigAssumption DEF IInv, MapInv, Has, ElementOf
<1>5. \A s \in Place : Has(s) => ElementOf(s) \in DOMAIN elements
  BY <1>1, <1>2, <1>3 DEF Place, BytesElement
<1>6. ASSUME NEW s \in Place, NEW t \in Place, Has(s), ElementOf(s) = ElementOf(t)
      PROVE  s = t
  <2>1. Has(t)
    BY <1>6 DEF Has
  <2> QED
    BY <1>2, <1>3, <1>4, <1>6, <2>1 DEF Place
<1> QED
  BY <1>5, <1>6

(* The steps of a once change one element, that of the caller's place, and *)
(* no other.                                                               *)
LEMMA OnceStep ==
  ASSUME IInv, NEW c \in Caller, InOnce(c) \/ At(c, "once"), NEW e \in Element,
         elements' = [elements EXCEPT ![element[c]] = e],
         NEW label \in Labels, pc' = [pc EXCEPT ![c] = label],
         label \in {"once", "read", "finish"},
         UNCHANGED <<disk, configFile, configBytes, mu, cache, place, element, contents, returned>>
  PROVE  /\ TypeOK' /\ BytesElement \in DOMAIN elements' /\ MutexInv' /\ MapInv'
         /\ ElementOf(place[c]) = element[c]
         /\ elements'[element[c]] = e
         /\ \A s \in Place : ElementOf(s)' = ElementOf(s) /\ Has(s)' = Has(s)
         /\ \A s \in Place : s # place[c] /\ Has(s) => elements'[ElementOf(s)] = elements[ElementOf(s)]
         /\ \A d \in Caller : d # c => pc'[d] = pc[d]
         /\ \A d \in Caller : InOnce(d) => ElementOf(place[d]) = element[d] /\ Has(place[d])
<1>1. /\ elements \in Seq(Element) /\ place[c] \in Place
      /\ element[c] = ElementOf(place[c]) /\ Has(place[c])
      /\ element[c] \in DOMAIN elements
  <2>1. element[c] = ElementOf(place[c]) /\ Has(place[c]) /\ place[c] \in Place
    BY DEF IInv, MapInv, TypeOK
  <2> QED
    BY <2>1, ElementsApart DEF IInv, TypeOK, Element
<1>2. /\ elements' \in Seq(Element) /\ Len(elements') = Len(elements)
      /\ DOMAIN elements' = DOMAIN elements
      /\ elements'[element[c]] = e
      /\ \A j \in DOMAIN elements : j # element[c] => elements'[j] = elements[j]
  BY <1>1, ChangeElement
<1>3. \A s \in Place : ElementOf(s)' = ElementOf(s) /\ Has(s)' = Has(s)
  BY DEF ElementOf, Has
<1>4. \A s \in Place : s # place[c] /\ Has(s) => elements'[ElementOf(s)] = elements[ElementOf(s)]
  BY <1>1, <1>2, ElementsApart
<1>5. pc \in [Caller -> Labels] /\ pc' \in [Caller -> Labels]
  BY DEF IInv, TypeOK
<1>6. TypeOK'
  BY <1>2, <1>5 DEF IInv, TypeOK, Element
<1>7. MutexInv'
  BY <1>5 DEF IInv, MutexInv, InOnce, InMutex, At
<1>8. MapInv'
  <2>1. \A d \in Caller : (InOnce(d) \/ At(d, "once"))' => InOnce(d) \/ At(d, "once")
    BY <1>5 DEF InOnce, At
  <2>2. \A d \in Caller : place[d] \in Place
    BY DEF IInv, TypeOK
  <2> QED
    BY <1>3, <2>1, <2>2 DEF IInv, MapInv
<1> QED
  BY <1>1, <1>2, <1>3, <1>4, <1>5, <1>6, <1>7, <1>8 DEF IInv, MapInv

(* Begin: the first caller to come to an element takes its once.           *)
LEMMA BeginIInv ==
  ASSUME IInv, NEW c \in Caller, Begin(c)
  PROVE  IInv'
<1> DEFINE e == [elements[element[c]] EXCEPT !.once = "running"]
<1>1. /\ pc[c] = "once" /\ elements[element[c]].once = "new"
      /\ elements' = [elements EXCEPT ![element[c]] = e]
      /\ pc' = [pc EXCEPT ![c] = "read"]
      /\ UNCHANGED <<disk, configFile, configBytes, mu, cache, place, element, contents, returned>>
  BY DEF Begin, At, Goto, Once
<1>2. element[c] \in DOMAIN elements /\ elements \in Seq(Element)
      /\ element[c] = ElementOf(place[c]) /\ Has(place[c]) /\ place[c] \in Place
  BY <1>1, ElementsApart DEF IInv, MapInv, TypeOK, At, Element
<1>3. elements[element[c]] \in Element
  BY <1>2
<1>4. e \in Element /\ e.once = "running"
  BY <1>3 DEF Element
<1>5. pc \in [Caller -> Labels] /\ "read" \in Labels
  BY DEF IInv, TypeOK, Labels
<1> HIDE DEF e
<1>6. /\ TypeOK' /\ BytesElement \in DOMAIN elements' /\ MutexInv' /\ MapInv'
      /\ elements'[element[c]] = e
      /\ \A s \in Place : ElementOf(s)' = ElementOf(s) /\ Has(s)' = Has(s)
      /\ \A s \in Place : s # place[c] /\ Has(s) => elements'[ElementOf(s)] = elements[ElementOf(s)]
      /\ \A d \in Caller : d # c => pc'[d] = pc[d]
      /\ \A d \in Caller : InOnce(d) => ElementOf(place[d]) = element[d] /\ Has(place[d])
  BY <1>1, <1>4, <1>5, OnceStep DEF At
<1>7. \A d \in Caller : place[d] \in Place
  BY DEF IInv, TypeOK
<1>8. \A d \in Caller : InOnce(d) => place[d] # place[c]
  BY <1>1, <1>2, <1>6 DEF IInv, OnceInv
<1>9. \A d \in Caller : InOnce(d)' <=> InOnce(d) \/ d = c
  BY <1>1, <1>5 DEF InOnce
<1>10. OnceInv'
  BY <1>1, <1>4, <1>6, <1>7, <1>8, <1>9 DEF IInv, OnceInv
<1>11. \A s \in Place : Done(s)' => Done(s) /\ s # place[c]
  BY <1>2, <1>4, <1>6 DEF Done
<1>12. \A s \in Place : Done(s) => s # place[c] /\ Done(s)'
                                  /\ elements'[ElementOf(s)'] = elements[ElementOf(s)]
  BY <1>1, <1>2, <1>6 DEF Done
<1>13. AnswerInv'
  <2>1. /\ \A d \in Caller : (~At(d, "idle"))' => ~At(d, "idle")
        /\ \A d \in Caller : At(d, "parse")' => At(d, "parse")
        /\ \A d \in Caller : At(d, "finish")' => At(d, "finish") /\ InOnce(d)
    BY <1>1, <1>5 DEF At, InOnce
  <2>2. \A d \in Caller : InOnce(d) => elements'[element[d]] = elements[element[d]]
    BY <1>6, <1>7, <1>8
  <2>3. \A r \in returned : r[1] \in Place
    BY DEF IInv, TypeOK
  <2> QED
    BY <1>1, <1>11, <1>12, <2>1, <2>2, <2>3 DEF IInv, AnswerInv
<1> QED
  BY <1>6, <1>10, <1>13 DEF IInv

(* Parse: a good answer goes into the element that is running.             *)
LEMMA ParseIInv ==
  ASSUME IInv, NEW c \in Caller, Parse(c)
  PROVE  IInv'
<1> DEFINE a == IF place[c] = Bytes THEN BytesAnswer(contents[c]) ELSE FileAnswer(contents[c])
           e == [elements[element[c]] EXCEPT !.answer = a]
<1>1. /\ pc[c] = "parse"
      /\ elements' = [elements EXCEPT ![element[c]] = e]
      /\ pc' = [pc EXCEPT ![c] = "finish"]
      /\ UNCHANGED <<disk, configFile, configBytes, mu, cache, place, element, contents, returned>>
  BY DEF Parse, At, Goto
<1>2. /\ element[c] \in DOMAIN elements /\ elements \in Seq(Element)
      /\ element[c] = ElementOf(place[c]) /\ Has(place[c]) /\ place[c] \in Place
      /\ elements[element[c]].once = "running"
  BY <1>1, ElementsApart DEF IInv, MapInv, OnceInv, TypeOK, InOnce, Element
<1>3. a \in Answer /\ Good(place[c], a)
  <2>1. CASE place[c] = Bytes
    BY <1>1, <2>1, ParsedIsGood DEF IInv, AnswerInv, At
  <2>2. CASE place[c] # Bytes
    BY <1>2, <2>2, ParsedIsGood DEF IInv, TypeOK, Place
  <2> QED
    BY <2>1, <2>2
<1> HIDE DEF a
<1>4. elements[element[c]] \in Element
  BY <1>2
<1>5. e \in Element /\ e.once = "running" /\ e.answer = a
  BY <1>2, <1>3, <1>4 DEF Element
<1>6. pc \in [Caller -> Labels] /\ "finish" \in Labels
  BY DEF IInv, TypeOK, Labels
<1> HIDE DEF e
<1>7. /\ TypeOK' /\ BytesElement \in DOMAIN elements' /\ MutexInv' /\ MapInv'
      /\ elements'[element[c]] = e
      /\ \A s \in Place : ElementOf(s)' = ElementOf(s) /\ Has(s)' = Has(s)
      /\ \A s \in Place : s # place[c] /\ Has(s) => elements'[ElementOf(s)] = elements[ElementOf(s)]
      /\ \A d \in Caller : d # c => pc'[d] = pc[d]
      /\ \A d \in Caller : InOnce(d) => ElementOf(place[d]) = element[d] /\ Has(place[d])
  BY <1>1, <1>5, <1>6, OnceStep DEF InOnce
<1>8. \A d \in Caller : place[d] \in Place
  BY DEF IInv, TypeOK
<1>9. InOnce(c) /\ \A d \in Caller : InOnce(d)' <=> InOnce(d)
  BY <1>1, <1>6 DEF InOnce
<1>10. \A d \in Caller : InOnce(d) /\ d # c => place[d] # place[c]
  BY <1>9 DEF IInv, OnceInv
<1>11. OnceInv'
  BY <1>1, <1>5, <1>7, <1>8, <1>9, <1>10 DEF IInv, OnceInv
<1>12. \A s \in Place : Done(s)' => Done(s) /\ s # place[c]
  BY <1>2, <1>5, <1>7 DEF Done
<1>13. \A s \in Place : Done(s) => s # place[c] /\ Done(s)'
                                  /\ elements'[ElementOf(s)'] = elements[ElementOf(s)]
  BY <1>1, <1>2, <1>7 DEF Done
<1>14. AnswerInv'
  <2>1. /\ \A d \in Caller : (~At(d, "idle"))' => ~At(d, "idle")
        /\ \A d \in Caller : At(d, "parse")' => At(d, "parse")
        /\ \A d \in Caller : At(d, "finish")' => d = c \/ (At(d, "finish") /\ InOnce(d) /\ d # c)
    BY <1>1, <1>6 DEF At, InOnce
  <2>2. \A d \in Caller : InOnce(d) /\ d # c => elements'[element[d]] = elements[element[d]]
    BY <1>7, <1>8, <1>10
  <2>3. \A r \in returned : r[1] \in Place
    BY DEF IInv, TypeOK
  <2>4. \A d \in Caller : At(d, "finish")' => Good(place[d], elements'[element[d]].answer)
    BY <1>3, <1>5, <1>7, <2>1, <2>2 DEF IInv, AnswerInv
  <2> QED
    BY <1>1, <1>12, <1>13, <2>1, <2>3, <2>4 DEF IInv, AnswerInv
<1> QED
  BY <1>7, <1>11, <1>14 DEF IInv

(* Finish: the element is done, with the answer it has.                    *)
LEMMA FinishIInv ==
  ASSUME IInv, NEW c \in Caller, Finish(c)
  PROVE  /\ IInv'
         /\ place[c] \in Place
         /\ \A s \in Place : s = place[c] =>
              /\ ~Done(s) /\ Done(s)'
              /\ Good(s, elements[ElementOf(s)].answer)
              /\ elements'[ElementOf(s)'].answer = elements[ElementOf(s)].answer
         /\ \A s \in Place : s # place[c] =>
              /\ Done(s)' <=> Done(s)
              /\ Done(s) => elements'[ElementOf(s)'] = elements[ElementOf(s)]
<1> DEFINE e == [elements[element[c]] EXCEPT !.once = "done"]
<1>1. /\ pc[c] = "finish"
      /\ elements' = [elements EXCEPT ![element[c]] = e]
      /\ pc' = [pc EXCEPT ![c] = "once"]
      /\ UNCHANGED <<disk, configFile, configBytes, mu, cache, place, element, contents, returned>>
  BY DEF Finish, At, Goto
<1>2. /\ element[c] \in DOMAIN elements /\ elements \in Seq(Element)
      /\ element[c] = ElementOf(place[c]) /\ Has(place[c]) /\ place[c] \in Place
      /\ elements[element[c]].once = "running"
  BY <1>1, ElementsApart DEF IInv, MapInv, OnceInv, TypeOK, InOnce, Element
<1>3. elements[element[c]] \in Element
  BY <1>2
<1>4. e \in Element /\ e.once = "done" /\ e.answer = elements[element[c]].answer
  BY <1>3 DEF Element
<1>5. pc \in [Caller -> Labels] /\ "once" \in Labels
  BY DEF IInv, TypeOK, Labels
<1> HIDE DEF e
<1>6. /\ TypeOK' /\ BytesElement \in DOMAIN elements' /\ MutexInv' /\ MapInv'
      /\ elements'[element[c]] = e
      /\ \A s \in Place : ElementOf(s)' = ElementOf(s) /\ Has(s)' = Has(s)
      /\ \A s \in Place : s # place[c] /\ Has(s) => elements'[ElementOf(s)] = elements[ElementOf(s)]
      /\ \A d \in Caller : d # c => pc'[d] = pc[d]
      /\ \A d \in Caller : InOnce(d) => ElementOf(place[d]) = element[d] /\ Has(place[d])
  BY <1>1, <1>4, <1>5, OnceStep DEF InOnce
<1>7. \A d \in Caller : place[d] \in Place
  BY DEF IInv, TypeOK
<1>8. InOnce(c) /\ \A d \in Caller : InOnce(d)' <=> InOnce(d) /\ d # c
  BY <1>1, <1>5 DEF InOnce
<1>9. \A d \in Caller : InOnce(d) /\ d # c => place[d] # place[c]
  BY <1>8 DEF IInv, OnceInv
<1>10. OnceInv'
  BY <1>1, <1>6, <1>7, <1>8, <1>9 DEF IInv, OnceInv
<1>11. Good(place[c], elements[element[c]].answer)
  BY <1>1 DEF IInv, AnswerInv, At
<1>12. \A s \in Place : s # place[c] =>
         /\ Done(s)' <=> Done(s)
         /\ Done(s) => elements'[ElementOf(s)'] = elements[ElementOf(s)]
  BY <1>6 DEF Done
<1>13. \A s \in Place : s = place[c] =>
         /\ ~Done(s) /\ Done(s)'
         /\ Good(s, elements[ElementOf(s)].answer)
         /\ elements'[ElementOf(s)'].answer = elements[ElementOf(s)].answer
  BY <1>1, <1>2, <1>4, <1>6, <1>11 DEF Done
<1>14. AnswerInv'
  <2>1. /\ \A d \in Caller : (~At(d, "idle"))' => ~At(d, "idle")
        /\ \A d \in Caller : At(d, "parse")' => At(d, "parse")
        /\ \A d \in Caller : At(d, "finish")' => At(d, "finish") /\ InOnce(d) /\ d # c
    BY <1>1, <1>5 DEF At, InOnce
  <2>2. \A d \in Caller : InOnce(d) /\ d # c => elements'[element[d]] = elements[element[d]]
    BY <1>6, <1>7, <1>9
  <2>3. \A r \in returned : r[1] \in Place /\ r[1] # place[c]
    BY <1>13 DEF IInv, TypeOK, AnswerInv
  <2>4. \A d \in Caller : At(d, "finish")' => Good(place[d], elements'[element[d]].answer)
    BY <2>1, <2>2 DEF IInv, AnswerInv
  <2>5. \A s \in Place : Done(s)' => Good(s, elements'[ElementOf(s)'].answer)
    <3> SUFFICES ASSUME NEW s \in Place, Done(s)'
                 PROVE  Good(s, elements'[ElementOf(s)'].answer)
      OBVIOUS
    <3>1. CASE s = place[c]
      BY <1>13, <3>1
    <3>2. CASE s # place[c]
      <4>1. Done(s) /\ elements'[ElementOf(s)'] = elements[ElementOf(s)]
        BY <1>12, <3>2
      <4>2. Good(s, elements[ElementOf(s)].answer)
        BY <4>1 DEF IInv, AnswerInv
      <4> QED
        BY <4>1, <4>2
    <3> QED
      BY <3>1, <3>2
  <2>6. \A r \in returned : Done(r[1])' /\ r[2] = elements'[ElementOf(r[1])'].answer
    BY <1>12, <2>3 DEF IInv, AnswerInv
  <2> QED
    BY <1>1, <2>1, <2>4, <2>5, <2>6 DEF IInv, AnswerInv
<1> QED
  BY <1>2, <1>6, <1>10, <1>11, <1>12, <1>13, <1>14 DEF IInv

(* Return hands out the answer of an element that is done.                 *)
LEMMA ReturnIInv ==
  ASSUME IInv, NEW c \in Caller, Return(c)
  PROVE  /\ IInv'
         /\ place[c] \in Place /\ Done(place[c])
         /\ Good(place[c], elements[ElementOf(place[c])].answer)
         /\ returned' = returned \cup {<<place[c], elements[ElementOf(place[c])].answer>>}
<1> DEFINE r0 == <<place[c], elements[element[c]].answer>>
<1>1. /\ pc[c] = "once" /\ elements[element[c]].once = "done"
      /\ returned' = returned \cup {r0}
      /\ pc' = [pc EXCEPT ![c] = "idle"]
      /\ UNCHANGED <<sharedVars, place, element, contents>>
  BY DEF Return, At, Goto, Once
<1>2. /\ element[c] \in DOMAIN elements /\ elements \in Seq(Element)
      /\ element[c] = ElementOf(place[c]) /\ Has(place[c]) /\ place[c] \in Place
  BY <1>1, ElementsApart DEF IInv, MapInv, TypeOK, At, Element
<1>3. Done(place[c]) /\ Good(place[c], elements[element[c]].answer)
  BY <1>1, <1>2 DEF Done, IInv, AnswerInv
<1>4. elements[element[c]] \in Element
  BY <1>2
<1>5. elements[element[c]].answer \in Answer
  BY <1>4 DEF Element
<1>6. TypeOK'
  BY <1>1, <1>2, <1>5 DEF IInv, TypeOK, Labels, sharedVars
<1>7. MutexInv'
  BY <1>1 DEF IInv, MutexInv, TypeOK, InMutex, At, sharedVars
<1>8. MapInv' /\ OnceInv'
  BY <1>1 DEF IInv, MapInv, OnceInv, TypeOK, InOnce, At, Has, ElementOf, sharedVars
<1>9. AnswerInv'
  <2>1. UNCHANGED <<configBytes, cache, elements, place, element, contents>>
    BY <1>1 DEF sharedVars
  <2>2. \A d \in Caller : \A l \in Labels \ {"idle"} : At(d, l)' => At(d, l)
    BY <1>1 DEF IInv, TypeOK, At
  <2>3. \A d \in Caller : (~At(d, "idle"))' => ~At(d, "idle")
    BY <1>1 DEF IInv, TypeOK, At
  <2>4. \A s : Done(s)' <=> Done(s)
    BY <2>1 DEF Done, Has, ElementOf
  <2>5. \A s : ElementOf(s)' = ElementOf(s)
    BY <2>1 DEF ElementOf
  <2>6. \A r \in returned' : Done(r[1]) /\ r[2] = elements[ElementOf(r[1])].answer
    BY <1>1, <1>2, <1>3 DEF IInv, AnswerInv
  <2>7. {"parse", "finish"} \subseteq Labels \ {"idle"}
    BY DEF Labels
  <2> QED
    BY <2>1, <2>2, <2>3, <2>4, <2>5, <2>6, <2>7 DEF IInv, AnswerInv
<1> QED
  BY <1>1, <1>2, <1>3, <1>6, <1>7, <1>8, <1>9 DEF IInv, sharedVars

-----------------------------------------------------------------------------
(* Every step keeps the invariant.                                         *)
LEMMA NextIInv == IInv /\ [Next]_vars => IInv'
<1> SUFFICES ASSUME IInv, [Next]_vars
             PROVE  IInv'
  OBVIOUS
<1>1. CASE Environment
  BY <1>1, EnvironmentIInv
<1>2. ASSUME NEW c \in Caller, ReadConfig(c) \/ Step(c)
      PROVE  IInv'
  BY <1>2, ReadConfigIInv, LockIInv, LookupIInv, CreateIInv, UnlockIInv, BeginIInv,
     ReadContentsIInv, ParseIInv, FinishIInv, ReturnIInv DEF Step
<1>3. CASE UNCHANGED vars
  <2>1. UNCHANGED <<disk, configFile, configBytes, mu, cache, elements, pc, place, element,
                    contents, returned>>
    BY <1>3 DEF vars, sharedVars, callVars
  <2>2. TypeOK' /\ BytesElement \in DOMAIN elements'
    BY <2>1 DEF IInv, TypeOK
  <2>3. MutexInv' /\ MapInv' /\ OnceInv'
    BY <2>1 DEF IInv, MutexInv, MapInv, OnceInv, InMutex, InOnce, At, Has, ElementOf
  <2>4. AnswerInv'
    BY <2>1 DEF IInv, AnswerInv, At, Done, Has, ElementOf
  <2> QED
    BY <2>2, <2>3, <2>4 DEF IInv
<1> QED
  BY <1>1, <1>2, <1>3 DEF Next

(* The variables keep their types: no caller uses an element that is not   *)
(* there.                                                                  *)
THEOREM Typing == Spec => []TypeOK
<1>1. IInv => TypeOK
  BY DEF IInv
<1> QED
  BY <1>1, InitIInv, NextIInv, PTL DEF Spec

(* No call returns without a configuration and without an error, and from  *)
(* a file none returns both.                                               *)
THEOREM AlwaysConfOrError == Spec => []ConfOrError
<1>1. IInv => ConfOrError
  <2> SUFFICES ASSUME IInv, NEW r \in returned
               PROVE  Good(r[1], r[2])
    BY DEF ConfOrError, Good
  <2>1. r[1] \in Place /\ Done(r[1]) /\ r[2] = elements[ElementOf(r[1])].answer
    BY DEF IInv, TypeOK, AnswerInv
  <2> QED
    BY <2>1 DEF IInv, AnswerInv
<1> QED
  BY <1>1, InitIInv, NextIInv, PTL DEF Spec

(* However many goroutines ask, in whatever order and whatever happens to  *)
(* the file, what they are given for one file is one answer.               *)
THEOREM CallersAlwaysAgree == Spec => []CallersAgree
<1>1. IInv => CallersAgree
  BY DEF IInv, AnswerInv, CallersAgree
<1> QED
  BY <1>1, InitIInv, NextIInv, PTL DEF Spec

(* A file is read by one goroutine at a time, and never after its answer   *)
(* has been handed out.                                                    *)
THEOREM FilesReadOnce == Spec => []OneReadPerFile
<1>1. IInv => OneReadPerFile
  <2> SUFFICES ASSUME IInv, NEW f \in File
               PROVE  /\ Cardinality(Reading(f)) <= 1
                      /\ (\E r \in returned : r[1] = f) => Reading(f) = {}
    BY DEF OneReadPerFile
  <2>1. \A c \in Reading(f) : c \in Caller /\ InOnce(c) /\ place[c] = f
    BY DEF Reading, InOnce
  <2>2. Cardinality(Reading(f)) <= 1
    <3>1. CASE Reading(f) = {}
      BY <3>1, FS_EmptySet
    <3>2. ASSUME NEW c \in Reading(f)
          PROVE  Cardinality(Reading(f)) <= 1
      <4>1. Reading(f) = {c}
        BY <2>1, <3>2 DEF IInv, OnceInv
      <4> QED
        BY <4>1, FS_Singleton
    <3> QED
      BY <3>1, <3>2
  <2>3. ASSUME NEW r \in returned, r[1] = f, NEW c \in Reading(f)
        PROVE  FALSE
    <3>1. elements[ElementOf(f)].once = "done"
      BY <2>3 DEF IInv, AnswerInv, Done
    <3>2. elements[element[c]].once = "running" /\ element[c] = ElementOf(f)
      BY <2>1, <2>3 DEF IInv, OnceInv, MapInv
    <3> QED
      BY <3>1, <3>2
  <2> QED
    BY <2>2, <2>3
<1> QED
  BY <1>1, InitIInv, NextIInv, PTL DEF Spec

-----------------------------------------------------------------------------
(***************************************************************************)
(* Refinement.  A place's register is written by the Finish of its once    *)
(* and read by Return; no other step touches it.                           *)
(***************************************************************************)
LEMMA RegisterIs ==
  /\ Register = [s \in Place |-> IF Done(s) THEN elements[ElementOf(s)].answer ELSE NoAnswer]
  /\ Register' = [s \in Place |-> IF Done(s)' THEN elements'[ElementOf(s)'].answer ELSE NoAnswer]
BY DEF Register, Done, Has

LEMMA RegisterSame ==
  ASSUME \A s \in Place : /\ Done(s)' <=> Done(s)
                          /\ Done(s) => elements'[ElementOf(s)'].answer = elements[ElementOf(s)].answer
  PROVE  Register' = Register
BY RegisterIs

(* A step that changes neither the map nor the elements.                   *)
LEMMA SharedSame ==
  ASSUME UNCHANGED <<cache, elements>>
  PROVE  Register' = Register
BY DEF Register, ElementOf

(* A step of one once other than Finish: its element is not done before    *)
(* nor after.                                                              *)
LEMMA RunningSame ==
  ASSUME IInv, NEW c \in Caller, InOnce(c) \/ At(c, "once"),
         elements[element[c]].once # "done",
         NEW e \in Element, e.once # "done",
         elements' = [elements EXCEPT ![element[c]] = e],
         cache' = cache
  PROVE  Register' = Register
<1>1. /\ element[c] = ElementOf(place[c]) /\ Has(place[c]) /\ place[c] \in Place
      /\ elements \in Seq(Element)
  BY DEF IInv, MapInv, TypeOK, Element
<1>2. element[c] \in DOMAIN elements
  BY <1>1, ElementsApart
<1>3. /\ elements'[element[c]] = e
      /\ \A j \in DOMAIN elements : j # element[c] => elements'[j] = elements[j]
  BY <1>1, <1>2, ChangeElement
<1>4. \A s \in Place : ElementOf(s)' = ElementOf(s) /\ Has(s)' = Has(s)
  BY DEF ElementOf, Has
<1>5. \A s \in Place : s # place[c] /\ Has(s) => elements'[ElementOf(s)] = elements[ElementOf(s)]
  BY <1>1, <1>3, ElementsApart
<1>6. \A s \in Place : s = place[c] => ~Done(s) /\ ~Done(s)'
  BY <1>1, <1>3, <1>4 DEF Done
<1>7. ASSUME NEW s \in Place
      PROVE  /\ Done(s)' <=> Done(s)
             /\ Done(s) => elements'[ElementOf(s)'].answer = elements[ElementOf(s)].answer
  BY <1>4, <1>5, <1>6, <1>7 DEF Done
<1> QED
  BY <1>7, RegisterSame

(* Create: the new element is not done, and the old ones stay.             *)
LEMMA CreateSame ==
  ASSUME IInv, NEW c \in Caller, Create(c)
  PROVE  Register' = Register
<1> DEFINE f == place[c]
           n == Len(elements) + 1
<1>1. /\ elements' = Append(elements, NewElement)
      /\ cache' = [cache EXCEPT ![f] = n]
      /\ f \in File /\ f # Bytes /\ cache[f] = NotCached
  BY ConfigAssumption DEF Create, At, IInv, MutexInv, InMutex
<1>2. /\ cache'[f] = n
      /\ \A g \in File : g # f => cache'[g] = cache[g]
  BY <1>1 DEF IInv, TypeOK
<1>3. /\ elements'[n] = NewElement
      /\ \A j \in DOMAIN elements : elements'[j] = elements[j]
  BY <1>1, AddElement DEF IInv, TypeOK, Element
<1> HIDE DEF n
<1>4. ASSUME NEW s \in Place
      PROVE  /\ Done(s)' <=> Done(s)
             /\ Done(s) => elements'[ElementOf(s)'].answer = elements[ElementOf(s)].answer
  <2>1. CASE s = f
    <3>1. ElementOf(s)' = n /\ ~Has(s)
      BY <1>1, <1>2, <2>1 DEF ElementOf, Has
    <3> QED
      BY <1>3, <3>1 DEF Done, NewElement
  <2>2. CASE s # f
    <3>1. ElementOf(s)' = ElementOf(s) /\ Has(s)' = Has(s)
      BY <1>2, <2>2 DEF ElementOf, Has, Place
    <3>2. Has(s) => ElementOf(s) \in DOMAIN elements
      BY ElementsApart
    <3> QED
      BY <1>3, <3>1, <3>2 DEF Done
  <2> QED
    BY <2>1, <2>2
<1> QED
  BY <1>4, RegisterSame

(* Finish writes the register of its place.                                *)
LEMMA FinishWrites ==
  ASSUME IInv, NEW c \in Caller, Finish(c)
  PROVE  Abstract!Next
<1>0. PICK s \in Place : s = place[c]
  BY FinishIInv
<1> DEFINE a == elements[ElementOf(s)].answer
<1>1. /\ ~Done(s) /\ Good(s, a) /\ Done(s)'
      /\ elements'[ElementOf(s)'].answer = a
      /\ \A t \in Place : t # s =>
           /\ Done(t)' <=> Done(t)
           /\ Done(t) => elements'[ElementOf(t)'] = elements[ElementOf(t)]
  BY <1>0, FinishIInv
<1>2. returned' = returned
  BY DEF Finish
<1> HIDE DEF a
<1>3. Register[s] = NoAnswer /\ a # NoAnswer /\ Register'[s] = a
  <2>1. Register[s] = NoAnswer
    BY <1>1, RegisterIs
  <2>2. Register'[s] = a
    BY <1>1, RegisterIs
  <2> QED
    BY <1>1, <2>1, <2>2, GoodIsSet
<1>4. Register' = [Register EXCEPT ![s] = a]
  <2>1. \A t \in Place \ {s} : Register'[t] = Register[t]
    BY <1>1, RegisterIs
  <2> QED
    BY <1>3, <2>1, RegisterIs
<1>5. Abstract!Write(s, a)
  BY <1>2, <1>3, <1>4 DEF Abstract!Write
<1>6. a \in {Register'[s]}
  BY <1>3
<1> QED
  BY <1>1, <1>5, <1>6 DEF Abstract!Next

(* Return reads the register of its place.                                 *)
LEMMA ReturnReads ==
  ASSUME IInv, NEW c \in Caller, Return(c)
  PROVE  Abstract!Next
<1> DEFINE s == place[c]
<1>1. /\ s \in Place /\ Done(s) /\ Good(s, elements[ElementOf(s)].answer)
      /\ returned' = returned \cup {<<s, elements[ElementOf(s)].answer>>}
  BY ReturnIInv
<1>2. Register' = Register
  BY SharedSame DEF Return, sharedVars
<1> HIDE DEF s
<1>3. Register[s] = elements[ElementOf(s)].answer /\ Register[s] # NoAnswer
  BY <1>1, RegisterIs, GoodIsSet
<1>4. Abstract!Read(s)
  BY <1>1, <1>2, <1>3 DEF Abstract!Read
<1> QED
  BY <1>1, <1>4 DEF Abstract!Next

(* The cache implements a write-once register for each file and for the    *)
(* bytes: whatever the goroutines' order, the mutex and the once make      *)
(* looking up, making, reading and parsing look like one step.             *)
THEOREM Refinement == Spec => AbstractSpec
<1>1. Init => Abstract!Init
  <2> SUFFICES ASSUME Init
               PROVE  Register = [s \in Place |-> NoAnswer] /\ returned = {}
    BY DEF Abstract!Init
  <2>1. elements[1] = NewElement /\ \A f \in File : cache[f] = NotCached
    BY DEF Init
  <2>2. \A s \in Place : ~Done(s)
    BY <2>1 DEF Done, Has, ElementOf, Place, NewElement, BytesElement
  <2> QED
    BY <2>2, RegisterIs DEF Init
<1>2. IInv /\ [Next]_vars => [Abstract!Next]_<<Register, returned>>
  <2> SUFFICES ASSUME IInv, [Next]_vars
               PROVE  Abstract!Next \/ (Register' = Register /\ returned' = returned)
    OBVIOUS
  <2>1. CASE Environment
    BY <2>1, SharedSame DEF Environment, EditFile, SetFlag, SetBytes
  <2>2. ASSUME NEW c \in Caller, \/ ReadConfig(c) \/ Lock(c) \/ Lookup(c) \/ Unlock(c)
                                \/ ReadContents(c)
        PROVE  Register' = Register /\ returned' = returned
    BY <2>2, SharedSame DEF ReadConfig, Lock, Lookup, Unlock, ReadContents, sharedVars
  <2>3. ASSUME NEW c \in Caller, Create(c)
        PROVE  Register' = Register /\ returned' = returned
    BY <2>3, CreateSame DEF Create
  <2>4. ASSUME NEW c \in Caller, Begin(c) \/ Parse(c)
        PROVE  Register' = Register /\ returned' = returned
    <3>1. element[c] \in DOMAIN elements /\ elements \in Seq(Element)
          /\ (InOnce(c) \/ At(c, "once"))
      BY <2>4, ElementsApart
         DEF Begin, Parse, IInv, MapInv, TypeOK, InOnce, At, Element
    <3>2. elements[element[c]] \in Element
      BY <3>1
    <3>3. CASE Begin(c)
      <4> DEFINE e == [elements[element[c]] EXCEPT !.once = "running"]
      <4>1. e \in Element /\ e.once # "done"
        BY <3>2 DEF Element
      <4>2. /\ elements[element[c]].once # "done" /\ cache' = cache /\ returned' = returned
            /\ elements' = [elements EXCEPT ![element[c]] = e]
        BY <3>3 DEF Begin, Once
      <4> HIDE DEF e
      <4> QED
        BY <3>1, <4>1, <4>2, RunningSame
    <3>4. CASE Parse(c)
      <4> DEFINE a == IF place[c] = Bytes THEN BytesAnswer(contents[c]) ELSE FileAnswer(contents[c])
                 e == [elements[element[c]] EXCEPT !.answer = a]
      <4>1. elements[element[c]].once = "running"
        BY <3>4 DEF Parse, IInv, OnceInv, InOnce, At
      <4>2. /\ cache' = cache /\ returned' = returned
            /\ elements' = [elements EXCEPT ![element[c]] = e]
        BY <3>4 DEF Parse
      <4>3. a \in Answer
        <5>1. /\ place[c] \in Place /\ contents[c] \in Content \cup {Missing}
              /\ place[c] = Bytes => contents[c] \in Content
          BY <3>4 DEF Parse, IInv, TypeOK, AnswerInv
        <5>2. CASE place[c] = Bytes
          BY <5>1, <5>2, ParsedIsGood
        <5>3. CASE place[c] # Bytes
          BY <5>1, <5>3, ParsedIsGood DEF Place
        <5> QED
          BY <5>2, <5>3
      <4> HIDE DEF a
      <4>4. e \in Element /\ e.once # "done"
        BY <3>2, <4>1, <4>3 DEF Element
      <4> HIDE DEF e
      <4> QED
        BY <3>1, <4>1, <4>2, <4>4, RunningSame
    <3> QED
      BY <2>4, <3>3, <3>4
  <2>5. ASSUME NEW c \in Caller, Finish(c)
        PROVE  Abstract!Next
    BY <2>5, FinishWrites
  <2>6. ASSUME NEW c \in Caller, Return(c)
        PROVE  Abstract!Next
    BY <2>6, ReturnReads
  <2>7. CASE UNCHANGED vars
    BY <2>7, SharedSame DEF vars, sharedVars
  <2> QED
    BY <2>1, <2>2, <2>3, <2>4, <2>5, <2>6, <2>7 DEF Next, Step
<1> QED
  BY <1>1, <1>2, InitIInv, NextIInv, PTL DEF Spec, AbstractSpec, Abstract!Spec
=============================================================================
