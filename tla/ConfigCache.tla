---------------------------- MODULE ConfigCache ----------------------------
(***************************************************************************)
(* ReadConfig of config/config.go as the analyzers call it: each from a    *)
(* goroutine of its own, one for every package and analyzer, all on the    *)
(* package variables of config.go.  A mutex guards the map from files to   *)
(* cache elements, and a sync.Once in each element guards the reading and  *)
(* parsing of its file.  Bytes given to SetBytes take the place of the     *)
(* file, behind a sync.Once of their own.                                  *)
(*                                                                         *)
(* A file's contents are one value of Content, and parsing is whether that *)
(* is in Valid.  The file may change at any time.  SetBytes and the -config *)
(* flag are set between analyses: when no call is running.                 *)
(***************************************************************************)
EXTENDS Naturals, Sequences, FiniteSets

CONSTANTS
  Caller,     \* goroutines
  File,       \* paths
  Content,    \* what a file, or SetBytes, may hold
  Valid,      \* the contents that parse
  Missing,    \* a file that cannot be read
  Bytes,      \* in place of a path: the bytes of SetBytes
  None        \* no caller, no bytes, no configuration

ASSUME ConfigAssumption ==
  /\ Valid \subseteq Content
  /\ Missing \notin Content
  /\ None \notin Content \cup Caller
  /\ Bytes \notin File

VARIABLES
  disk,         \* what each file holds
  configFile,   \* the -config flag
  configBytes,  \* set by SetBytes
  mu,           \* who holds configCache.mu
  cache,        \* configCache.cache: the element of each file, 0 for none
  elements,     \* the elements made, and first the one of configBytes
  pc, place, element, contents,  \* of each caller: where it is in ReadConfig,
                                 \* and its local variables
  returned      \* the pairs <<place, answer>> that calls have returned

sharedVars == <<disk, configFile, configBytes, mu, cache, elements>>
callVars == <<pc, place, element, contents>>
vars == <<sharedVars, callVars, returned>>

NotCached == 0
BytesElement == 1
Place == File \cup {Bytes}

Answer == [conf : Content \cup {None}, err : BOOLEAN]
NoAnswer == [conf |-> None, err |-> FALSE]
NewElement == [once |-> "new", answer |-> NoAnswer]

(* What is kept of a file's contents: a configuration or an error.         *)
FileAnswer(c) ==
  IF c \in Valid THEN [conf |-> c, err |-> FALSE] ELSE [conf |-> None, err |-> TRUE]

(* Of configBytes, whatever has been parsed is kept beside the error.      *)
BytesAnswer(c) == [conf |-> c, err |-> c \notin Valid]

-----------------------------------------------------------------------------
Init ==
  /\ disk \in [File -> Content \cup {Missing}]
  /\ configFile \in File
  /\ configBytes = None
  /\ mu = None
  /\ cache = [f \in File |-> NotCached]
  /\ elements = <<NewElement>>
  /\ pc = [c \in Caller |-> "idle"]
  /\ place \in [Caller -> {Bytes}]
  /\ element = [c \in Caller |-> NotCached]
  /\ contents = [c \in Caller |-> Missing]
  /\ returned = {}

At(c, label) == pc[c] = label
Goto(c, label) == pc' = [pc EXCEPT ![c] = label]

Quiet == \A c \in Caller : At(c, "idle")

EditFile(f, content) ==
  /\ disk' = [disk EXCEPT ![f] = content]
  /\ UNCHANGED <<configFile, configBytes, mu, cache, elements, callVars, returned>>

SetFlag(f) ==
  /\ Quiet
  /\ configFile' = f
  /\ UNCHANGED <<disk, configBytes, mu, cache, elements, callVars, returned>>

SetBytes(b) ==
  /\ Quiet
  /\ configBytes' = b
  /\ UNCHANGED <<disk, configFile, mu, cache, elements, callVars, returned>>

(* ReadConfig: the bytes, or else cache.read(configFile).                  *)
ReadConfig(c) ==
  /\ At(c, "idle")
  /\ IF configBytes # None
     THEN /\ place' = [place EXCEPT ![c] = Bytes]
          /\ element' = [element EXCEPT ![c] = BytesElement]
          /\ Goto(c, "once")
     ELSE /\ place' = [place EXCEPT ![c] = configFile]
          /\ Goto(c, "lock")
          /\ UNCHANGED element
  /\ UNCHANGED <<sharedVars, contents, returned>>

\* Mutant: w.mu.Lock() forgotten.
Lock_skipped(c) ==
  /\ At(c, "lock")
  /\ mu' = c
  /\ Goto(c, "lookup")
  /\ UNCHANGED <<disk, configFile, configBytes, cache, elements, place, element, contents, returned>>

(* getCacheForFile                                                         *)
Lock(c) ==
  /\ At(c, "lock")
  /\ mu = None
  /\ mu' = c
  /\ Goto(c, "lookup")
  /\ UNCHANGED <<disk, configFile, configBytes, cache, elements, place, element, contents, returned>>

\* Mutant: an element is made whether or not the file has one.
Lookup_always(c) ==
  /\ At(c, "lookup")
  /\ Goto(c, "create")
  /\ UNCHANGED <<sharedVars, place, element, contents, returned>>

Lookup(c) ==
  /\ At(c, "lookup")
  /\ Goto(c, IF cache[place[c]] = NotCached THEN "create" ELSE "unlock")
  /\ UNCHANGED <<sharedVars, place, element, contents, returned>>

\* Mutant: the element of the bytes serves for files too.
Create_shared(c) ==
  /\ At(c, "create")
  /\ cache' = [cache EXCEPT ![place[c]] = BytesElement]
  /\ Goto(c, "unlock")
  /\ UNCHANGED <<disk, configFile, configBytes, mu, elements, place, element, contents, returned>>

Create(c) ==
  /\ At(c, "create")
  /\ elements' = Append(elements, NewElement)
  /\ cache' = [cache EXCEPT ![place[c]] = Len(elements) + 1]
  /\ Goto(c, "unlock")
  /\ UNCHANGED <<disk, configFile, configBytes, mu, place, element, contents, returned>>

\* Mutant: return without the deferred w.mu.Unlock().
Unlock_held(c) ==
  /\ At(c, "unlock")
  /\ element' = [element EXCEPT ![c] = cache[place[c]]]
  /\ Goto(c, "once")
  /\ UNCHANGED <<sharedVars, place, contents, returned>>

Unlock(c) ==
  /\ At(c, "unlock")
  /\ element' = [element EXCEPT ![c] = cache[place[c]]]
  /\ mu' = None
  /\ Goto(c, "once")
  /\ UNCHANGED <<disk, configFile, configBytes, cache, elements, place, contents, returned>>

(* once.Do: the first caller runs its function, the others wait for it.    *)
Once(c) == elements[element[c]].once

Begin(c) ==
  /\ At(c, "once")
  /\ Once(c) = "new"
  /\ elements' = [elements EXCEPT ![element[c]].once = "running"]
  /\ Goto(c, "read")
  /\ UNCHANGED <<disk, configFile, configBytes, mu, cache, place, element, contents, returned>>

ReadContents(c) ==
  /\ At(c, "read")
  /\ contents' = [contents EXCEPT ![c] = IF place[c] = Bytes THEN configBytes ELSE disk[place[c]]]
  /\ Goto(c, "parse")
  /\ UNCHANGED <<sharedVars, place, element, returned>>

Parse(c) ==
  /\ At(c, "parse")
  /\ elements' = [elements EXCEPT ![element[c]].answer =
                    IF place[c] = Bytes THEN BytesAnswer(contents[c]) ELSE FileAnswer(contents[c])]
  /\ Goto(c, "finish")
  /\ UNCHANGED <<disk, configFile, configBytes, mu, cache, place, element, contents, returned>>

Finish(c) ==
  /\ At(c, "finish")
  /\ elements' = [elements EXCEPT ![element[c]].once = "done"]
  /\ Goto(c, "once")
  /\ UNCHANGED <<disk, configFile, configBytes, mu, cache, place, element, contents, returned>>

\* Mutant: a running function is not waited for.
Return_early(c) ==
  /\ At(c, "once")
  /\ Once(c) # "new"
  /\ returned' = returned \cup {<<place[c], elements[element[c]].answer>>}
  /\ Goto(c, "idle")
  /\ UNCHANGED <<sharedVars, place, element, contents>>

Return(c) ==
  /\ At(c, "once")
  /\ Once(c) = "done"
  /\ returned' = returned \cup {<<place[c], elements[element[c]].answer>>}
  /\ Goto(c, "idle")
  /\ UNCHANGED <<sharedVars, place, element, contents>>

Step(c) ==
  \/ Lock(c) \/ Lookup(c) \/ Create(c) \/ Unlock(c)
  \/ Begin(c) \/ ReadContents(c) \/ Parse(c) \/ Finish(c) \/ Return(c)

Environment ==
  \/ \E f \in File, content \in Content \cup {Missing} : EditFile(f, content)
  \/ \E f \in File : SetFlag(f)
  \/ \E b \in Content \cup {None} : SetBytes(b)

Next == Environment \/ \E c \in Caller : ReadConfig(c) \/ Step(c)

(* A goroutine that can go on does, and sync.Mutex lets no waiter starve.  *)
Fairness == \A c \in Caller : WF_vars(Step(c)) /\ SF_vars(Lock(c))

Spec == Init /\ [][Next]_vars /\ Fairness

-----------------------------------------------------------------------------
Labels == {"idle", "lock", "lookup", "create", "unlock", "once", "read", "parse", "finish"}

TypeOK ==
  /\ disk \in [File -> Content \cup {Missing}]
  /\ configFile \in File
  /\ configBytes \in Content \cup {None}
  /\ mu \in Caller \cup {None}
  /\ elements \in Seq([once : {"new", "running", "done"}, answer : Answer])
  /\ cache \in [File -> {NotCached} \cup 2..Len(elements)]
  /\ pc \in [Caller -> Labels]
  /\ place \in [Caller -> Place]
  /\ element \in [Caller -> {NotCached} \cup DOMAIN elements]
  /\ contents \in [Caller -> Content \cup {Missing}]
  /\ returned \subseteq Place \X Answer

(* A call returns a configuration or an error and, from a file, never      *)
(* both and never neither: no analyzer goes on with a nil *Config.         *)
ConfOrError ==
  \A r \in returned :
    /\ r[2].conf = None => r[2].err
    /\ r[1] # Bytes => (r[2].conf = None <=> r[2].err)

(* All callers that read one file get one answer, however often the file   *)
(* changes in between: the analyzers of one run agree.                     *)
CallersAgree ==
  \A r, s \in returned : r[1] = s[1] => r[2] = s[2]

(* config.go:338 "configCacheElement reduces disk access across multiple   *)
(* ReadConfig calls": a file is read by one goroutine at a time, and never *)
(* again once it has been read.                                            *)
Reading(f) == {c \in Caller : pc[c] \in {"read", "parse", "finish"} /\ place[c] = f}

OneReadPerFile ==
  \A f \in File :
    /\ Cardinality(Reading(f)) <= 1
    /\ (\E r \in returned : r[1] = f) => Reading(f) = {}

(* Every call of ReadConfig returns.                                       *)
CallsReturn == \A c \in Caller : ~At(c, "idle") ~> At(c, "idle")

(* Refinement: the elements are write-once registers.                      *)
ElementOf(s) == IF s = Bytes THEN BytesElement ELSE cache[s]

Register ==
  [s \in Place |->
     IF ElementOf(s) # NotCached /\ elements[ElementOf(s)].once = "done"
     THEN elements[ElementOf(s)].answer ELSE NoAnswer]

Abstract == INSTANCE AbstractConfig WITH register <- Register, Unset <- NoAnswer
AbstractSpec == Abstract!Spec

(* config.go:316 "If the config bytes were set using SetConfigBytes, they  *)
(* are used instead."                                                      *)
SetBytesUsed ==
  [][\A c \in Caller : Return(c) /\ place[c] = Bytes
       => elements[element[c]].answer = BytesAnswer(configBytes)]_vars
=============================================================================
