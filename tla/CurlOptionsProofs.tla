-------------------------- MODULE CurlOptionsProofs --------------------------
(***************************************************************************)
(* Proofs about CurlOptions, for every set of Curl objects, options and    *)
(* values.  IInv adds that the address of the shared buffer is kept        *)
(* nowhere: libcurl holds the very values that plugins set.                *)
(***************************************************************************)
EXTENDS CurlOptions, TLAPS

Managed == ContextOptions \cup {CURLOPT_NOSIGNAL}

\* The values as such, not what the buffer holds by now.
KeptAsMeant ==
  \A c \in Curls, option \in Options \ Managed :
    owner[c] # "none" => setting[c][option] = meant[c][option]

IInv == TypeOK /\ KeptAsMeant /\ DefaultsHold

Values == UNION {Value(option) : option \in Options}

\* The values each kind of option may have, without the cases of Value.
LEMMA ValueKinds ==
  /\ \A option \in Options : Default \in Value(option) /\ Default # Buffer
  /\ \A option \in StringOptions, text \in Texts : text \in Value(option) \ {Buffer}
  /\ \A option \in CellOptions, number \in Numbers : number \in Value(option) \ {Buffer}
  /\ \A option \in ListOptions, list \in Lists : list \in Value(option) \ {Buffer}
  /\ \A option \in ContextOptions, c \in Curls : c \in Value(option)
  /\ \A option \in Options : Value(option) \subseteq Values
  BY OptionAssumption, ValueAssumption DEF Value, Values, Options, HandleOptions

\* SetDefaultOptions gives the managed options their values and keeps the others.
LEMMA DefaultsAre ==
  ASSUME NEW c \in Curls, NEW s,
         \A option \in Options : s[option] \in Value(option)
  PROVE  /\ WithDefaults(c, s) \in [Options -> Values]
         /\ \A option \in Options : WithDefaults(c, s)[option] \in Value(option)
         /\ \A option \in Options \ Managed : WithDefaults(c, s)[option] = s[option]
         /\ \A option \in ContextOptions : WithDefaults(c, s)[option] = c
         /\ WithDefaults(c, s)[CURLOPT_NOSIGNAL] = On
<1>1. ContextOptions \subseteq Options /\ CURLOPT_NOSIGNAL \in Options \ ContextOptions
  BY OptionAssumption DEF Options, HandleOptions
<1>2. \A option \in Options : WithDefaults(c, s)[option] \in Value(option)
  BY <1>1, ValueKinds, OptionAssumption, ValueAssumption DEF WithDefaults
<1>3. WithDefaults(c, s) \in [Options -> Values]
  BY <1>2, ValueKinds DEF WithDefaults
<1> QED BY <1>1, <1>2, <1>3 DEF WithDefaults, Managed

\* An action that changes the options of one object, to values of their types and
\* as they were meant, keeps the invariant.
LEMMA ObjectKeeps ==
  ASSUME IInv, NEW c \in Curls,
         {setting', meant'} \subseteq [Curls -> [Options -> Values]],
         buffer' \in Texts, owner' \in [Curls -> {"none", "plugin", "worker"}],
         \A d \in Curls : d # c => /\ owner'[d] = owner[d]
                                   /\ setting'[d] = setting[d] /\ meant'[d] = meant[d],
         \A option \in Options : /\ setting'[c][option] \in Value(option)
                                 /\ meant'[c][option] \in Value(option) \ {Buffer},
         owner'[c] # "none" =>
           /\ \A option \in Options \ Managed : setting'[c][option] = meant'[c][option]
           /\ \A option \in ContextOptions : setting'[c][option] = c,
         owner'[c] = "worker" => setting'[c][CURLOPT_NOSIGNAL] = On
  PROVE  IInv'
<1>1. TypeOK'
  <2>1. \A d \in Curls, option \in Options :
          setting'[d][option] \in Value(option) /\ meant'[d][option] \in Value(option) \ {Buffer}
    BY DEF IInv, TypeOK
  <2> QED BY <2>1 DEF TypeOK, Values
<1>2. KeptAsMeant'
  BY DEF IInv, KeptAsMeant
<1>3. DefaultsHold'
  BY DEF IInv, DefaultsHold
<1> QED BY <1>1, <1>2, <1>3 DEF IInv

\* An object without settings, and one with the defaults alone.
LEMMA NothingKinds ==
  /\ NothingSet \in [Options -> Values]
  /\ \A option \in Options :
       NothingSet[option] = Default /\ NothingSet[option] \in Value(option) \ {Buffer}
  BY ValueKinds DEF NothingSet

\* One option of one object gets a value of its type.
LEMMA PutKeeps ==
  ASSUME IInv, NEW c \in Curls, NEW option \in Options \ ContextOptions,
         NEW value \in Value(option) \ {Buffer},
         Put(c, option, value, value), owner[c] = "plugin", UNCHANGED owner,
         buffer' \in Texts
  PROVE  IInv'
<1>1. /\ {setting, meant} \subseteq [Curls -> [Options -> Values]]
      /\ value \in Values /\ owner'[c] = "plugin"
      /\ owner' \in [Curls -> {"none", "plugin", "worker"}]
  BY ValueKinds DEF IInv, TypeOK, Values
<1>2. /\ setting' = [setting EXCEPT ![c] = [setting[c] EXCEPT ![option] = value]]
      /\ meant' = [meant EXCEPT ![c] = [meant[c] EXCEPT ![option] = value]]
  BY <1>1 DEF Put
<1>3. /\ setting'[c][option] = value /\ meant'[c][option] = value
      /\ \A o \in Options : o # option => /\ setting'[c][o] = setting[c][o]
                                          /\ meant'[c][o] = meant[c][o]
      /\ {setting', meant'} \subseteq [Curls -> [Options -> Values]]
      /\ \A d \in Curls : d # c => setting'[d] = setting[d] /\ meant'[d] = meant[d]
  BY <1>1, <1>2
<1>4. \A o \in Options : /\ setting'[c][o] \in Value(o)
                         /\ meant'[c][o] \in Value(o) \ {Buffer}
  BY <1>3 DEF IInv, TypeOK
<1>5. \A o \in Options \ Managed : setting'[c][o] = meant'[c][o]
  BY <1>3 DEF IInv, KeptAsMeant
<1>6. \A o \in ContextOptions : setting'[c][o] = c
  BY <1>3 DEF IInv, DefaultsHold, Options, HandleOptions
<1> QED BY <1>1, <1>3, <1>4, <1>5, <1>6, ObjectKeeps

-----------------------------------------------------------------------------
(* The actions *)

LEMMA InitKeeps == Init => IInv
<1> SUFFICES ASSUME Init PROVE IInv
  OBVIOUS
<1>1. TypeOK
  <2>1. setting = [c \in Curls |-> NothingSet] /\ meant = setting
    BY DEF Init
  <2> QED BY <2>1, NothingKinds DEF TypeOK, Init, Values
<1> QED BY <1>1 DEF IInv, Init, KeptAsMeant, DefaultsHold

\* curl_init and curl_reset.
LEMMA FreshKeeps ==
  ASSUME IInv, NEW c \in Curls, CurlInit(c) \/ CurlReset(c)
  PROVE  IInv'
<1> DEFINE s == WithDefaults(c, NothingSet)
<1>1. /\ s \in [Options -> Values] /\ \A o \in Options : s[o] \in Value(o)
      /\ \A o \in Options \ Managed : s[o] = NothingSet[o]
      /\ \A o \in ContextOptions : s[o] = c
      /\ s[CURLOPT_NOSIGNAL] = On
  BY NothingKinds, DefaultsAre
<1>2. /\ setting' = [setting EXCEPT ![c] = s] /\ meant' = [meant EXCEPT ![c] = NothingSet]
      /\ {setting, meant} \subseteq [Curls -> [Options -> Values]]
      /\ buffer' \in Texts /\ owner' \in [Curls -> {"none", "plugin", "worker"}]
      /\ \A d \in Curls : d # c => owner'[d] = owner[d]
  BY DEF CurlInit, CurlReset, IInv, TypeOK, Values
<1> HIDE DEF s
<1>3. /\ setting'[c] = s /\ meant'[c] = NothingSet
      /\ {setting', meant'} \subseteq [Curls -> [Options -> Values]]
      /\ \A d \in Curls : d # c => setting'[d] = setting[d] /\ meant'[d] = meant[d]
  BY <1>1, <1>2, NothingKinds
<1> QED BY <1>1, <1>2, <1>3, NothingKinds, ObjectKeeps

LEMMA DeleteKeeps ==
  ASSUME IInv, NEW c \in Curls, Delete(c)
  PROVE  IInv'
<1>1. /\ setting' = [setting EXCEPT ![c] = NothingSet]
      /\ meant' = [meant EXCEPT ![c] = NothingSet]
      /\ {setting, meant} \subseteq [Curls -> [Options -> Values]]
      /\ buffer' \in Texts /\ owner' \in [Curls -> {"none", "plugin", "worker"}]
      /\ owner'[c] = "none" /\ \A d \in Curls : d # c => owner'[d] = owner[d]
  BY DEF Delete, IInv, TypeOK, Values
<1>2. /\ setting'[c] = NothingSet /\ meant'[c] = NothingSet
      /\ {setting', meant'} \subseteq [Curls -> [Options -> Values]]
      /\ \A d \in Curls : d # c => setting'[d] = setting[d] /\ meant'[d] = meant[d]
  BY <1>1, NothingKinds
<1> QED BY <1>1, <1>2, NothingKinds, ObjectKeeps

\* curl_duphandle and curl_thread_exec.
LEMMA DuplicateKeeps ==
  ASSUME IInv, NEW c \in Curls, NEW d \in Curls, NEW to \in {"plugin", "worker"},
         MakeDuplicate(c, d, to), buffer' \in Texts
  PROVE  IInv'
<1>1. /\ {setting, meant} \subseteq [Curls -> [Options -> Values]]
      /\ setting[c] \in [Options -> Values] /\ meant[c] \in [Options -> Values]
      /\ \A o \in Options : setting[c][o] \in Value(o) /\ meant[c][o] \in Value(o) \ {Buffer}
      /\ owner[c] = "plugin"
  BY DEF IInv, TypeOK, Values, MakeDuplicate
<1> PICK s \in [Options -> Values] : s = setting[c]
  BY <1>1
<1>2. \A o \in Options : s[o] \in Value(o)
  BY <1>1
<1> DEFINE w == WithDefaults(d, s)
<1>3. /\ w \in [Options -> Values] /\ \A o \in Options : w[o] \in Value(o)
      /\ \A o \in Options \ Managed : w[o] = s[o]
      /\ \A o \in ContextOptions : w[o] = d
      /\ w[CURLOPT_NOSIGNAL] = On
  BY <1>2, DefaultsAre
<1>4. /\ setting' = [setting EXCEPT ![d] = w] /\ meant' = [meant EXCEPT ![d] = meant[c]]
      /\ owner' \in [Curls -> {"none", "plugin", "worker"}]
      /\ \A e \in Curls : e # d => owner'[e] = owner[e]
  BY DEF IInv, MakeDuplicate, TypeOK
<1> HIDE DEF w
<1>5. /\ setting'[d] = w /\ meant'[d] = meant[c]
      /\ {setting', meant'} \subseteq [Curls -> [Options -> Values]]
      /\ \A e \in Curls : e # d => setting'[e] = setting[e] /\ meant'[e] = meant[e]
  BY <1>1, <1>3, <1>4
<1>6. \A o \in Options \ Managed : setting'[d][o] = meant'[d][o]
  BY <1>1, <1>3, <1>5 DEF IInv, KeptAsMeant
<1>7. \A o \in Options : setting'[d][o] \in Value(o) /\ meant'[d][o] \in Value(o) \ {Buffer}
  BY <1>1, <1>3, <1>5
<1> QED BY <1>3, <1>4, <1>5, <1>6, <1>7, ObjectKeeps

LEMMA SetOptKeeps ==
  ASSUME IInv, NEW c \in Curls, NEW option \in Options,
         \/ \E number \in Numbers : CurlSetOptCell(c, option, number)
         \/ \E text \in Texts : CurlSetOptString(c, option, text)
         \/ \E list \in Lists : CurlSetOptHandle(c, option, list)
  PROVE  IInv'
<1>1. ASSUME NEW number \in Numbers, CurlSetOptCell(c, option, number) PROVE IInv'
  <2>1. option \in CellOptions /\ option \notin ContextOptions /\ number \in Value(option) \ {Buffer}
    BY <1>1, ValueKinds, OptionAssumption DEF CurlSetOptCell, HandleOptions
  <2>2. buffer' \in Texts /\ Put(c, option, number, number) /\ owner[c] = "plugin" /\ UNCHANGED owner
    BY <1>1 DEF CurlSetOptCell, IInv, TypeOK
  <2> QED BY <2>1, <2>2, PutKeeps
<1>2. ASSUME NEW text \in Texts, CurlSetOptString(c, option, text) PROVE IInv'
  <2>1. option \in StringOptions /\ option \notin ContextOptions /\ text \in Value(option) \ {Buffer}
    BY <1>2, ValueKinds, OptionAssumption DEF CurlSetOptString, HandleOptions
  <2>2. Passed(option) # CURLOPT_POSTFIELDS
    BY OptionAssumption DEF Passed, Options
  <2>3. buffer' \in Texts /\ Put(c, option, text, text) /\ owner[c] = "plugin" /\ UNCHANGED owner
    BY <1>2, <2>2 DEF CurlSetOptString, Kept
  <2> QED BY <2>1, <2>3, PutKeeps
<1>3. ASSUME NEW list \in Lists, CurlSetOptHandle(c, option, list) PROVE IInv'
  <2>1. option \in ListOptions /\ option \notin ContextOptions /\ list \in Value(option) \ {Buffer}
    BY <1>3, ValueKinds, OptionAssumption DEF CurlSetOptHandle
  <2>2. buffer' \in Texts /\ Put(c, option, list, list) /\ owner[c] = "plugin" /\ UNCHANGED owner
    BY <1>3 DEF CurlSetOptHandle, IInv, TypeOK
  <2> QED BY <2>1, <2>2, PutKeeps
<1> QED BY <1>1, <1>2, <1>3

LEMMA NextKeeps == IInv /\ [Next]_vars => IInv'
<1> SUFFICES ASSUME IInv, [Next]_vars PROVE IInv'
  OBVIOUS
<1>1. CASE UNCHANGED vars
  BY <1>1 DEF vars, IInv, TypeOK, KeptAsMeant, DefaultsHold
<1>2. ASSUME NEW text \in Texts, ReadString(text) PROVE IInv'
  BY <1>2 DEF ReadString, IInv, TypeOK, KeptAsMeant, DefaultsHold
<1>3. ASSUME NEW c \in Curls, NEW d \in Curls, CurlDupHandle(c, d) \/ CurlThreadExec(c, d)
      PROVE  IInv'
  <2>1. buffer' \in Texts
    BY <1>3 DEF CurlDupHandle, CurlThreadExec, IInv, TypeOK
  <2> QED BY <1>3, <2>1, DuplicateKeeps DEF CurlDupHandle, CurlThreadExec
<1> QED BY <1>1, <1>2, <1>3, FreshKeeps, DeleteKeeps, SetOptKeeps DEF Next

-----------------------------------------------------------------------------
(* Theorems *)

\* The invariant holds whatever natives plugins call.
THEOREM Invariant == Spec => []IInv
  BY InitKeeps, NextKeeps, PTL DEF Spec

\* Every option holds a value of its type.
THEOREM TypeCorrect == Spec => []TypeOK
<1>1. IInv => TypeOK
  BY DEF IInv
<1> QED BY <1>1, Invariant, PTL

\* Options keep their values, in objects and duplicates, whatever is read or set later.
THEOREM ValuesCorrect == Spec => []OptionsKeepValues
<1>1. IInv => OptionsKeepValues
  <2> SUFFICES ASSUME IInv, NEW c \in Curls, NEW option \in Options \ Managed, owner[c] # "none"
               PROVE  Used(c, option) = meant[c][option]
    BY DEF OptionsKeepValues, Managed
  <2>1. setting[c][option] = meant[c][option] /\ meant[c][option] # Buffer
    BY DEF IInv, KeptAsMeant, TypeOK
  <2> QED BY <2>1 DEF Used
<1> QED BY <1>1, Invariant, PTL

\* Every Curl is its own context, and the worker's never use signals.
THEOREM DefaultsCorrect == Spec => []DefaultsHold
<1>1. IInv => DefaultsHold
  BY DEF IInv
<1> QED BY <1>1, Invariant, PTL
=============================================================================
