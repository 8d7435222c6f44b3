---------------------------- MODULE FormAddProofs ----------------------------
(***************************************************************************)
(* Proofs about FormAdd, for every table of options, every set of calls    *)
(* and every verdict of libcurl.                                           *)
(*                                                                         *)
(* IInv says what the first j places of the arrays hold: the loop is at    *)
(* argument 2j + 2, and place k was filled from arguments 2k + 1 and       *)
(* 2k + 2, counted from the first one after the form.                      *)
(***************************************************************************)
EXTENDS FormAdd, TLAPS

\* The two counters move together, and inside of the arguments that were given.
InStep ==
  /\ pc \in {"loop", "add"} => i = 2 * j + 2
  /\ pc \in {"loop", "add"} /\ result = "OK" => 2 * j <= Len(args) + 1

\* What place k holds after its round.
Filled(k) ==
  /\ Option(k + 1) # CURLFORM_END
  /\ arr[k].option = Option(k + 1)
  /\ Content(arr[k].value) = HandedValue(Option(k + 1), Value(k + 1))
  /\ arr[k].value.to = "strings" => arr[k].value.at = k

PlacesFilled ==
  pc \in {"loop", "add"} /\ result = "OK" =>
    /\ \A k \in Places : k < j => Filled(k)
    /\ \A k \in Places : k >= j => arr[k].value = Nowhere

\* SetArray is reached with an END in place j.
EndEntered ==
  pc = "add" => /\ result = "OK" /\ 2 * j + 1 \in 1..Len(args)
                /\ Option(j + 1) = CURLFORM_END /\ arr[j].option = CURLFORM_END

\* Nothing is handed over before, and an END in sight is never passed.
NothingPassed ==
  /\ pc # "returned" => handed = <<>>
  /\ pc = "undefined" => EndPlaces = {}
  /\ pc = "loop" /\ result = "OK" => \A k \in EndPlaces : k > j

IInv ==
  TypeOK /\ InStep /\ PlacesFilled /\ EndEntered /\ NothingPassed /\ HandsOverPairs
-----------------------------------------------------------------------------
(* Bounds *)

\* The arrays have a place for every argument twice over.
LEMMA PlacesAre ==
  ASSUME args \in Seq(Arguments)
  PROVE  Places = 0..(2 * Len(args)) /\ ParamsNumber = 4 * Len(args) + 4
<1>1. Len(args) \in Nat
  OBVIOUS
<1>2. (4 * (Len(args) + 1) - 2) \div 2 = 2 * Len(args) + 1
  BY <1>1
<1> QED BY <1>1, <1>2 DEF Places, ParamsNumber

\* In the loop the place that is filled next exists, and so does its argument's place.
LEMMA RoundInside ==
  ASSUME TypeOK, InStep, pc \in {"loop", "add"}, result = "OK"
  PROVE  /\ j \in Places /\ i = 2 * j + 2 /\ i < ParamsNumber
         /\ Given(i) => 2 * j + 1 \in 1..Len(args) /\ Param(i) = Option(j + 1)
                        /\ Param(i) \in Arguments
         /\ Given(i + 1) => 2 * j + 2 \in 1..Len(args) /\ Param(i + 1) = Value(j + 1)
                            /\ Param(i + 1) \in Arguments
         /\ ~Given(i) => Len(args) < 2 * j + 1
         /\ ~Given(i + 1) => Len(args) < 2 * j + 2
<1> USE DEF TypeOK
<1>1. Len(args) \in Nat /\ j \in Nat /\ \A n \in 1..Len(args) : args[n] \in Arguments
  OBVIOUS
<1>2. i = 2 * j + 2 /\ 2 * j <= Len(args) + 1
  BY DEF InStep
<1>3. j \in Places /\ i < ParamsNumber
  BY <1>1, <1>2, PlacesAre
<1>4. i - 1 = 2 * j + 1 /\ (i + 1) - 1 = 2 * j + 2 /\ 2 * (j + 1) - 1 = 2 * j + 1
      /\ 2 * (j + 1) = 2 * j + 2
  BY <1>1, <1>2
<1>5. Param(i) = Option(j + 1) /\ Param(i + 1) = Value(j + 1)
  BY <1>4 DEF Param, Option, Value
<1> QED BY <1>1, <1>2, <1>3, <1>4, <1>5 DEF Given, Param

-----------------------------------------------------------------------------
(* A round that enters an option and goes on *)

\* The loop's next place is free of END, and no END was passed.
LEMMA EndStaysAhead ==
  ASSUME TypeOK, InStep, NothingPassed, pc = "loop", result = "OK",
         Given(i), Param(i) # CURLFORM_END
  PROVE  \A k \in EndPlaces : k > j + 1
<1>1. Option(j + 1) # CURLFORM_END
  BY RoundInside
<1>2. \A k \in EndPlaces : k > j /\ Option(k) = CURLFORM_END /\ k \in Nat
  BY DEF NothingPassed, EndPlaces
<1>3. j \in Nat
  BY DEF TypeOK
<1> QED BY <1>1, <1>2, <1>3

\* If a round enters its option with a value that means what it should, and fills no
\* other place, the invariant holds for the next round.
LEMMA RoundKeeps ==
  ASSUME IInv, Round, Param(i) # CURLFORM_END, NEW value \in Pointer,
         Enter(value), Advance, UNCHANGED <<args, pc, handed>>,
         strings' \in [Places -> Arguments \cup {Unset}],
         \A k \in Places : k # j => strings'[k] = strings[k],
         result' \in {"OK", "INCOMPLETE"},
         result' = "OK" => /\ Content(value)' = HandedValue(Option(j + 1), Value(j + 1))
                           /\ value.to = "strings" => value.at = j
  PROVE  IInv'
<1> USE DEF IInv
<1>1. /\ TypeOK /\ pc = "loop" /\ result = "OK" /\ Given(i)
      /\ j \in Places /\ j \in Nat /\ i = 2 * j + 2 /\ 2 * j + 1 \in 1..Len(args)
      /\ Param(i) = Option(j + 1) /\ Param(i) \in Arguments /\ Len(args) \in Nat
  BY RoundInside DEF Round, TypeOK
<1>2. /\ i' = i + 2 /\ j' = j + 1 /\ Places' = Places
      /\ arr' = [arr EXCEPT ![j] = [option |-> Param(i), value |-> value]]
  BY DEF Advance, Enter, Places, ParamsNumber
<1>3. TypeOK'
  <2>1. arr' \in [Places -> [option : Arguments \cup {Unset}, value : Pointer]]
    BY <1>1, <1>2 DEF TypeOK
  <2>2. i' \in Nat /\ j' \in Nat
    BY <1>1, <1>2
  <2> QED BY <1>1, <1>2, <2>1, <2>2, CodeAssumption DEF TypeOK
<1>4. InStep'
  BY <1>1, <1>2 DEF InStep
<1>5. ASSUME result' = "OK" PROVE \A k \in Places : k < j + 1 => Filled(k)'
  <2> SUFFICES ASSUME NEW k \in Places, k < j + 1 PROVE Filled(k)'
    OBVIOUS
  <2>1. k \in Nat /\ Option(k + 1)' = Option(k + 1) /\ Value(k + 1)' = Value(k + 1)
    BY <1>1, PlacesAre DEF TypeOK, Option, Value
  <2>2. CASE k = j
    <3>1. arr'[k] = [option |-> Param(i), value |-> value]
      BY <1>1, <1>2, <2>2 DEF TypeOK
    <3>2. Content(arr[k].value)' = Content(value)'
      BY <3>1 DEF Content
    <3> QED BY <1>1, <1>5, <2>1, <2>2, <3>1, <3>2 DEF Filled
  <2>3. CASE k < j
    <3>1. arr'[k] = arr[k] /\ Filled(k) /\ arr[k].value \in Pointer
      BY <1>1, <1>2, <2>1, <2>3 DEF TypeOK, PlacesFilled
    <3>2. strings'[k] = strings[k]
      BY <1>1, <2>1, <2>3
    <3>3. Content(arr[k].value)' = Content(arr[k].value)
      BY <3>1, <3>2 DEF Content, Filled, Pointer
    <3> QED BY <2>1, <3>1, <3>3 DEF Filled
  <2> QED BY <1>1, <2>1, <2>2, <2>3
<1>6. \A k \in Places : k >= j + 1 => arr'[k].value = Nowhere
  <2> SUFFICES ASSUME NEW k \in Places, k >= j + 1 PROVE arr'[k].value = Nowhere
    OBVIOUS
  <2>1. k \in Nat /\ k # j /\ k >= j
    BY <1>1, PlacesAre DEF TypeOK
  <2>2. arr'[k] = arr[k]
    BY <1>1, <1>2, <2>1 DEF TypeOK
  <2> QED BY <1>1, <2>1, <2>2 DEF PlacesFilled
<1>7. PlacesFilled'
  BY <1>2, <1>5, <1>6 DEF PlacesFilled
<1>8. EndEntered' /\ HandsOverPairs'
  BY <1>1 DEF EndEntered, HandsOverPairs, NothingPassed
<1>9. NothingPassed'
  <2>1. EndPlaces' = EndPlaces
    BY DEF EndPlaces, Option
  <2> QED BY <1>1, <1>2, <2>1, EndStaysAhead DEF NothingPassed
<1> QED BY <1>3, <1>4, <1>7, <1>8, <1>9

-----------------------------------------------------------------------------
(* The actions *)

LEMMA InitKeeps == Init => IInv
<1> SUFFICES ASSUME Init PROVE IInv
  OBVIOUS
<1> USE DEF Init
<1>1. args \in Seq(Arguments) /\ Len(args) \in Nat
  BY CallAssumption
<1>2. TypeOK
  <2>1. arr \in [Places -> [option : Arguments \cup {Unset}, value : Pointer]]
    BY DEF Pointer, Nowhere
  <2> QED BY <1>1, <2>1, CodeAssumption DEF TypeOK
<1>3. InStep
  BY <1>1 DEF InStep
<1>4. PlacesFilled
  BY <1>1, PlacesAre DEF PlacesFilled
<1>5. EndEntered /\ HandsOverPairs
  BY DEF EndEntered, HandsOverPairs
<1>6. NothingPassed
  <2>1. \A k \in EndPlaces : k \in Nat /\ k > 0
    BY DEF EndPlaces
  <2> QED BY <2>1 DEF NothingPassed
<1> QED BY <1>2, <1>3, <1>4, <1>5, <1>6 DEF IInv

LEMMA ReadTextKeeps == IInv /\ ReadText => IInv'
<1> SUFFICES ASSUME IInv, ReadText PROVE IInv'
  OBVIOUS
<1>1. /\ TypeOK /\ Round /\ pc = "loop" /\ result = "OK" /\ j \in Places /\ j \in Nat
      /\ Param(i) \in TextOptions /\ Param(i) = Option(j + 1)
      /\ Param(i + 1) \in Arguments /\ Param(i + 1) = Value(j + 1)
  BY RoundInside DEF IInv, ReadText, Round, TypeOK
<1>2. Param(i) # CURLFORM_END
  BY <1>1, OptionAssumption
<1> PICK value \in Pointer : value = [to |-> "strings", at |-> j]
  BY <1>1 DEF Pointer
<1>3. Enter(value) /\ Advance /\ UNCHANGED <<args, pc, result, handed>>
  BY DEF ReadText
<1>4. /\ strings' = [strings EXCEPT ![j] = Param(i + 1)]
      /\ strings' \in [Places -> Arguments \cup {Unset}]
      /\ strings'[j] = Value(j + 1)
      /\ \A k \in Places : k # j => strings'[k] = strings[k]
  BY <1>1 DEF ReadText, TypeOK
<1>5. value.to = "strings" /\ value.at = j
  OBVIOUS
<1>6. Content(value)' = HandedValue(Option(j + 1), Value(j + 1))
  <2>1. Content(value)' = strings'[j]
    BY <1>5 DEF Content
  <2>2. HandedValue(Option(j + 1), Value(j + 1)) = Value(j + 1)
    BY <1>1 DEF HandedValue
  <2> QED BY <1>4, <2>1, <2>2
<1> QED BY <1>1, <1>2, <1>3, <1>4, <1>5, <1>6, RoundKeeps

LEMMA ReadListKeeps == IInv /\ ReadList => IInv'
<1> SUFFICES ASSUME IInv, ReadList PROVE IInv'
  OBVIOUS
<1>1. /\ TypeOK /\ Round /\ pc = "loop" /\ result = "OK" /\ j \in Places
      /\ Param(i) = CURLFORM_CONTENTHEADER /\ Param(i) = Option(j + 1)
      /\ Param(i) # CURLFORM_END /\ Param(i) \notin TextOptions
  BY RoundInside, OptionAssumption DEF IInv, ReadList, Round
<1>2. /\ Advance /\ UNCHANGED <<args, pc, strings, handed>>
      /\ strings' \in [Places -> Arguments \cup {Unset}]
  BY <1>1 DEF ReadList, TypeOK
<1>3. CASE Enter([to |-> "list", at |-> 0]) /\ UNCHANGED result
  <2> DEFINE value == [to |-> "list", at |-> 0]
  <2>1. value \in Pointer /\ value.to = "list" /\ Enter(value)
    BY <1>3 DEF Pointer
  <2>2. Content(value)' = Wrapper
    BY DEF Content
  <2>3. HandedValue(Option(j + 1), Value(j + 1)) = Wrapper
    BY <1>1 DEF HandedValue
  <2> HIDE DEF value
  <2> QED BY <1>1, <1>2, <1>3, <2>1, <2>2, <2>3, RoundKeeps
<1>4. CASE Enter(arr[j].value) /\ result' = "INCOMPLETE"
  <2> PICK value \in Pointer : value = arr[j].value
    BY <1>1 DEF TypeOK
  <2>1. Enter(value)
    BY <1>4
  <2> QED BY <1>1, <1>2, <1>4, <2>1, RoundKeeps
<1> QED BY <1>3, <1>4 DEF ReadList

LEMMA ReadOtherKeeps == IInv /\ ReadOther => IInv'
<1> SUFFICES ASSUME IInv, ReadOther PROVE IInv'
  OBVIOUS
<1>1. /\ TypeOK /\ Round /\ pc = "loop" /\ result = "OK" /\ j \in Places /\ j >= j
      /\ Param(i) \in Others /\ Param(i) = Option(j + 1)
  BY RoundInside DEF IInv, ReadOther, Round, TypeOK
<1>2. /\ Param(i) # CURLFORM_END /\ Param(i) \notin TextOptions
      /\ Param(i) # CURLFORM_CONTENTHEADER
  BY <1>1, OptionAssumption
<1>3. /\ Enter(Nowhere) /\ Advance /\ UNCHANGED <<args, pc, strings, result, handed>>
      /\ strings' \in [Places -> Arguments \cup {Unset}] /\ Nowhere \in Pointer
  BY <1>1 DEF ReadOther, TypeOK, IInv, PlacesFilled, Nowhere, Pointer
<1>4. Content(Nowhere)' = Unset /\ Nowhere.to # "strings"
  BY DEF Content, Nowhere
<1>5. HandedValue(Option(j + 1), Value(j + 1)) = Unset
  BY <1>1, <1>2 DEF HandedValue
<1> QED BY <1>1, <1>2, <1>3, <1>4, <1>5, RoundKeeps

LEMMA ReadEndKeeps == IInv /\ ReadEnd => IInv'
<1> SUFFICES ASSUME IInv, ReadEnd PROVE IInv'
  OBVIOUS
<1> USE DEF IInv
<1>1. /\ TypeOK /\ pc = "loop" /\ result = "OK" /\ j \in Places /\ j \in Nat /\ i = 2 * j + 2
      /\ Param(i) = CURLFORM_END /\ Param(i) = Option(j + 1) /\ Param(i) \in Arguments
      /\ 2 * j + 1 \in 1..Len(args)
  BY RoundInside DEF ReadEnd, Round, TypeOK
<1>2. /\ pc' = "add" /\ UNCHANGED <<args, i, j, strings, result, handed>> /\ Places' = Places
      /\ arr' = [arr EXCEPT ![j] = [option |-> Param(i), value |-> arr[j].value]]
  BY DEF ReadEnd, Enter, Places, ParamsNumber
<1>3. /\ arr' \in [Places -> [option : Arguments \cup {Unset}, value : Pointer]]
      /\ arr'[j].option = CURLFORM_END /\ arr'[j].value = arr[j].value
      /\ \A k \in Places : k # j => arr'[k] = arr[k]
  BY <1>1, <1>2 DEF TypeOK
<1>4. TypeOK' /\ InStep' /\ EndEntered' /\ NothingPassed' /\ HandsOverPairs'
  BY <1>1, <1>2, <1>3
     DEF TypeOK, InStep, EndEntered, NothingPassed, HandsOverPairs, Option
<1>5. PlacesFilled'
  <2>1. ASSUME NEW k \in Places, k < j PROVE Filled(k)'
    <3>1. arr'[k] = arr[k] /\ Filled(k)
      BY <1>1, <1>3, <2>1 DEF PlacesFilled
    <3> QED BY <1>2, <3>1 DEF Filled, Content, Option, Value, HandedValue
  <2>2. ASSUME NEW k \in Places, k >= j PROVE arr'[k].value = Nowhere
    BY <1>1, <1>3, <2>2 DEF PlacesFilled
  <2> QED BY <1>2, <2>1, <2>2 DEF PlacesFilled
<1> QED BY <1>4, <1>5

LEMMA OverrunKeeps == IInv /\ Overrun => IInv'
<1> SUFFICES ASSUME IInv, Overrun PROVE IInv'
  OBVIOUS
<1> USE DEF IInv
<1>1. /\ TypeOK /\ pc = "loop" /\ result = "OK" /\ pc' = "undefined" /\ j \in Nat
      /\ Len(args) \in Nat /\ UNCHANGED <<args, i, j, strings, arr, result, handed>>
  BY DEF Overrun, TypeOK
<1>2. TypeOK' /\ InStep' /\ PlacesFilled' /\ EndEntered' /\ HandsOverPairs'
  BY <1>1 DEF TypeOK, InStep, PlacesFilled, EndEntered, HandsOverPairs, Places, ParamsNumber,
              NothingPassed
<1>3. \A k \in EndPlaces : k \in Nat /\ k > j /\ 2 * k - 1 <= Len(args)
                           /\ Option(k) = CURLFORM_END
  BY <1>1 DEF NothingPassed, EndPlaces
<1>4. EndPlaces = {}
  <2>1. CASE ~Given(i)
    <3>1. Len(args) < 2 * j + 1
      BY <1>1, <2>1, RoundInside
    <3> QED BY <1>1, <1>3, <3>1
  <2>2. CASE Given(i) /\ Param(i) \in TextOptions \cup {CURLFORM_CONTENTHEADER} /\ ~Given(i + 1)
    <3>1. Len(args) < 2 * j + 2 /\ Option(j + 1) # CURLFORM_END
      BY <1>1, <2>2, RoundInside, OptionAssumption
    <3>2. \A k \in EndPlaces : k = j + 1
      BY <1>1, <1>3, <3>1
    <3> QED BY <1>3, <3>1, <3>2
  <2> QED BY <2>1, <2>2 DEF Overrun
<1>5. NothingPassed'
  BY <1>1, <1>4 DEF NothingPassed, EndPlaces, Option
<1> QED BY <1>2, <1>5

\* The loop's own test never ends it with CURL_FORMADD_OK.
LEMMA LoopEndsKeeps == IInv /\ LoopEnds => IInv'
<1> SUFFICES ASSUME IInv, LoopEnds PROVE IInv'
  OBVIOUS
<1> USE DEF IInv
<1>1. TypeOK /\ pc = "loop" /\ UNCHANGED <<args, i, j, strings, arr, result, handed>>
  BY DEF LoopEnds
<1>2. result # "OK" /\ pc' = "returned"
  BY <1>1, RoundInside DEF LoopEnds
<1> QED BY <1>1, <1>2
        DEF TypeOK, InStep, PlacesFilled, EndEntered, NothingPassed, HandsOverPairs,
            Places, ParamsNumber

LEMMA SetArrayKeeps == IInv /\ SetArray => IInv'
<1> SUFFICES ASSUME IInv, SetArray PROVE IInv'
  OBVIOUS
<1> USE DEF IInv
<1>1. /\ TypeOK /\ pc = "add" /\ result = "OK" /\ j \in Places /\ j \in Nat
      /\ Len(args) \in Nat /\ 2 * j + 1 \in 1..Len(args)
      /\ Option(j + 1) = CURLFORM_END /\ arr[j].option = CURLFORM_END
      /\ UNCHANGED <<args, i, j, strings, arr>>
  BY RoundInside DEF SetArray, EndEntered, TypeOK
<1>2. \A k \in 0..(j - 1) : k \in Places /\ Filled(k) /\ arr[k].option # CURLFORM_END
  <2>1. \A k \in 0..(j - 1) : k \in Places /\ k < j
    BY <1>1, PlacesAre DEF TypeOK
  <2> QED BY <1>1, <2>1 DEF PlacesFilled, Filled
<1>3. EndsAt(j)
  BY <1>1, <1>2 DEF EndsAt
<1>4. \A e \in Places : EndsAt(e) => e = j
  <2> SUFFICES ASSUME NEW e \in Places, EndsAt(e) PROVE e = j
    OBVIOUS
  <2>1. e \in Nat
    BY <1>1, PlacesAre DEF TypeOK
  <2>2. ~ (e < j)
    BY <1>1, <1>2, <2>1 DEF EndsAt
  <2>3. ~ (j < e)
    BY <1>1, <2>1 DEF EndsAt
  <2> QED BY <1>1, <2>1, <2>2, <2>3
<1>5. /\ handed' = [k \in 1..j |-> [option |-> arr[k - 1].option,
                                    value |-> Content(arr[k - 1].value)]]
      /\ result' \in Codes /\ pc' = "returned"
  BY <1>1, <1>3, <1>4 DEF SetArray
<1>6. \A k \in 1..j : /\ k - 1 \in 0..(j - 1) /\ (k - 1) + 1 = k
                      /\ arr[k - 1].option = Option(k) /\ Option(k) # CURLFORM_END
                      /\ Content(arr[k - 1].value) = HandedValue(Option(k), Value(k))
                      /\ Option(k) \in Arguments \cup {Unset}
  <2> SUFFICES ASSUME NEW k \in 1..j
               PROVE /\ k - 1 \in 0..(j - 1) /\ (k - 1) + 1 = k
                     /\ arr[k - 1].option = Option(k) /\ Option(k) # CURLFORM_END
                     /\ Content(arr[k - 1].value) = HandedValue(Option(k), Value(k))
                     /\ Option(k) \in Arguments \cup {Unset}
    OBVIOUS
  <2>1. k - 1 \in 0..(j - 1) /\ (k - 1) + 1 = k
    BY <1>1
  <2>2. Filled(k - 1) /\ k - 1 \in Places
    BY <1>2, <2>1
  <2>3. arr[k - 1].option \in Arguments \cup {Unset}
    BY <1>1, <2>2 DEF TypeOK
  <2> QED BY <2>1, <2>2, <2>3 DEF Filled
<1>7. Len(handed') = j /\ \A k \in 1..j : handed'[k] = [option |-> Option(k),
                                            value |-> HandedValue(Option(k), Value(k))]
  BY <1>1, <1>5, <1>6
<1>8. TypeOK'
  <2>1. \A k \in 1..j : Content(arr[k - 1].value) \in Arguments \cup {Unset, Wrapper}
    <3> SUFFICES ASSUME NEW k \in 1..j
                 PROVE HandedValue(Option(k), Value(k)) \in Arguments \cup {Unset, Wrapper}
      BY <1>6
    <3>1. 2 * k \in 1..Len(args)
      BY <1>1
    <3>2. Value(k) \in Arguments
      BY <1>1, <3>1 DEF Value, TypeOK
    <3> QED BY <3>2 DEF HandedValue
  <2>2. handed' \in Seq([option : Arguments \cup {Unset},
                         value : Arguments \cup {Unset, Wrapper}])
    <3> DEFINE Pairs == [option : Arguments \cup {Unset}, value : Arguments \cup {Unset, Wrapper}]
    <3>1. \A k \in 1..j : [option |-> arr[k - 1].option,
                           value |-> Content(arr[k - 1].value)] \in Pairs
      BY <1>6, <2>1
    <3>2. handed' \in [1..j -> Pairs]
      BY <1>5, <3>1
    <3> HIDE DEF Pairs
    <3>3. handed' \in Seq(Pairs)
      BY <1>1, <3>2
    <3> QED BY <3>3 DEF Pairs
  <2> QED BY <1>1, <1>5, <2>2 DEF TypeOK, Places, ParamsNumber
<1>9. HandsOverPairs'
  <2>1. j + 1 \in EndPlaces
    <3>1. j + 1 \in 1..Len(args) /\ 2 * (j + 1) - 1 <= Len(args)
      BY <1>1
    <3> QED BY <1>1, <3>1 DEF EndPlaces
  <2>2. \A k \in 1..j : k \notin EndPlaces
    BY <1>6 DEF EndPlaces
  <2>3. EndPlaces' = EndPlaces /\ \A k : Option(k)' = Option(k) /\ Value(k)' = Value(k)
    BY <1>1 DEF EndPlaces, Option, Value
  <2>4. \A k \in 1..j : (HandedValue(Option(k), Value(k)))' = HandedValue(Option(k), Value(k))
    BY <1>1 DEF HandedValue, Option, Value
  <2> QED BY <1>7, <2>1, <2>2, <2>3, <2>4 DEF HandsOverPairs
<1>10. InStep' /\ PlacesFilled' /\ EndEntered' /\ NothingPassed'
  BY <1>5 DEF InStep, PlacesFilled, EndEntered, NothingPassed
<1> QED BY <1>8, <1>9, <1>10

-----------------------------------------------------------------------------
(* Theorems *)

LEMMA NextKeeps == IInv /\ [Next]_vars => IInv'
<1> SUFFICES ASSUME IInv, [Next]_vars PROVE IInv'
  OBVIOUS
<1>1. CASE UNCHANGED vars
  BY <1>1 DEF vars, IInv, TypeOK, InStep, PlacesFilled, Filled, EndEntered, NothingPassed,
              HandsOverPairs, Places, ParamsNumber, Content, Option, Value, HandedValue, EndPlaces
<1> QED BY <1>1, ReadEndKeeps, ReadTextKeeps, ReadListKeeps, ReadOtherKeeps, OverrunKeeps,
           LoopEndsKeeps, SetArrayKeeps DEF Next

\* The invariant holds in every state of every call of curl_form_add.
THEOREM Invariant == Spec => []IInv
  BY InitKeeps, NextKeeps, PTL DEF Spec

\* The variables of curl_form_add have their types, pointers point into the strings.
THEOREM TypeCorrect == Spec => []TypeOK
<1>1. IInv => TypeOK
  BY DEF IInv
<1> QED BY <1>1, Invariant, PTL

\* What curl_formadd reads are the pairs before the first END, for calls of any length.
THEOREM PairsCorrect == Spec => []HandsOverPairs
<1>1. IInv => HandsOverPairs
  BY DEF IInv
<1> QED BY <1>1, Invariant, PTL

\* A call whose options end with END stays inside its arguments and its arrays.
THEOREM EndCorrect == Spec => []EndStopsReading
<1>1. IInv => EndStopsReading
  <2> SUFFICES ASSUME IInv, EndPlaces # {}
               PROVE pc # "undefined" /\ (pc = "loop" /\ result = "OK" => j \in Places)
    BY DEF EndStopsReading
  <2> QED BY RoundInside DEF IInv, NothingPassed
<1> QED BY <1>1, Invariant, PTL
=============================================================================
