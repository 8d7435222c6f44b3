------------------------------- MODULE FormAdd -------------------------------
(***************************************************************************)
(* base_curl.cpp, curl_form_add: how the arguments of a call become the    *)
(* array of options that curl_formadd gets, and which calls read past      *)
(* their arguments.                                                        *)
(*                                                                         *)
(* params[0] is the number of bytes of the arguments, four for each, and   *)
(* params[1] the form; args are those after it.  One action is one round   *)
(* of the loop.  An argument is a number or a string; a string in the      *)
(* place of an option is read as its first character, which is no option   *)
(* of the table, and a number in the place of a string as a string.        *)
(***************************************************************************)
EXTENDS Integers, Sequences

CONSTANTS
  StringOptions, CellOptions,  \* the options of opts.h with these types
  CURLFORM_CONTENTHEADER,      \* the one with a handle
  CURLFORM_END,
  Others,   \* strings, other numbers, and options that opts.h does not list
  Unset,    \* what memory held before
  Wrapper,  \* the CurlSList some handle stands for
  Codes,    \* what curl_formadd may return
  Calls     \* the argument lists plugins may call with

TextOptions == StringOptions \cup CellOptions
Arguments   == TextOptions \cup {CURLFORM_CONTENTHEADER, CURLFORM_END} \cup Others

ASSUME OptionAssumption ==
  /\ CURLFORM_END \notin TextOptions /\ CURLFORM_CONTENTHEADER \notin TextOptions
  /\ CURLFORM_CONTENTHEADER # CURLFORM_END
  /\ Others \cap (TextOptions \cup {CURLFORM_CONTENTHEADER, CURLFORM_END}) = {}
  /\ Unset \notin Arguments
ASSUME CallAssumption == Calls \subseteq Seq(Arguments)
ASSUME CodeAssumption == {"OK", "INCOMPLETE"} \subseteq Codes

VARIABLES
  args,    \* the arguments after the form
  pc,      \* in the loop, before SetArray, returned, or in undefined behaviour
  i, j,    \* place in params, place in arr
  strings, \* copies of the string arguments
  arr,     \* what goes to curl_formadd: for each place an option and a pointer
  result,  \* the code that will be returned
  handed   \* history: the options and values curl_formadd read

vars == <<args, pc, i, j, strings, arr, result, handed>>

\* Mutant: the number of arguments instead of their bytes.
CountedParams == Len(args) + 1

ParamsNumber == 4 * (Len(args) + 1)

\* The test for an odd number never succeeds.
Places == 0..((ParamsNumber - 2) \div 2 - 1)

Pointer == [to : {"strings", "list", "nowhere"}, at : Nat]
Nowhere == [to |-> "nowhere", at |-> 0]

Init ==
  /\ args \in Calls
  /\ pc = "loop" /\ i = 2 /\ j = 0
  /\ strings = [k \in Places |-> Unset]
  /\ arr = [k \in Places |-> [option |-> Unset, value |-> Nowhere]]
  /\ result = "OK" /\ handed = <<>>

Given(n) == n - 1 \in 1..Len(args)
Param(n) == args[n - 1]

\* The loop goes on with a round that finds an option.
Round == pc = "loop" /\ i < ParamsNumber /\ result = "OK" /\ Given(i)

\* Mutant: the value is not stepped over.
AdvanceOne == i' = i + 1 /\ j' = j + 1

\* The two increments of a round that is not the last.
Advance == i' = i + 2 /\ j' = j + 1

\* arr[j].option, and its value if the round gives it one.
Enter(value) == arr' = [arr EXCEPT ![j] = [option |-> Param(i), value |-> value]]

ReadEnd ==
  /\ Round /\ Param(i) = CURLFORM_END
  /\ Enter(arr[j].value)
  /\ pc' = "add"
  /\ UNCHANGED <<args, i, j, strings, result, handed>>

\* Mutant: one string serves all values.
ReadTextOnce ==
  /\ Round /\ Param(i) \in TextOptions /\ Given(i + 1)
  /\ strings' = [strings EXCEPT ![0] = Param(i + 1)]
  /\ Enter([to |-> "strings", at |-> 0])
  /\ Advance
  /\ UNCHANGED <<args, pc, result, handed>>

\* Mutant: the value points to the string of the pair before.
ReadTextBefore ==
  /\ Round /\ Param(i) \in TextOptions /\ Given(i + 1)
  /\ strings' = [strings EXCEPT ![j] = Param(i + 1)]
  /\ Enter([to |-> "strings", at |-> j - 1])
  /\ Advance
  /\ UNCHANGED <<args, pc, result, handed>>

\* The value of a string option is copied; so is that of a cell option, whose
\* number becomes the address of a string.
ReadText ==
  /\ Round /\ Param(i) \in TextOptions /\ Given(i + 1)
  /\ strings' = [strings EXCEPT ![j] = Param(i + 1)]
  /\ Enter([to |-> "strings", at |-> j])
  /\ Advance
  /\ UNCHANGED <<args, pc, result, handed>>

\* GetHandle gets the address of the argument, not the number there: seldom the
\* number of a list, and then of any.
ReadList ==
  /\ Round /\ Param(i) = CURLFORM_CONTENTHEADER /\ Given(i + 1)
  /\ \/ Enter([to |-> "list", at |-> 0]) /\ UNCHANGED result
     \/ Enter(arr[j].value) /\ result' = "INCOMPLETE"
  /\ Advance
  /\ UNCHANGED <<args, pc, strings, handed>>

\* An option of no type: its value stays what memory held.
ReadOther ==
  /\ Round /\ Param(i) \in Others
  /\ Enter(arr[j].value)
  /\ Advance
  /\ UNCHANGED <<args, pc, strings, result, handed>>

\* An option or a value is read behind the last argument.
Overrun ==
  /\ pc = "loop" /\ i < ParamsNumber /\ result = "OK"
  /\ \/ ~Given(i)
     \/ Given(i) /\ Param(i) \in TextOptions \cup {CURLFORM_CONTENTHEADER} /\ ~Given(i + 1)
  /\ pc' = "undefined"
  /\ UNCHANGED <<args, i, j, strings, arr, result, handed>>

LoopEnds ==
  /\ pc = "loop" /\ ~ (i < ParamsNumber /\ result = "OK")
  /\ pc' = IF result = "OK" THEN "add" ELSE "returned"
  /\ UNCHANGED <<args, i, j, strings, arr, result, handed>>

Content(pointer) ==
  IF pointer.to = "strings" THEN strings[pointer.at]
  ELSE IF pointer.to = "list" THEN Wrapper ELSE Unset

EndsAt(e) == arr[e].option = CURLFORM_END /\ \A k \in 0..(e - 1) : arr[k].option # CURLFORM_END

\* SetArray: curl_formadd reads arr up to CURLFORM_END, wherever that is.
SetArray ==
  /\ pc = "add"
  /\ IF \E e \in Places : EndsAt(e)
       THEN /\ \E e \in Places :
                 /\ EndsAt(e)
                 /\ handed' = [k \in 1..e |->
                      [option |-> arr[k - 1].option, value |-> Content(arr[k - 1].value)]]
            /\ result' \in Codes /\ pc' = "returned"
       ELSE pc' = "undefined" /\ UNCHANGED <<result, handed>>
  /\ UNCHANGED <<args, i, j, strings, arr>>

Next ==
  \/ ReadEnd \/ ReadText \/ ReadList \/ ReadOther \/ Overrun \/ LoopEnds
  \/ SetArray

Spec == Init /\ [][Next]_vars

-----------------------------------------------------------------------------
(* Properties *)

TypeOK ==
  /\ args \in Seq(Arguments)
  /\ pc \in {"loop", "add", "returned", "undefined"} /\ i \in Nat /\ j \in Nat
  /\ strings \in [Places -> Arguments \cup {Unset}]
  /\ arr \in [Places -> [option : Arguments \cup {Unset}, value : Pointer]]
  /\ result \in Codes
  /\ handed \in Seq([option : Arguments \cup {Unset}, value : Arguments \cup {Unset, Wrapper}])

\* An option stands at an odd place of the arguments, its value behind it.
Option(k) == args[2 * k - 1]
Value(k)  == args[2 * k]

\* What an option's value is: of a handle the CurlSList (base_curl.cpp:334), which is
\* a wrapper and not the list that curl_formadd asks for.
HandedValue(option, argument) ==
  IF option \in TextOptions THEN argument
  ELSE IF option = CURLFORM_CONTENTHEADER THEN Wrapper ELSE Unset

EndPlaces == {k \in 1..Len(args) : 2 * k - 1 <= Len(args) /\ Option(k) = CURLFORM_END}

\* What curl_formadd reads are the pairs of arguments before the first END, each
\* string with its own text, however the two counters, the copies and the array
\* were filled (base_curl.cpp, curl_form_add).  It does not say that libcurl can use
\* the value of CURLFORM_CONTENTHEADER.
HandsOverPairs ==
  handed # <<>> =>
    /\ Len(handed) + 1 \in EndPlaces
    /\ \A k \in 1..Len(handed) :
         /\ k \notin EndPlaces
         /\ handed[k] = [option |-> Option(k), value |-> HandedValue(Option(k), Value(k))]

\* params[0] counts bytes, so the loop's own test never ends it in time: but a
\* call whose options end with END never reads past its arguments or its array,
\* nor hands over an array that does not end.
EndStopsReading ==
  EndPlaces # {} => pc # "undefined" /\ (pc = "loop" /\ result = "OK" => j \in Places)
=============================================================================
