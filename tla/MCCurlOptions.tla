---------------------------- MODULE MCCurlOptions ----------------------------
(* Model-checking instances of CurlOptions. *)
EXTENDS CurlOptions, TLC

CONSTANTS c1, c2, c3, t1, t2, off, l1,
          URL, HTTPHEADER, WRITEDATA, READDATA

ThreeCurls == {c1, c2, c3}
TwoTexts   == {t1, t2}
OnOff      == {On, off}
OneList    == {l1}
TwoStrings == {URL, CURLOPT_POSTFIELDS}
OneCell    == {CURLOPT_NOSIGNAL}
OneHeader  == {HTTPHEADER}
Contexts   == {WRITEDATA, READDATA}
OptionSymmetry == Permutations(Curls) \cup Permutations(Texts)
=============================================================================
