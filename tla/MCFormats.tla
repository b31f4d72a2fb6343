------------------------------ MODULE MCFormats ------------------------------
(***************************************************************************)
(* Offline export, the hashtag cache and forecasts for TLC.  They share no *)
(* state and call none of each other, so nothing is lost when in each      *)
(* behaviour only one of them is at work.                                  *)
(***************************************************************************)
EXTENDS OfflineExport, HashtagCache, WeatherCache, TLC

VARIABLE part  \* which of them

formatsVars == <<part, vars, tagVars, weatherVars>>

FormatsInit ==
    /\ part \in {"exports", "hashtags", "weather"}
    /\ Init /\ TagInit /\ WeatherInit

FormatsNext ==
    /\ UNCHANGED part
    /\ \/ part = "exports" /\ Next /\ UNCHANGED <<tagVars, weatherVars>>
       \/ part = "hashtags" /\ TagNext /\ UNCHANGED <<vars, weatherVars>>
       \/ part = "weather" /\ WeatherNext /\ UNCHANGED <<vars, tagVars>>

FormatsSpec == FormatsInit /\ [][FormatsNext]_formatsVars

\* Readers and requests for a forecast have the same names.
Symmetry == Permutations(Format) \cup Permutations(TagReader)

\* The types of all of them.
FormatTypesOK == TypeOK /\ TagTypeOK /\ WeatherTypeOK

===============================================================================
