----------------------------- MODULE MCAdmission -----------------------------
(* One run for two modules, Settings and Admission.  They meet only where     *)
(* Register reads the settings, which Admission lets be anything; so their    *)
(* states are explored one after the other and not as a product.              *)
EXTENDS Settings, Admission, TLC

VARIABLE part
vars == <<part, settingsVars, admissionVars>>

Init == part \in {"settings", "admission"} /\ SettingsInit /\ AdmissionInit
Next ==
    /\ UNCHANGED part
    /\ \/ part = "settings" /\ SettingsNext /\ UNCHANGED admissionVars
       \/ part = "admission" /\ AdmissionNext /\ UNCHANGED settingsVars
Spec == Init /\ [][Next]_vars

Alike == Permutations(Admins) \cup Permutations(Pages) \cup Permutations(Codes)
=============================================================================
