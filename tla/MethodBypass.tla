---------------------------- MODULE MethodBypass ----------------------------
(***************************************************************************)
(* method_bypass: the retries of a denied path are other verbs, most of    *)
(* which ask the site to change state.  Whether the site does so is not in *)
(* the status the check sees: a write may be carried out and then answered *)
(* by a failure, by nothing, or by a redirect to some page                 *)
(* (Post/Redirect/Get).  So the model keeps where one was sent: any of     *)
(* those paths may have been changed, reported or not.  (A 307 or 308      *)
(* redirect, which carries the verb on to another path, is left out.)      *)
(***************************************************************************)
EXTENDS BypassLoop, Sequences

\* Mutant of bypassMethods: the writing verbs come first.
bypassMethodsWritesFirst == <<"POST", "PUT", "PATCH", "DELETE", "HEAD",
                              "OPTIONS">>

\* bypassMethods, in order.
bypassMethods == <<"HEAD", "POST", "PUT", "PATCH", "DELETE", "OPTIONS">>

\* RFC 9110: the verbs that ask the site to change state.
UnsafeMethods == {"POST", "PUT", "PATCH", "DELETE"}

ASSUME MethodAssumption == NV <= Len(bypassMethods)

VARIABLE sentTo   \* paths that were sent an unsafe verb

methodVars == <<vars, sentTo>>

MethodTypeOK ==
  /\ TypeOK
  /\ sentTo \subseteq Paths

MethodInit ==
  /\ Init
  /\ sentTo = {}

\* The verb of the request about to be sent asks the site to change state.
Unsafe == request # 0 /\ bypassMethods[request] \in UnsafeMethods

\* A retry is sent, whatever becomes of it.
TryMethod ==
  /\ TryRetry
  /\ sentTo' = IF Unsafe THEN sentTo \cup {path} ELSE sentTo

Probe == \/ ProbeBaseline \/ ProbeFails \/ ReturnResult \/ Drift

MethodNext == \/ TryMethod
              \/ Probe /\ UNCHANGED sentTo

\* The check's own steps go on; the site need not change.
MethodCheckStep == \/ TryMethod
                   \/ /\ ProbeBaseline \/ ProbeFails \/ ReturnResult
                      /\ UNCHANGED sentTo

MethodSpec ==
  MethodInit /\ [][MethodNext]_methodVars /\ WF_methodVars(MethodCheckStep)

----------------------------------------------------------------------------
\* An unsafe verb is sent only to a path whose plain GET was denied and whose
\* safe verb, HEAD, did not get through, each at some time of the run; against
\* a stable site a path that is open to GET or HEAD is never written to.
OnlyDeniedPathsAreWritten ==
  \A p \in sentTo : /\ \E a \in ever[p][0] : denied(Seen(a))
                    /\ \E a \in ever[p][1] : ~granted(Seen(a))
=============================================================================
