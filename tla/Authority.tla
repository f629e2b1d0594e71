------------------------------ MODULE Authority ------------------------------
(***************************************************************************)
(* The authority predicate (authority.py): whether a described action would *)
(* be authorized under a host's policy, and every reason why not.  It keeps *)
(* no state.                                                                *)
(***************************************************************************)
EXTENDS Naturals, Sequences, TLAPS

CONSTANTS Digests,   \* canonical digests
          Malformed  \* any value that is none of those that a field may have

EpistemicStatuses == {"fact", "claim", "hypothesis"}
EffectClasses     == {"pure", "consequential"}
Null              == "null"

Request == [epistemicStatus        : EpistemicStatuses \cup {Malformed},
            independentlyValidated : BOOLEAN,
            effectClass            : EffectClasses \cup {Malformed},
            consentRequired        : BOOLEAN,
            actionDigest           : Digests \cup {Malformed},
            consentDigest          : Digests \cup {Null, Malformed}]

(* The effects that a host lists. *)
Policy == Seq(EffectClasses \cup {Malformed})

Listed(allowed) == {allowed[i] : i \in DOMAIN allowed}

Accepted(request, allowed) ==
  /\ request.epistemicStatus \in EpistemicStatuses
  /\ request.effectClass \in EffectClasses
  /\ request.actionDigest \in Digests
  /\ request.consentDigest \in Digests \cup {Null}
  /\ Listed(allowed) \subseteq EffectClasses
  /\ \A i, j \in DOMAIN allowed : allowed[i] = allowed[j] => i = j

NeedsConsent(request) == request.effectClass = "consequential" /\ request.consentRequired

(* The reasons against an action, each with the condition that gives it. *)
Against(request, allowed) ==
  [E_AUTHORITY_EPISTEMIC  |-> request.epistemicStatus # "fact",
   E_AUTHORITY_EFFECT     |-> request.effectClass \notin Listed(allowed),
   E_AUTHORITY_VALIDATION |-> request.effectClass = "consequential" /\ ~request.independentlyValidated,
   E_AUTHORITY_CONSENT    |-> NeedsConsent(request) /\ request.consentDigest # request.actionDigest]

Reasons(request, allowed) ==
  {reason \in DOMAIN Against(request, allowed) : Against(request, allowed)[reason]}

Authorized(request, allowed) ==
  Accepted(request, allowed) /\ Reasons(request, allowed) = {}

-----------------------------------------------------------------------------
(* What the bounded enumeration of the repository expects of it
   (scripts/run_bounded_models.py, its variable "expected"). *)
Expected(request, allowed) ==
  /\ request.epistemicStatus = "fact"
  /\ request.effectClass \in Listed(allowed)
  /\ \/ request.effectClass = "pure"
     \/ /\ request.independentlyValidated
        /\ ~request.consentRequired \/ request.consentDigest = request.actionDigest

(* The predicate authorizes, of the inputs that it accepts, exactly those that
   the repository's bounded enumeration expects (evaluate_authority). *)
AuthorizesAsExpected(request, allowed) ==
  Accepted(request, allowed) =>
    (Authorized(request, allowed) <=> Expected(request, allowed))

(* A consent is bound to one action: no two consequential actions that need
   consent are authorized by the same one (evaluate_authority). *)
ConsentIsForOneAction(one, two, allowed) ==
  /\ Authorized(one, allowed) /\ Authorized(two, allowed)
  /\ NeedsConsent(one) /\ NeedsConsent(two)
  /\ one.consentDigest = two.consentDigest
  => one.actionDigest = two.actionDigest

-----------------------------------------------------------------------------

(* There is no reason against an action when none of the four conditions holds. *)
LEMMA NoReasons ==
  ASSUME NEW request, NEW allowed
  PROVE  Reasons(request, allowed) = {} <=>
           /\ request.epistemicStatus = "fact"
           /\ request.effectClass \in Listed(allowed)
           /\ ~(request.effectClass = "consequential" /\ ~request.independentlyValidated)
           /\ ~(NeedsConsent(request) /\ request.consentDigest # request.actionDigest)
  <1>1. DOMAIN Against(request, allowed) =
          {"E_AUTHORITY_EPISTEMIC", "E_AUTHORITY_EFFECT",
           "E_AUTHORITY_VALIDATION", "E_AUTHORITY_CONSENT"}
    BY DEF Against
  <1>2. /\ Against(request, allowed)["E_AUTHORITY_EPISTEMIC"] <=> request.epistemicStatus # "fact"
        /\ Against(request, allowed)["E_AUTHORITY_EFFECT"] <=>
             request.effectClass \notin Listed(allowed)
        /\ Against(request, allowed)["E_AUTHORITY_VALIDATION"] <=>
             request.effectClass = "consequential" /\ ~request.independentlyValidated
        /\ Against(request, allowed)["E_AUTHORITY_CONSENT"] <=>
             NeedsConsent(request) /\ request.consentDigest # request.actionDigest
    BY DEF Against
  <1> QED BY <1>1, <1>2 DEF Reasons

(* For every set of digests, the predicate is the one that the repository's
   bounded enumeration expects. *)
THEOREM AuthorizedExactly ==
  ASSUME NEW request \in Request, NEW allowed \in Policy
  PROVE  AuthorizesAsExpected(request, allowed)
  <1>1. SUFFICES ASSUME Accepted(request, allowed)
                 PROVE  Authorized(request, allowed) <=> Expected(request, allowed)
    BY DEF AuthorizesAsExpected
  <1>2. request.effectClass \in {"pure", "consequential"}
    BY <1>1 DEF Accepted, EffectClasses
  <1>3. request.independentlyValidated \in BOOLEAN /\ request.consentRequired \in BOOLEAN
    BY DEF Request
  <1> QED BY <1>1, <1>2, <1>3, NoReasons DEF Authorized, Expected, NeedsConsent

(* For every set of digests, one consent never authorizes two actions. *)
THEOREM OneConsentOneAction ==
  ASSUME NEW one \in Request, NEW two \in Request, NEW allowed \in Policy
  PROVE  ConsentIsForOneAction(one, two, allowed)
  BY NoReasons DEF Authorized, ConsentIsForOneAction
=============================================================================
