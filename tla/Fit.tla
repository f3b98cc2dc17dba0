--------------------------------- MODULE Fit ---------------------------------
(***************************************************************************)
(* fit.py: the verification of a FIT, a signed token that permits a call   *)
(* in an investigation.  The steps run in order and without an await; the  *)
(* first that fails is the verdict.  PyJWT does the steps from signature   *)
(* to audience in one call, in the order given here.                       *)
(***************************************************************************)
EXTENDS Integers, Sequences

CONSTANTS
  None,    \* a claim or a datum that is absent
  Leeway,  \* seconds of grace on both ends of a FIT's validity
  AnyTool      \* a pattern that matches every tool name

ASSUME LeewayAssumption == Leeway \in Nat

(* A FIT has a typ, an issuer, the complete set of required claims or not, *)
(* a signature that is genuine or not, a validity, an aud, a jti, and what *)
(* it permits: an investigation, tools by patterns, an analyst, kinds of   *)
(* invocation.  A pattern that is not sound is no regular expression; a    *)
(* malformed claim has a value of a type or a size the code does not       *)
(* expect.  A call has the tool, the investigation and the client's        *)
(* identity, the settings of the server and the time.                      *)

(* Nothing is ever added to _REVOKED_JTIS.                                 *)
Revoked == {}

(* The claims are only looked at where they are used.                      *)
Sound(fit, claim) == claim \notin fit.malformed

(* A list of trusted issuers that is not set trusts all; it is one of      *)
(* names.                                                                  *)
IsTrustedIssuer(fit, call) ==
  call.trusted = {} \/ (fit.issuer \in call.trusted /\ Sound(fit, "issuer"))

(* nbf and exp, with the leeway of pyjwt.decode.                           *)
InWindow(fit, call) == fit.from <= call.now + Leeway /\ fit.until > call.now - Leeway

Matches(pattern, tool) == pattern.names \in {tool, AnyTool}

(* any() looks at the patterns in turn up to the first that matches, and   *)
(* raises if it comes to one that is no regular expression.                *)
Raises(patterns, tool) ==
  \E i \in DOMAIN patterns :
    /\ ~ patterns[i].sound
    /\ \A j \in 1 .. i : ~ Matches(patterns[j], tool)
AnyMatches(patterns, tool) == \E i \in DOMAIN patterns : Matches(patterns[i], tool)

(* A step of the name "raised" is one where an exception that is no        *)
(* FITVerificationError leaves the verification; the issuer's is that of   *)
(* its own address, unless FSS_FIT_ISSUER_JWKS_URL overrides it.           *)
Steps(fit, call, resolved) ==
  <<[name |-> "type", holds |-> fit.typ = "FIT+JWT"],
    [name |-> "issuer", holds |-> fit.issuer # None /\ IsTrustedIssuer(fit, call)],
    [name |-> "raised", holds |-> Sound(fit, "issuer")],
    [name |-> "key", holds |-> resolved],
    [name |-> "signature", holds |-> fit.genuine /\ fit.complete],
    [name |-> "window", holds |-> InWindow(fit, call)],
    [name |-> "signature", holds |-> call.server = None \/ fit.aud # None],
    [name |-> "audience", holds |-> fit.aud = call.server],
    [name |-> "revocation", holds |-> fit.jti \notin Revoked],
    [name |-> "investigation", holds |-> fit.investigation \in {None, call.investigation}
                                         \/ call.investigation = None],
    [name |-> "raised", holds |-> Sound(fit, "tools") /\ ~ Raises(fit.tools, call.tool)],
    [name |-> "tool", holds |-> fit.tools = << >> \/ AnyMatches(fit.tools, call.tool)],
    [name |-> "analyst", holds |-> fit.analyst \in {None, call.client} \/ call.client = None],
    [name |-> "raised", holds |-> Sound(fit, "kinds")],
    [name |-> "invocation", holds |-> fit.kinds = {} \/ call.kind \in fit.kinds],
    [name |-> "raised", holds |-> Sound(fit, "until")]>>

(* verify_fit: the step that fails, "raised" for the exception that is not *)
(* a FITVerificationError, or "verified".  resolved says that the issuer's *)
(* key was fetched.                                                        *)
Verdict(fit, call, resolved) ==
  LET steps == Steps(fit, call, resolved)
      failing == {i \in DOMAIN steps : ~ steps[i].holds}
  IN  IF failing = {} THEN "verified"
      ELSE steps[CHOOSE i \in failing : \A j \in failing : i <= j].name
=============================================================================
