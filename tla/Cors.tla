--------------------------------- MODULE Cors ---------------------------------
(***************************************************************************)
(* The middlewares that judge where a request comes from: Cors             *)
(* (middleware/cors.rs), put together by CorsBuilder, and CsrfFilter       *)
(* (middleware/csrf.rs).  The application has one of them; a browser sends *)
(* a preflight, or any other request.                                      *)
(* Values of headers are model values: "none" for a header that is absent  *)
(* and "bad" for one that is no text.                                      *)
(***************************************************************************)
EXTENDS Integers, Sequences, FiniteSets

CONSTANTS
  Origins,    \* origins, as they appear in headers
  Methods     \* methods a request may have, among them "OPTIONS" and "GET"

VARIABLES
  builder,    \* CorsBuilder: the settings made so far
  cors,       \* <<>> while building, <<settings>> after it, <<"panic", "panic">> when it fails
  csrf,       \* <<settings>> of a CsrfFilter, <<>> if the application has Cors
  out         \* the last request and its answer

vars == <<builder, cors, csrf, out>>

Missing == {"none", "bad"}
Settings0 == [origins |-> {}, anyOrigin |-> TRUE, methods |-> {}, set |-> FALSE, error |-> FALSE,
              listed |-> FALSE, wildcard |-> FALSE, credentials |-> FALSE, preflight |-> TRUE,
              vary |-> TRUE, resources |-> FALSE, app |-> FALSE]
NoOut == [req |-> <<>>, status |-> "none", allow |-> "none", credentials |-> FALSE, vary |-> FALSE]

(* The filters CsrfFilter's methods make.                                  *)
CsrfFilter == [origins : SUBSET Origins, xhr : BOOLEAN, missing : BOOLEAN, upgrade : BOOLEAN]

(* Cors::build or Cors::for_app, or CsrfFilter::new with its setters.      *)
Init ==
  /\ builder \in {Settings0, [Settings0 EXCEPT !.app = TRUE]} /\ cors = <<>> /\ out = NoOut
  /\ csrf \in {<<>>} \cup {<<f>> : f \in CsrfFilter}

-----------------------------------------------------------------------------
(* The setters of CorsBuilder; with an error none of them does anything.   *)
Setting(b) ==
  csrf = <<>> /\ cors = <<>> /\ b # builder /\ builder' = b /\ UNCHANGED <<cors, csrf, out>>

AllowedOrigin(o) ==
  ~builder.error /\ Setting([builder EXCEPT !.origins = @ \cup {o}, !.anyOrigin = FALSE])
AllowedMethod(m) ==
  Setting([builder EXCEPT !.methods = IF builder.error THEN @ ELSE @ \cup {m}, !.set = TRUE])
BadValue == Setting([builder EXCEPT !.error = TRUE])
Flag(f) ==
  /\ ~builder.error
  /\ Setting(CASE f = "allowed_header" -> [builder EXCEPT !.listed = TRUE]
               [] f = "send_wildcard" -> [builder EXCEPT !.wildcard = TRUE]
               [] f = "supports_credentials" -> [builder EXCEPT !.credentials = TRUE]
               [] f = "disable_preflight" -> [builder EXCEPT !.preflight = FALSE]
               [] f = "disable_vary_header" -> [builder EXCEPT !.vary = FALSE])

(* resource: kept for register, with an error or without.                  *)
Resource == Setting([builder EXCEPT !.resources = TRUE])

(* construct: the default methods, and the settings it does not accept.    *)
WrongCredentials(b) == b.credentials /\ b.wildcard /\ b.anyOrigin
Construct(panics) ==
  /\ csrf = <<>> /\ cors = <<>>
  /\ cors' = IF panics \/ builder.error \/ WrongCredentials(builder) THEN <<"panic", "panic">>
             ELSE <<IF builder.set THEN builder ELSE [builder EXCEPT !.methods = Methods]>>
  /\ UNCHANGED <<builder, csrf, out>>

(* finish is for a builder without resources, register for one that has    *)
(* some and the application to put them in; the other panics.              *)
Finish == Construct(builder.resources)
Register == Construct(~builder.resources \/ ~builder.app)

-----------------------------------------------------------------------------
(* validate_origin                                                         *)
ValidateOrigin(c, origin) == IF c.anyOrigin THEN origin # "bad" ELSE origin \in c.origins

(* The header of a configuration with a list: the origins one after the    *)
(* other, with nothing between them.                                       *)
OriginsStr(c) == IF Cardinality(c.origins) = 1 THEN CHOOSE o \in c.origins : TRUE ELSE "several"

(* Access-Control-Allow-Origin of the answers of start and of response.    *)
AllowOrigin(c, origin) ==
  IF ~c.anyOrigin THEN OriginsStr(c) ELSE IF c.wildcard THEN "*" ELSE origin

(* Cors::start: a preflight is answered, after validate_allowed_method     *)
(* and validate_allowed_headers, another request goes on to the handler    *)
(* and to Cors::response; an error is answered without either.             *)
ValidateMethod(c, r) == r.asked \in c.methods
ValidateHeaders(c, r) == c.listed => r.headers = "allowed"
CheckedOriginLater(c, r) == (c.preflight /\ r.method = "OPTIONS") \/ ValidateOrigin(c, r.origin)
CheckedOrigin(c, r) == ValidateOrigin(c, r.origin)
IsPreflight(c, r) == c.preflight /\ r.method = "OPTIONS"
Granted(c, r, status) ==
  [req |-> r, status |-> status, allow |-> AllowOrigin(c, r.origin), credentials |-> c.credentials,
   vary |-> c.vary]
JudgeCors(c, r) ==
  IF \/ ~CheckedOrigin(c, r)
     \/ IsPreflight(c, r) /\ ~(ValidateMethod(c, r) /\ ValidateHeaders(c, r))
  THEN [NoOut EXCEPT !.req = r, !.status = "Refused"]
  ELSE IF IsPreflight(c, r) /\ c.anyOrigin /\ ~c.wildcard /\ r.origin = "none"
  THEN [NoOut EXCEPT !.req = r, !.status = "Panic"]
  ELSE Granted(c, r, IF IsPreflight(c, r) THEN "Preflight" ELSE "Handled")

(* CsrfFilter: the origin of a request, from Origin or from Referer, and   *)
(* validate.                                                               *)
OriginOf(r) == IF r.origin # "none" THEN r.origin ELSE r.referer
Validate(f, r) ==
  \/ r.method \in {"GET", "OPTIONS"} /\ (f.upgrade \/ ~r.upgrade)
  \/ f.xhr /\ r.xhr
  \/ OriginOf(r) \in f.origins
  \/ OriginOf(r) = "none" /\ f.missing
JudgeCsrf(f, r) == [NoOut EXCEPT !.req = r, !.status = IF Validate(f, r) THEN "Handled" ELSE "Refused"]

Request(r) ==
  /\ out' = IF csrf # <<>> THEN JudgeCsrf(csrf[1], r) ELSE JudgeCors(cors[1], r)
  /\ UNCHANGED <<builder, cors, csrf>>

Requests ==
  LET plain == [method |-> "GET", origin |-> "none", referer |-> "none", asked |-> "none",
                headers |-> "none", xhr |-> FALSE, upgrade |-> FALSE]
      values == Origins \cup Missing
  IN IF csrf # <<>>
     THEN {[plain EXCEPT !.method = m, !.origin = o, !.referer = e, !.xhr = x, !.upgrade = u] :
             m \in Methods, o \in values, e \in values, x \in BOOLEAN, u \in BOOLEAN}
     ELSE {[plain EXCEPT !.method = m, !.origin = o, !.asked = a, !.headers = h] :
             m \in Methods, o \in values, a \in Methods \cup Missing, h \in {"allowed", "other"} \cup Missing}

Next ==
  \/ \E o \in Origins : AllowedOrigin(o)
  \/ \E m \in Methods : AllowedMethod(m)
  \/ \E f \in {"allowed_header", "send_wildcard", "supports_credentials", "disable_preflight",
               "disable_vary_header"} : Flag(f)
  \/ BadValue \/ Resource \/ Finish \/ Register
  \/ /\ out = NoOut /\ (csrf # <<>> \/ Len(cors) = 1)
     /\ \E r \in Requests : Request(r)

Spec == Init /\ [][Next]_vars

-----------------------------------------------------------------------------
Answered == out.status # "none"
ByCors == Answered /\ csrf = <<>>

(* The values of the variables.                                            *)
TypeOK ==
  /\ out.status \in {"none", "Handled", "Preflight", "Refused", "Panic"}
  /\ out.allow \in Origins \cup {"none", "*", "several"}

(* Whom the filter lets through finds its own origin, or "*", in the       *)
(* answer: unless several origins are configured, whose header names none  *)
(* of them (cors.rs:815), or the request names none.                       *)
OriginGranted ==
  (ByCors /\ out.status \in {"Handled", "Preflight"} /\ out.req.origin # "none"
     /\ Cardinality(cors[1].origins) < 2) =>
        out.allow \in {out.req.origin, "*"}

(* Credentials are never offered to any origin at all: construct refuses   *)
(* the one setting that would (cors.rs:811).                               *)
NoOpenCredentials == ByCors => ~(out.allow = "*" /\ out.credentials)

(* A request that a preflight was granted for reaches the handler: the     *)
(* checks of the second request are among those of the first.              *)
PreflightKept ==
  (ByCors /\ out.status = "Preflight") =>
     LET r == [out.req EXCEPT !.method = out.req.asked, !.asked = "none"]
     IN r.method # "OPTIONS" => JudgeCors(cors[1], r).status = "Handled"

(* CsrfFilter lets a request that changes state through only from an       *)
(* allowed origin, by Origin before Referer; without either, or with       *)
(* X-Requested-With, only if configured (the list of csrf.rs:6).           *)
UnsafeFromAllowed ==
  (csrf # <<>> /\ out.status = "Handled" /\ out.req.method = "POST") =>
     LET r == out.req IN
     \/ r.origin \in csrf[1].origins
     \/ r.origin = "none" /\ r.referer \in csrf[1].origins
     \/ r.origin = "none" /\ r.referer = "none" /\ csrf[1].missing
     \/ r.xhr /\ csrf[1].xhr
=============================================================================
