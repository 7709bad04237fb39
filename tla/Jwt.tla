-------------------------------- MODULE Jwt --------------------------------
(***************************************************************************)
(* JwtUtil (src/src/util/jwt.cpp): tokens that are signed, verified, and   *)
(* signed anew from what verify() has returned.                            *)
(*                                                                         *)
(* jwt-cpp is not in the repository.  What is used of it: a date is stored *)
(* in whole seconds; a claim that is set again replaces the one before;    *)
(* verify() accepts a token of its key from the iat to the exp it has.     *)
(* Time is counted in Ticks of a second.  What verify() returns has been   *)
(* parsed by leptjson, which keeps an integer in an int.                   *)
(***************************************************************************)
EXTENDS Integers, FiniteSets

CONSTANTS
  Keys,       \* the secrets
  Expires,    \* values of expires_seconds
  MaxAges,    \* values of maxAge_hours
  Tick,       \* ticks of a second
  Hour,       \* seconds of an hour
  Half,       \* half the values of an int: 2^31, small in an instance
  None,       \* the value of a claim that is not there
  MaxTime,    \* bound: the clock, in ticks
  MaxTokens   \* bound: tokens that are signed

ASSUME TimeAssumption == Tick \in Nat \ {0} /\ Hour \in Nat \ {0} /\ MaxTime \in Nat

ASSUME ClaimAssumption == Half \in Nat \ {0} /\ None \notin Int

(* expires_seconds and maxAge_hours are int.                                *)
ASSUME ArgumentsAssumption == Expires \subseteq Int /\ MaxAges \subseteq Int

VARIABLES
  now,       \* system_clock
  tokens,    \* the tokens signed: their claims iat and exp, their key, and,
             \* as history, whether the payload was one that verify() had
             \* returned, and when the first of its tokens was signed, and
             \* for how long
  payloads,  \* what verify() has returned
  accepted   \* history: the last call of verify() that returned; {} if none

jwtVars == <<now, tokens, payloads, accepted>>

JwtInit ==
  /\ now = 0
  /\ tokens = {}
  /\ payloads = {}
  /\ accepted = {}

(* A time as a claim has it.                                                *)
Seconds(t) == t \div Tick

(* The claims of a payload are set first.                                   *)
MSigned(payload, key, expires) ==
  [iat |-> Seconds(now),
   exp |-> IF expires > 0 THEN Seconds(now + expires * Tick) ELSE payload.exp,
   key |-> key, anew |-> payload.iat # None, first |-> payload.first]

(* The duration is taken for one in units of the clock.                     *)
MSignedShort(payload, key, expires) ==
  [iat |-> IF payload.iat # None THEN payload.iat ELSE Seconds(now),
   exp |-> IF payload.exp # None THEN payload.exp
           ELSE IF expires > 0 THEN Seconds(now + expires) ELSE None,
   key |-> key, anew |-> payload.iat # None, first |-> payload.first]

(* sign(): iat and exp of the payload replace the new ones.                 *)
Signed(payload, key, expires) ==
  [iat |-> IF payload.iat # None THEN payload.iat ELSE Seconds(now),
   exp |-> IF payload.exp # None THEN payload.exp
           ELSE IF expires > 0 THEN Seconds(now + expires * Tick) ELSE None,
   key |-> key, anew |-> payload.iat # None, first |-> payload.first]

(* The payload is the application's own, without dates.                     *)
Sign(key, expires) ==
  /\ Cardinality(tokens) < MaxTokens
  /\ tokens' = tokens \cup
       {Signed([iat |-> None, exp |-> None, first |-> [at |-> now, lasts |-> expires]],
               key, expires)}
  /\ UNCHANGED <<now, payloads, accepted>>

(* The payload is one that verify() has returned.                           *)
SignAgain(payload, key, expires) ==
  /\ payload \in payloads
  /\ Cardinality(tokens) < MaxTokens
  /\ tokens' = tokens \cup {Signed(payload, key, expires)}
  /\ UNCHANGED <<now, payloads, accepted>>

(* verifier.verify(): throws otherwise.                                     *)
VerifierAccepts(token, key) ==
  /\ token.key = key
  /\ now >= token.iat * Tick
  /\ token.exp # None => now <= token.exp * Tick

(* The age is looked at only when there is no exp.                          *)
MYoungEnough(token, maxAge) ==
  \/ maxAge < 0
  \/ token.exp # None
  \/ (token.iat + maxAge * Hour) * Tick >= now

(* maxAge_hours < 0: no limit.                                              *)
YoungEnough(token, maxAge) ==
  \/ maxAge < 0
  \/ (token.iat + maxAge * Hour) * Tick >= now

(* set_integer takes an int: of a date that is too large the low bits stay. *)
SetInteger(d) == ((d + Half) % (2 * Half)) - Half

(* verify(): a token that is refused leaves nothing; the payload of another *)
(* is parsed.                                                               *)
Verify(token, key, maxAge) ==
  /\ token \in tokens
  /\ VerifierAccepts(token, key)
  /\ YoungEnough(token, maxAge)
  /\ payloads' = payloads \cup
       {[iat |-> SetInteger(token.iat),
         exp |-> IF token.exp = None THEN None ELSE SetInteger(token.exp),
         first |-> token.first]}
  /\ accepted' = {[token |-> token, key |-> key, maxAge |-> maxAge, at |-> now]}
  /\ UNCHANGED <<now, tokens>>

TimePasses ==
  /\ now < MaxTime
  /\ now' = now + 1
  /\ UNCHANGED <<tokens, payloads, accepted>>

JwtNext ==
  \/ \E k \in Keys, e \in Expires : Sign(k, e) \/ \E p \in payloads : SignAgain(p, k, e)
  \/ \E t \in tokens, k \in Keys, a \in MaxAges : Verify(t, k, a)
  \/ TimePasses

JwtSpec == JwtInit /\ [][JwtNext]_jwtVars
-----------------------------------------------------------------------------
(* A token that was to last, and every one that was signed anew from what   *)
(* verify() returned of it, is refused when that time is over: verify()     *)
(* returns iat and exp with the payload, and sign() lets them stand, so     *)
(* that nothing is prolonged.                                               *)
EndsWithFirst ==
  \A a \in accepted : a.token.first.lasts > 0 =>
    a.at <= a.token.first.at + a.token.first.lasts * Tick

(* What verify() accepts for a maximum age is, with all that it was signed  *)
(* anew from, no older, and of the key asked for.                           *)
AgeBounded ==
  \A a \in accepted :
    /\ a.token.key = a.key
    /\ a.maxAge >= 0 => a.at - a.token.first.at <= a.maxAge * Hour * Tick

(* A token is good from the moment it is signed and loses less than a       *)
(* second of its time to the rounding of claims to seconds.  One that was   *)
(* signed anew lasts as long as the first, if an int holds its exp;         *)
(* otherwise (from the year 2038 on) it may be refused at once.             *)
UsableAtOnce ==
  \A t \in tokens :
    LET end == t.first.at + t.first.lasts * Tick
    IN  /\ t.first.lasts > 0
        /\ now <= end - Tick
        /\ t.anew => Seconds(end) < Half
        => VerifierAccepts(t, t.key)
=============================================================================
