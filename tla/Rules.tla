------------------------------- MODULE Rules --------------------------------
(***************************************************************************)
(* The Auth0 rules of internal/rules/runner.go: scripts that are run one   *)
(* after the other before a token is signed and may change the user the    *)
(* token describes.                                                        *)
(*                                                                         *)
(* Of that user the fields that tokens show and the custom claims are kept *)
(* (the claims of access and of ID tokens are treated alike).  A script is *)
(* what it does: the fields it assigns, the claims it assigns in place,    *)
(* what it passes to the callback, and whether it throws at the end.  A    *)
(* script that deletes claims or puts another object in their place is     *)
(* left out.                                                               *)
(***************************************************************************)
EXTENDS Maps, SequencesExt

CONSTANTS
    RuleFiles,   \* what the rules directory may hold: sequences of scripts
    ExtraClaims, \* ACCESS_TOKEN_EXTRA_CLAIMS
    Blank        \* "", and a value of a type that is not looked for

ASSUME RulesAssumption ==
    \A rules \in RuleFiles :
        rules \in Seq([set : {r.set : r \in Range(rules)},
                       fields : {r.fields : r \in Range(rules)},
                       throws : BOOLEAN,
                       back : {"user",    \* callback(null, user, context)
                               "other",   \* another object, with these fields only
                               "none"}])  \* no object, or only an error

\* b wins.
mergeClaims(a, b) ==
    [c \in DOMAIN a \cup DOMAIN b |-> IF c \in DOMAIN b THEN b[c] ELSE a[c]]

NoFields == [f \in {"email", "name", "nickname"} |-> Blank]

\* A user whose claims are nil: the script gets an empty map of its own.
NewUser(fields) == [fields |-> fields, shared |-> FALSE, claims |-> << >>]

\* The script shares the claims with the runner (unless they are nil), the
\* fields are copies: without a callback only the shared claims are changed.
runRule(user, rule) ==
    LET claims == mergeClaims(user.claims, rule.set)
    IN  IF rule.throws \/ rule.back = "none"
        THEN [user EXCEPT !.claims = IF user.shared THEN claims ELSE @]
        ELSE IF rule.back = "user"
        THEN [fields |-> Merge(user.fields, rule.fields), shared |-> TRUE,
              claims |-> claims]
        ELSE NewUser(Merge(NoFields, rule.fields))

\* Slip: a failing rule is skipped.
RunAll(user, rules) == FoldLeft(runRule, user, rules)

\* The first error ends Run; the handlers drop it and use the user.
Run(user, rules) ==
    LET after[i \in 0..Len(rules)] ==
          IF i = 0 THEN user
          ELSE IF \E j \in 1..(i - 1) : rules[j].throws THEN after[i - 1]
          ELSE runRule(after[i - 1], rules[i])
    IN  after[Len(rules)]
=============================================================================
