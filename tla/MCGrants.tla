------------------------------ MODULE MCGrants ------------------------------
(* Grants on small instances.  Scopes are known by name here, and imply    *)
(* each other as Scopes says of what they name.                            *)
EXTENDS Grants, Scopes, TLC

Apps(path, fragment) == Url("identity.mozilla.com", path, fragment)

Named == [
  profile |-> Short(<<"profile">>),
  profileWrite |-> Short(<<"profile", "write">>),
  email |-> Short(<<"profile", "email">>),
  emailWrite |-> Short(<<"profile", "email", "write">>),
  openid |-> Short(<<"openid">>),
  openidWrite |-> Short(<<"openid", "write">>),
  apps |-> Apps(<<"apps">>, ""),
  appsPart |-> Apps(<<"apps">>, "part"),
  oldsync |-> Apps(<<"apps", "oldsync">>, ""),
  oldsyncPart |-> Apps(<<"apps", "oldsync">>, "part")]

Names == DOMAIN Named
Table == << >> @@ [s \in Names |-> {t \in Names : Named[t] \in ImplicantsOf(Named[s])}]

(* TLC works a definition out once, but not what the configuration gives a *)
(* constant for: hence a name of its own for each table.                   *)
MCScope == Names
MCImplicants == Table

ASSUME NamedAssumption ==
  \A s \in MCScope :
    /\ WellFormed(Named[s])
    /\ ImplicantsOf(Named[s]) \subseteq {Named[t] : t \in MCScope}

MCRequested == {"profile", "email", "emailWrite", "openid", "oldsync", "oldsyncPart"}
MCTrusted == {"openid", "profile"}
MCUntrusted == {"openid", "email"}

Registration(trusted, canGrant, public, allowed) ==
  [trusted |-> trusted, canGrant |-> canGrant, public |-> public, allowed |-> allowed]

(* A browser; a browser that may only have a part of oldsync, without      *)
(* direct grants or PKCE; a relier that is not trusted.                    *)
MCEntries == {Registration(TRUE, TRUE, TRUE, {"oldsync"}),
              Registration(TRUE, FALSE, FALSE, {"oldsyncPart"}),
              Registration(FALSE, TRUE, TRUE, {"emailWrite"})}

=============================================================================
