--------------------------- MODULE MCHttpGateway ---------------------------
(* Model values for HttpGateway: the ways a request can go, one form each.  *)
EXTENDS HttpGateway

Rest == "/api/:service/:method"

F(path, verb, service, method, data) ==
    [path |-> path, verb |-> verb, service |-> service, capitals |-> FALSE,
     method |-> method, data |-> data]

Capital(f) == [f EXCEPT !.capitals = TRUE]

MCForms ==
    {F("/login", "POST", "", "", "good"),
     F("/api/generic", "POST", "login", "Logon", "good"),
     F("/api/generic", "POST", "", "Logon", "good"),
     F("/api/generic", "POST", "users", "GetUserInfo", "good"),
     F("/api/generic", "GET", "login", "Logon", "good"),
     Capital(F("/api/generic", "POST", "user", "GetUserInfo", "good")),
     Capital(F(Rest, "GET", "user", "GetUserInfo", "none")),
     Capital(F(Rest, "POST", "loginservice", "Logon", "none")),
     F(Rest, "POST", "login", "Register", "good"),
     F(Rest, "OPTIONS", "login", "Logon", "none"),
     F("/health", "GET", "", "", "none"),
     F("/from/:name", "GET", "", "", "broken"),
     F("rpc", "POST", "login", "Register", "good")}

=============================================================================
