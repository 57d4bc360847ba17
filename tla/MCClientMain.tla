----------------------------- MODULE MCClientMain -----------------------------
(***************************************************************************)
(* Two macaroons, one of which the provider may refuse or revoke; tokens   *)
(* from the environment in both encodings, from the user, or from nobody;  *)
(* certificates that are good, expired, open to all, or no certificates.   *)
(***************************************************************************)
EXTENDS ClientMain

MCAlphabet == {"a", "0", "1", "="}

M1 == <<"a", "0", "1">>
M2 == <<"=", "a", "0">>

Source(names, value) == [o \in names |-> value]

Arguments(auth0, foreground) ==
    Source({"mountpoint"}, "/mnt") @@ Source(IF foreground THEN {"foreground"} ELSE {}, "")
        @@ Source({"authentication"}, auth0)

UserCert == [CertificateNamed(ProxyName(0)) EXCEPT !.expired = FALSE]

PemFile(mode, certificates) ==
    [mode |-> mode, format |-> "pem", badPassphrase |-> FALSE, certificates |-> certificates]

\* A certificate and a key in their usual places, with a mode for the key
Globus(mode, certificates) ==
    [p \in {"usercert.pem", "userkey.pem"} |->
        IF p = "usercert.pem" THEN PemFile(420, certificates) ELSE PemFile(mode, <<>>)]

ProxyFile == [p \in {"proxy"} |->
    PemFile(384, <<[CertificateNamed(ProxyName(1)) EXCEPT !.proxyExtension = TRUE], UserCert>>)]

InputOf(cmd, env, typed, files) ==
    [cmd |-> cmd, env |-> env, user |-> NoOptions, global |-> NoOptions, typed |-> typed,
     files |-> files, hasOption |-> FALSE]

NoFiles == [p \in {} |-> 0]

TokenInputs ==
    {InputOf(Arguments("token", FALSE), Source({"authorization_token"}, Encode62(M1)), {}, NoFiles),
     InputOf(Arguments("token", TRUE), NoOptions, {M2}, NoFiles),
     InputOf(Arguments("token", FALSE), NoOptions, {}, NoFiles)}

CertificateInputs ==
    {InputOf(Arguments("certificate", fg), NoOptions, {}, Globus(384, <<UserCert>>)) :
        fg \in BOOLEAN}
    \cup {InputOf(Arguments("certificate", FALSE), NoOptions, {}, files) :
        files \in {Globus(420, <<UserCert>>), Globus(384, <<>>), ProxyFile, NoFiles,
                   Globus(384, <<[UserCert EXCEPT !.expired = TRUE]>>)}}

OtherInputs ==
    {InputOf(Arguments("password", FALSE), NoOptions, {}, NoFiles),
     InputOf(Source({"help"}, ""), NoOptions, {}, NoFiles),
     InputOf(NoOptions, NoOptions, {}, NoFiles)}

MCInputs == TokenInputs \cup CertificateInputs \cup OtherInputs

MCAccepted0 == {{M1, M2}, {M2}}
===============================================================================
