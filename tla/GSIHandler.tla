------------------------------ MODULE GSIHandler ------------------------------
(***************************************************************************)
(* Certificates of the user (src/auth/gsiHandler.cc): where they are looked *)
(* for, what is checked, and the chain and the distinguished name taken    *)
(* from them.                                                              *)
(*                                                                         *)
(* A file is a record: its permission bits, how its private key and its    *)
(* certificates parse.  The files of a user are a function from the places *)
(* the client looks at to files.  A distinguished name is the sequence of  *)
(* its parts in the order of RFC 2253, the most specific one first, so the *)
(* name of a proxy certificate ends with the name of its issuer.           *)
(***************************************************************************)
EXTENDS Integers, Sequences, SequencesExt, FiniteSets, Functions

NoFile == "no file"

\* Places in the user's home and in /tmp; a directory holds the last three.
SearchPath == <<<<"proxy", "proxy">>, <<"usercert.pem", "userkey.pem">>,
                <<"usercred.p12", "usercred.p12">>>>

DirectoryPairs == {<<"other.p12", "other.p12">>, <<"other.pem", "other.key">>}

Exists(files, path) == path \in DOMAIN files

BothExist(files, pair) == Exists(files, pair[1]) /\ Exists(files, pair[2])

\* The pairs that a search may return: the order of a directory is arbitrary.
FindUserCertAndKey(files) ==
    LET found == SelectSeq(SearchPath, LAMBDA pair : BothExist(files, pair))
        inDirectory == {pair \in DirectoryPairs : BothExist(files, pair)}
    IN  IF found # <<>> THEN {Head(found)}
        ELSE IF inDirectory # {} THEN inDirectory
        ELSE {<<NoFile, NoFile>>}

Overridden(files, pair) ==
    IF pair[1] = "proxy" THEN pair
    ELSE <<IF Exists(files, "$X509_USER_CERT") THEN "$X509_USER_CERT" ELSE pair[1],
           IF Exists(files, "$X509_USER_KEY")  THEN "$X509_USER_KEY"  ELSE pair[2]>>

\* "option" is the place that the option peer_certificate_file names.
GetUserCertAndKey(files, hasOption) ==
    IF hasOption THEN {<<"option", "option">>}
    ELSE IF Exists(files, "$X509_USER_PROXY") THEN {<<"$X509_USER_PROXY", "$X509_USER_PROXY">>}
    ELSE {Overridden(files, pair) : pair \in FindUserCertAndKey(files)}

\* ------------------------------------------------------------ permission bits
GroupOther(mode) == mode % 64

Bits(n) == {i \in 0..8 : (n \div 2^i) % 2 = 1}

\* Group and others may do nothing but read, and the owner not everything.
CertModeAllowed(mode) ==
    /\ mode <= 6*64 + 4*8 + 4
    /\ Bits(mode) \cap {0, 1, 3, 4} = {}

KeyModeAllowed(mode) == mode <= 6*64 /\ GroupOther(mode) = 0

\* ------------------------------------------------------------------ validation
Fails(reason) == [error |-> reason, chain |-> <<>>, dn |-> <<>>, proxy |-> FALSE]

\* The certificates after the first one are pushed on a stack, the stack is
\* turned over, and it is emptied from its top into the buffer.
Pushed(certificates) == FoldLeft(LAMBDA stack, c : Append(stack, c), <<>>, certificates)

TurnedOver(stack) == Reverse(stack)

Emptied(stack) == Reverse(stack)

PemChain(certificates) == Emptied(TurnedOver(Pushed(Tail(certificates))))

IsPart(dn, of) == \E i, j \in 0..Len(of) : SubSeq(of, i + 1, j) = dn

\* The name of the chain's next certificate, if it is part of the current one.
NextName(current, dn) == IF IsPart(dn, current) THEN dn ELSE current

UserDN(cert, chain) == FoldLeft(LAMBDA dn, c : NextName(dn, c.dn), cert.dn, chain)

\* What is kept of a certificate that is accepted.
Accepted(cert, chain, samePath) ==
    [error |-> "", chain |-> <<cert>> \o chain, dn |-> UserDN(cert, chain),
     proxy |-> samePath /\ cert.proxyExtension]

CheckedTimes(cert, chain, samePath) ==
    IF cert.expired THEN Fails("expired")
    ELSE IF cert.tooEarly THEN Fails("not valid yet")
    ELSE Accepted(cert, chain, samePath)

\* A PEM key takes the certificates of the certificate file, a PKCS12 one those
\* that come with it.  A file without certificates is not checked for before
\* its first certificate is used: the process dies.
ParsedCert(certFile, keyFile, samePath) ==
    LET certificates == IF keyFile.format = "pem" THEN certFile.certificates
                        ELSE keyFile.certificates
        chain == IF keyFile.format = "pem" THEN PemChain(certificates)
                 ELSE Emptied(Tail(certificates))
    IN  IF keyFile.format = "other" THEN Fails("invalid file")
        ELSE IF keyFile.badPassphrase THEN Fails("invalid passphrase")
        ELSE IF certificates = <<>> THEN Fails("crash")
        ELSE CheckedTimes(Head(certificates), chain, samePath)

ValidateProxyCert(files, pair) ==
    IF pair[1] = NoFile THEN Fails("no certificate")
    ELSE IF ~Exists(files, pair[1]) THEN Fails("unreadable certificate")
    ELSE IF ~CertModeAllowed(files[pair[1]].mode) THEN Fails("too permissive")
    ELSE IF pair[2] = NoFile THEN Fails("no key")
    ELSE IF ~Exists(files, pair[2]) THEN Fails("unreadable key")
    ELSE IF ~KeyModeAllowed(files[pair[2]].mode) THEN Fails("too permissive")
    ELSE ParsedCert(files[pair[1]], files[pair[2]], pair[1] = pair[2])

\* getCertData(): a proxy is read again from its file, the rest from memory.
GetCertData(validated) ==
    IF validated.proxy THEN "FilesystemCertificate" ELSE "InMemoryCertificate"

\* The host is named after the user unless an option names it.
GetClusterHostname(validated, hasHostname, hostname) ==
    IF hasHostname \/ validated.dn = <<>> THEN <<hostname>> ELSE <<validated.dn, hostname>>

\* ------------------------------------------------------------- the properties
AllPaths == {"option", "$X509_USER_PROXY", "$X509_USER_CERT", "$X509_USER_KEY", "proxy",
             "usercert.pem", "userkey.pem", "usercred.p12", "other.p12", "other.pem", "other.key"}

\* The places in the order in which the message of validateProxyCert() lists
\* them, the two forms of the directory under one number.
MessageOrder == <<{"$X509_USER_PROXY"}, {"proxy"}, {"$X509_USER_CERT"}, {"usercert.pem"},
                  {"usercred.p12"}, {"other.p12", "other.pem"}>>

KeyOf(cert) == CASE cert = "usercert.pem" -> "userkey.pem"
                 [] cert = "other.pem"    -> "other.key"
                 [] OTHER                 -> cert

\* Whatever files and variables there are: the certificate is the first in the
\* order of the message that has its key beside it (a certificate named by a
\* variable needs none), and without variables for certificate and key the
\* key is the one that belongs to it.
CertificateSearch ==
    \A present \in SUBSET AllPaths :
        LET files == [p \in present |-> 0]
            usable(c) == c \in present /\ (c = "$X509_USER_CERT" \/ KeyOf(c) \in present)
            ranked == {i \in DOMAIN MessageOrder : \E c \in MessageOrder[i] : usable(c)}
        IN  \A pair \in GetUserCertAndKey(files, FALSE) :
                /\ IF ranked = {} THEN pair[1] = NoFile
                   ELSE \E i \in ranked : /\ \A j \in ranked : i <= j
                                          /\ pair[1] \in MessageOrder[i]
                                          /\ usable(pair[1])
                /\ present \cap {"$X509_USER_CERT", "$X509_USER_KEY"} = {} /\ pair[1] # NoFile
                       => pair[2] = KeyOf(pair[1])

\* Certificates of a chain: proxies of a user, the user's own, authorities.
CertificateNamed(dn) == [dn |-> dn, proxyExtension |-> FALSE, expired |-> FALSE, tooEarly |-> FALSE]

ProxyName(n) == [i \in 1..n |-> "CN=proxy"] \o <<"CN=user", "OU=people", "O=grid">>

Authorities == {<<"CN=ca", "O=grid">>, <<"CN=root", "O=grid">>, <<"CN=ca", "O=other">>}

UserChains ==
    {[i \in 1..(proxies + 1) |-> CertificateNamed(ProxyName(proxies + 1 - i))]
       \o [i \in DOMAIN cas |-> CertificateNamed(cas[i])] :
     proxies \in 0..2, cas \in SeqOf(Authorities, 2)}

\* The buffer given to the TLS context holds the certificates of the file in
\* their order, and the name of the user is that of the certificate the proxies
\* were issued from, however many proxies and authorities the file holds (no
\* authority's name being part of the user's).
ChainInOrder ==
    \A certificates \in UserChains :
        LET validated == CheckedTimes(Head(certificates), PemChain(certificates), TRUE)
        IN  /\ validated.chain = certificates
            /\ validated.dn = ProxyName(0)
===============================================================================
