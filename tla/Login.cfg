\* Two hosts: the gateway and one it redirects to.
SPECIFICATION FairSpec
CONSTANTS
    Hosts = {h1, h2}
    Gateway = h1
INVARIANTS TypeOK NoStaleAnswer RightHost ProbeBounded FallBackAtOrigin CertOnNewConnection
PROPERTIES ProbeEnds 
