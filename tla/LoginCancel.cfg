\* One host and one it redirects to; the cancel alone.
SPECIFICATION FairSpec
CONSTANTS
    Hosts = {h1, h2}
    Gateway = h1
PROPERTY CancelObeyed
