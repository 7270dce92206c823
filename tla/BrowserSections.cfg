\* Two chats, the main and the third column, two urls beside none, and
\* one navigation on its way.
CONSTANTS
    Peers = {p1, p2}
    Urls = {home, page}
    NoUrl = nourl
    Default = home
    Columns = {main, third}
    Addresses = {a1, a2, a3}
    None = none
    MaxPushes = 1
SPECIFICATION Spec
INVARIANT TypeOK
PROPERTY PushIsShown
